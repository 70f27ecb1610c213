------------------------------ MODULE FrequencyFeed ------------------------------
(***************************************************************************)
(* Feeds at fixed frequencies (app/services/frequency_feed_manager.py):    *)
(* one loop per frequency computes a signal for the users subscribed at it *)
(* and publishes the result to one user after the other, while users come, *)
(* go and change their frequency.  One instrument and one type of signal;  *)
(* a result is never published to a user of the batch more than once.      *)
(***************************************************************************)
EXTENDS Integers, FiniteSets

CONSTANTS Users, Frequencies,
          Interval,       \* seconds of a frequency, in ticks
          ComputeTime,    \* a computation takes at most so many ticks
          NoFeed

ASSUME FeedAssumption ==
    /\ Interval \in [Frequencies -> Nat]
    /\ ComputeTime \in Nat
    /\ \A f \in Frequencies : ComputeTime < Interval[f]
    /\ NoFeed \notin Frequencies

VARIABLES
    frequencySubscriptions,   \* users subscribed at a frequency
    userFrequency,            \* user_frequencies: the frequency of a user
    feedLoop,                 \* where the loop of a frequency is
    sinceStart,               \* ticks since the round, or the pause, began
    sinceProcessed,           \* ticks since last_processed, Unset before
    batch,                    \* users the current result is for
    waiting,                  \* history: ticks a subscribed user has waited
    lateCount                 \* history: results published to a user that left

feedVars == <<frequencySubscriptions, userFrequency, feedLoop, sinceStart,
              sinceProcessed, batch, waiting, lateCount>>

Unset == -1
Longest(f) == 2 * Interval[f] + ComputeTime

FeedTypeOK ==
    /\ frequencySubscriptions \in [Frequencies -> SUBSET Users]
    /\ userFrequency \in [Users -> Frequencies \cup {NoFeed}]
    /\ \A u \in Users, f \in Frequencies :
          u \in frequencySubscriptions[f] <=> userFrequency[u] = f
    /\ feedLoop \in [Frequencies -> {"sleep", "compute", "publish"}]
    /\ \A f \in Frequencies : sinceStart[f] \in 0 .. Interval[f]
    /\ \A f \in Frequencies : sinceProcessed[f] \in {Unset} \cup (0 .. Interval[f])
    /\ \A f \in Frequencies : feedLoop[f] = "sleep" => batch[f] = {}
    /\ waiting \in [Users -> Nat]
    /\ lateCount \in [Users -> [Frequencies -> 0 .. 1]]

FeedInit ==
    /\ frequencySubscriptions = [f \in Frequencies |-> {}]
    /\ userFrequency = [u \in Users |-> NoFeed]
    /\ feedLoop = [f \in Frequencies |-> "sleep"]
    /\ sinceStart = Interval
    /\ sinceProcessed = [f \in Frequencies |-> Unset]
    /\ batch = [f \in Frequencies |-> {}]
    /\ waiting = [u \in Users |-> 0]
    /\ lateCount = [u \in Users |-> [f \in Frequencies |-> 0]]

-----------------------------------------------------------------------------
(* Users.  What is written to Redis afterwards is never read back.         *)

\* Mutant: the user is added to the new frequency and kept in the old one.
MoveOnlyAdds(u, to) ==
    frequencySubscriptions' = [f \in Frequencies |->
        IF f = to THEN frequencySubscriptions[f] \cup {u} ELSE frequencySubscriptions[f]]

\* Mutant: a user that is subscribed already keeps its place.
MoveOnlyNew(u, to) ==
    frequencySubscriptions' = [f \in Frequencies |->
        IF f = to /\ userFrequency[u] = NoFeed THEN frequencySubscriptions[f] \cup {u}
        ELSE IF to = NoFeed THEN frequencySubscriptions[f] \ {u}
        ELSE frequencySubscriptions[f]]

Move(u, to) ==
    frequencySubscriptions' = [f \in Frequencies |->
        IF f = to THEN frequencySubscriptions[f] \cup {u}
        ELSE IF f = userFrequency[u] THEN frequencySubscriptions[f] \ {u}
        ELSE frequencySubscriptions[f]]

UpdateSubscriptionFrequency(u, f) ==
    /\ Move(u, f)
    /\ userFrequency' = [userFrequency EXCEPT ![u] = f]
    /\ waiting' = [waiting EXCEPT ![u] = IF userFrequency[u] = f THEN @ ELSE 0]
    /\ lateCount' = [lateCount EXCEPT ![u] = [g \in Frequencies |-> 0]]
    /\ UNCHANGED <<feedLoop, sinceStart, sinceProcessed, batch>>

RemoveSubscription(u) ==
    /\ userFrequency[u] # NoFeed
    /\ Move(u, NoFeed)
    /\ userFrequency' = [userFrequency EXCEPT ![u] = NoFeed]
    /\ waiting' = [waiting EXCEPT ![u] = 0]
    /\ UNCHANGED <<feedLoop, sinceStart, sinceProcessed, batch, lateCount>>

-----------------------------------------------------------------------------
(* The loop of a frequency.                                                *)

Due(f) == feedLoop[f] = "sleep" /\ sinceStart[f] = Interval[f]

TooSoon(f) == sinceProcessed[f] # Unset /\ 10 * sinceProcessed[f] < 9 * Interval[f]

\* A round with nobody to serve, or too soon after the last, ends at once.
StartRound(f) ==
    /\ Due(f)
    /\ sinceStart' = [sinceStart EXCEPT ![f] = 0]
    /\ IF frequencySubscriptions[f] # {} /\ ~TooSoon(f)
       THEN /\ feedLoop' = [feedLoop EXCEPT ![f] = "compute"]
            /\ batch' = [batch EXCEPT ![f] = frequencySubscriptions[f]]
       ELSE UNCHANGED <<feedLoop, batch>>
    /\ UNCHANGED <<frequencySubscriptions, userFrequency, sinceProcessed, waiting, lateCount>>

Served(f) == [u \in Users |-> IF u \in batch[f] /\ userFrequency[u] = f THEN 0 ELSE waiting[u]]

ComputationSucceeds(f) ==
    /\ feedLoop[f] = "compute"
    /\ sinceProcessed' = [sinceProcessed EXCEPT ![f] = 0]
    /\ feedLoop' = [feedLoop EXCEPT ![f] = "publish"]
    /\ waiting' = Served(f)
    /\ UNCHANGED <<frequencySubscriptions, userFrequency, sinceStart, batch, lateCount>>

\* No result, or an exception: the next round tries again.
ComputationFails(f) ==
    /\ feedLoop[f] = "compute"
    /\ feedLoop' = [feedLoop EXCEPT ![f] = "sleep"]
    /\ batch' = [batch EXCEPT ![f] = {}]
    /\ waiting' = Served(f)
    /\ UNCHANGED <<frequencySubscriptions, userFrequency, sinceStart, sinceProcessed, lateCount>>

PublishTo(f, u) ==
    /\ feedLoop[f] = "publish" /\ u \in batch[f]
    /\ batch' = [batch EXCEPT ![f] = @ \ {u}]
    /\ lateCount' = IF userFrequency[u] = NoFeed
                    THEN [lateCount EXCEPT ![u][f] = @ + 1] ELSE lateCount
    /\ UNCHANGED <<frequencySubscriptions, userFrequency, feedLoop, sinceStart,
                   sinceProcessed, waiting>>

\* All are served, or Redis failed and the others go without this result.
EndRound(f) ==
    /\ feedLoop[f] = "publish"
    /\ feedLoop' = [feedLoop EXCEPT ![f] = "sleep"]
    /\ batch' = [batch EXCEPT ![f] = {}]
    /\ UNCHANGED <<frequencySubscriptions, userFrequency, sinceStart, sinceProcessed,
                   waiting, lateCount>>

\* Time passes while every loop sleeps or computes, a computation no longer than
\* ComputeTime and a pause no longer than what is left of the interval.
FeedTick ==
    /\ \A f \in Frequencies :
          \/ feedLoop[f] = "sleep" /\ sinceStart[f] < Interval[f]
          \/ feedLoop[f] = "compute" /\ sinceStart[f] < ComputeTime
    /\ sinceStart' = [f \in Frequencies |-> sinceStart[f] + 1]
    /\ sinceProcessed' = [f \in Frequencies |->
          IF sinceProcessed[f] \in {Unset, Interval[f]} THEN sinceProcessed[f]
          ELSE sinceProcessed[f] + 1]
    /\ waiting' = [u \in Users |-> IF userFrequency[u] = NoFeed THEN 0 ELSE waiting[u] + 1]
    /\ UNCHANGED <<frequencySubscriptions, userFrequency, feedLoop, batch, lateCount>>

FeedNext ==
    \/ \E u \in Users :
          \/ \E f \in Frequencies : UpdateSubscriptionFrequency(u, f) \/ PublishTo(f, u)
          \/ RemoveSubscription(u)
    \/ \E f \in Frequencies :
          StartRound(f) \/ ComputationSucceeds(f) \/ ComputationFails(f) \/ EndRound(f)
    \/ FeedTick

FeedSpec == FeedInit /\ [][FeedNext]_feedVars

-----------------------------------------------------------------------------
(* Properties.                                                             *)

\* A subscribed user is served within two intervals and one computation, although a
\* round may be skipped because the last computation ended late, whenever it came
\* and whatever the others did.
ServedInTime ==
    \A u \in Users : userFrequency[u] # NoFeed => waiting[u] <= Longest(userFrequency[u])

\* A user that left gets at most the result that was being computed then, and of a
\* frequency it had given up at most one more.
StopsAfterLeaving ==
    \A u \in Users, f \in Frequencies : lateCount[u][f] <= 1

\* What a feed promises its users: a result in time, and none for long after leaving.
FeedPromise ==
    /\ FeedTypeOK
    /\ ServedInTime
    /\ StopsAfterLeaving
==============================================================================
