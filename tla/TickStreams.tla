------------------------------ MODULE TickStreams ------------------------------
(***************************************************************************)
(* The shard streams of ticks and their two kinds of readers: the signal   *)
(* processors, which share one consumer group and append a processed copy  *)
(* of every tick to the stream it came from (app/services/                 *)
(* signal_processor.py), and a worker's stream consumer with a group of    *)
(* its own, which keeps the latest price (ticker_stream_consumer.py).      *)
(*                                                                         *)
(* One shard.  Redis delivers each entry of a stream once to each group,   *)
(* in order; what is not acknowledged is never read again, because both    *)
(* readers ask only for new entries.                                       *)
(***************************************************************************)
EXTENDS Integers, FiniteSets, Sequences, FiniteSetsExt

CONSTANTS Processors, Instruments,
          Configurable,   \* instruments that may have configurations
          Assigned,       \* assigned_symbols of the stream consumer
          MaxTicks,       \* bound: ticks appended by the ticker service
          ReadCount,      \* STREAM_READ_COUNT
          MaxCrashes      \* bound: crashes of the processors

ASSUME TickAssumption ==
    /\ Assigned \subseteq Instruments /\ Configurable \subseteq Instruments
    /\ {MaxTicks, MaxCrashes} \subseteq Nat
    /\ ReadCount \in Nat \ {0}

VARIABLES
    stream,         \* entries: the tick, its instrument, its state
    configured,     \* instruments of the active configurations
    groupAt,        \* last entry delivered to the processors' group, NoGroup before
    acked,          \* entries the group acknowledged
    joined,         \* processors that read the stream: active_streams
    watchedInst,    \* active_instruments a processor remembered
    reader,         \* what the loop of a processor is doing
    working,        \* ticks a processor is working on, and how far it is
    consumerAt,     \* last entry the stream consumer looked at
    consumerAcked,  \* entries it acknowledged
    latest,         \* the last tick it stored for an instrument
    crashes

tickVars == <<stream, configured, groupAt, acked, joined, watchedInst, reader,
              working, consumerAt, consumerAcked, latest, crashes>>

NoGroup == -1
Entries == 1 .. Len(stream)
Original(i) == stream[i].state = "U"
Ticks == Cardinality({i \in Entries : Original(i)})

TicksTypeOK ==
    /\ stream \in Seq([tick : 1 .. MaxTicks, instrument : Instruments, state : {"U", "P"}])
    /\ Len(stream) <= 2 * MaxTicks
    /\ configured \subseteq Configurable
    /\ groupAt \in {NoGroup} \cup (0 .. Len(stream))
    /\ acked \subseteq 1 .. groupAt
    /\ joined \subseteq Processors
    /\ joined # {} => groupAt # NoGroup
    /\ watchedInst \in [Processors -> SUBSET Instruments]
    /\ reader \in [Processors -> {"down", "idle", "reading", "working"}]
    /\ working \in [Processors -> SUBSET (Entries \X {"new", "copied"})]
    /\ \A p \in Processors :
          /\ reader[p] = "working" <=> working[p] # {}
          /\ reader[p] \in {"reading", "working"} => p \in joined
    /\ consumerAt \in 0 .. Len(stream)
    /\ consumerAcked \subseteq 1 .. consumerAt
    /\ latest \in [Instruments -> 0 .. MaxTicks]
    /\ crashes \in 0 .. MaxCrashes

TicksInit ==
    /\ stream = <<>>
    /\ configured \in SUBSET Configurable
    /\ groupAt = NoGroup /\ acked = {}
    /\ joined = {}
    /\ watchedInst = [p \in Processors |-> {}]
    /\ reader = [p \in Processors |-> "idle"]
    /\ working = [p \in Processors |-> {}]
    /\ consumerAt = 0 /\ consumerAcked = {}
    /\ latest = [n \in Instruments |-> 0]
    /\ crashes = 0

consumerVars == <<consumerAt, consumerAcked, latest>>

-----------------------------------------------------------------------------
(* The environment.                                                        *)

TickArrives(n) ==
    /\ Ticks < MaxTicks
    /\ stream' = Append(stream, [tick |-> Ticks + 1, instrument |-> n, state |-> "U"])
    /\ UNCHANGED <<configured, groupAt, acked, joined, watchedInst, reader, working,
                   consumerVars, crashes>>

ConfigurationsChange(set) ==
    /\ configured' = set
    /\ UNCHANGED <<stream, groupAt, acked, joined, watchedInst, reader, working,
                   consumerVars, crashes>>

Crash(p) ==
    /\ reader[p] # "down" /\ crashes < MaxCrashes
    /\ crashes' = crashes + 1
    /\ reader' = [reader EXCEPT ![p] = "down"]
    /\ joined' = joined \ {p}
    /\ watchedInst' = [watchedInst EXCEPT ![p] = {}]
    /\ working' = [working EXCEPT ![p] = {}]
    /\ UNCHANGED <<stream, configured, groupAt, acked, consumerVars>>

Restart(p) ==
    /\ reader[p] = "down"
    /\ reader' = [reader EXCEPT ![p] = "idle"]
    /\ UNCHANGED <<stream, configured, groupAt, acked, joined, watchedInst, working,
                   consumerVars, crashes>>

-----------------------------------------------------------------------------
(* A signal processor.                                                     *)

\* The group is made by the first that asks; for the others xgroup_create raises
\* BUSYGROUP, and only the one that made it adds the stream to those it reads.
LookAtConfigurations(p) ==
    /\ reader[p] = "idle"
    /\ watchedInst' = [watchedInst EXCEPT ![p] = configured]
    /\ IF configured # {} /\ p \notin joined /\ groupAt = NoGroup
       THEN joined' = joined \cup {p} /\ groupAt' = 0
       ELSE UNCHANGED <<joined, groupAt>>
    /\ reader' = [reader EXCEPT ![p] = IF p \in joined' THEN "reading" ELSE "idle"]
    /\ UNCHANGED <<stream, configured, acked, working, consumerVars, crashes>>

\* Up to ReadCount new entries; those of an instrument that is not watched are left
\* pending.  When nothing is new the call returns with nothing after a while.
ReadStream(p) ==
    LET upto == IF groupAt + ReadCount < Len(stream) THEN groupAt + ReadCount ELSE Len(stream)
        new  == (groupAt + 1) .. upto
        mine == {i \in new : stream[i].instrument \in watchedInst[p]}
    IN  /\ reader[p] = "reading"
        /\ groupAt' = upto
        /\ working' = [working EXCEPT ![p] = {<<i, "new">> : i \in mine}]
        /\ reader' = [reader EXCEPT ![p] = IF mine = {} THEN "idle" ELSE "working"]
        /\ UNCHANGED <<stream, configured, acked, joined, watchedInst, consumerVars, crashes>>

\* Mutant: the next read follows the first tick that is done.
FinishFirst(p, w, more) ==
    /\ working' = [working EXCEPT ![p] = (@ \ {w}) \cup more]
    /\ reader' = [reader EXCEPT ![p] = "idle"]

Finish(p, w, more) ==
    /\ working' = [working EXCEPT ![p] = (@ \ {w}) \cup more]
    /\ reader' = [reader EXCEPT ![p] = IF working'[p] = {} THEN "idle" ELSE "working"]

\* Mutant: the copy of a tick is taken for a tick.
IsTickAnyway(i) == stream[i].tick > 0

IsTick(i) == Original(i)

\* An entry that is somebody's copy is acknowledged and nothing more.
SkipProcessed(p, i) ==
    /\ <<i, "new">> \in working[p]
    /\ ~IsTick(i)
    /\ acked' = acked \cup {i}
    /\ Finish(p, <<i, "new">>, {})
    /\ UNCHANGED <<stream, configured, groupAt, joined, watchedInst, consumerVars, crashes>>

\* Mutant: the tick is acknowledged first, and its copy appended afterwards.
AckFirst(p, i) ==
    /\ <<i, "new">> \in working[p]
    /\ IsTick(i)
    /\ acked' = acked \cup {i}
    /\ Finish(p, <<i, "new">>, {<<i, "copied">>})
    /\ UNCHANGED <<stream, configured, groupAt, joined, watchedInst, consumerVars, crashes>>

\* The tick is computed and its copy appended; the ticks of one read do so in any order.
AppendProcessed(p, i) ==
    /\ <<i, "new">> \in working[p]
    /\ IsTick(i)
    /\ stream' = Append(stream, [stream[i] EXCEPT !.state = "P"])
    /\ Finish(p, <<i, "new">>, {<<i, "copied">>})
    /\ UNCHANGED <<configured, groupAt, acked, joined, watchedInst, consumerVars, crashes>>

Acknowledge(p, i) ==
    /\ <<i, "copied">> \in working[p]
    /\ acked' = acked \cup {i}
    /\ Finish(p, <<i, "copied">>, {})
    /\ UNCHANGED <<stream, configured, groupAt, joined, watchedInst, consumerVars, crashes>>

\* The computation or a call of Redis fails: the entry stays pending.
WorkFails(p, w) ==
    /\ w \in working[p]
    /\ Finish(p, w, {})
    /\ UNCHANGED <<stream, configured, groupAt, acked, joined, watchedInst, consumerVars, crashes>>

-----------------------------------------------------------------------------
(* The stream consumer of a worker: one entry after the other, and what it *)
(* is not assigned is acknowledged without a look.                         *)

\* Mutant: an entry that failed is acknowledged like the others.
AckAlways(i, outcome) ==
    consumerAcked' = IF outcome = "unacked" THEN consumerAcked ELSE consumerAcked \cup {i}

AckConsumed(i, outcome) ==
    consumerAcked' = IF outcome = "done" THEN consumerAcked \cup {i} ELSE consumerAcked

\* The storing may fail, and the acknowledgement after it.
ConsumeTick(outcome) ==
    LET i == consumerAt + 1
        mine == stream[i].instrument \in Assigned
    IN  /\ i \in Entries
        /\ outcome = "failed" => mine
        /\ consumerAt' = i
        /\ AckConsumed(i, outcome)
        /\ latest' = IF mine /\ outcome # "failed"
                     THEN [latest EXCEPT ![stream[i].instrument] = stream[i].tick] ELSE latest
        /\ UNCHANGED <<stream, configured, groupAt, acked, joined, watchedInst, reader,
                       working, crashes>>

-----------------------------------------------------------------------------
Step(p) ==
    \/ LookAtConfigurations(p) \/ ReadStream(p)
    \/ \E i \in Entries : SkipProcessed(p, i) \/ AppendProcessed(p, i) \/ Acknowledge(p, i)

TicksNext ==
    \/ \E n \in Instruments : TickArrives(n)
    \/ \E set \in SUBSET Configurable : ConfigurationsChange(set)
    \/ \E p \in Processors :
          \/ Crash(p) \/ Restart(p) \/ Step(p)
          \/ \E i \in Entries, stage \in {"new", "copied"} : WorkFails(p, <<i, stage>>)
    \/ \E outcome \in {"done", "failed", "unacked"} : ConsumeTick(outcome)

TicksSpec ==
    TicksInit /\ [][TicksNext]_tickVars /\ \A p \in Processors : WF_tickVars(Step(p))

-----------------------------------------------------------------------------
(* Properties.                                                             *)

\* The stream does not feed on itself: a tick is copied at most once, although the
\* copies are read by the group that wrote them.
OneCopy ==
    \A t \in 1 .. MaxTicks :
        Cardinality({i \in Entries : stream[i].tick = t /\ stream[i].state = "P"}) <= 1

\* What is acknowledged has been done: the copy of an acknowledged tick is in the
\* stream, whatever failed or crashed.
AckedIsDone ==
    \A i \in acked : Original(i) =>
        \E j \in Entries : j > i /\ stream[j].tick = stream[i].tick /\ stream[j].state = "P"

\* What the consumer acknowledged is stored: the latest price of an instrument is that
\* of the last entry acknowledged for it or of one that came later, a failed entry is
\* never passed off as stored.  (A copy is an entry like any other here, so a price
\* may be followed by an older one.)
AckedIsStored ==
    \A n \in Assigned : \A i \in consumerAcked :
        stream[i].instrument = n =>
            \E j \in i .. consumerAt : stream[j].instrument = n /\ latest[n] = stream[j].tick

\* "BUSYGROUP means group already exists, which is expected" (signal_processor.py:550):
\* a processor that runs on and has instruments to watch reads the stream.
ProcessorReads ==
    \A p \in Processors :
        <>[](configured # {} /\ reader[p] # "down") => []<>(p \in joined)

\* What the readers of a stream promise: an acknowledgement tells of work that is done,
\* and their own copies are not work.
TicksPromise ==
    /\ TicksTypeOK
    /\ OneCopy
    /\ AckedIsDone
    /\ AckedIsStored
=============================================================================
