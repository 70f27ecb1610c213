------------------------------ MODULE Resilience ------------------------------
(***************************************************************************)
(* The circuit breaker of the signal processor (app/utils/resilience.py):  *)
(* any number of coroutines share it, and the guarded call is awaited      *)
(* between the admission and the recording of its result, so results of    *)
(* calls admitted in one state are recorded in another.                    *)
(***************************************************************************)
EXTENDS Integers, FiniteSets

CONSTANTS Callers,            \* coroutines that use the breaker
          FailureThreshold,   \* config.failure_threshold
          RecoveryTimeout     \* config.recovery_timeout, in ticks

ASSUME ResilienceAssumption ==
    /\ FailureThreshold \in Nat \ {0}
    /\ RecoveryTimeout \in Nat \ {0}

VARIABLES
    breakerState,      \* state
    failureCount,      \* failure_count
    sinceFailure,      \* ticks since last_failure_timestamp, Never when None
    calling,           \* callers awaiting the guarded function
    sinceTrip,         \* history: ticks since the breaker last opened
    rescued            \* history: a call has succeeded since then

breakerVars == <<breakerState, failureCount, sinceFailure, calling, sinceTrip, rescued>>

Never == -1

BreakerTypeOK ==
    /\ breakerState \in {"CLOSED", "OPEN", "HALF_OPEN"}
    /\ failureCount \in 0 .. FailureThreshold - 1
    /\ sinceFailure \in {Never} \cup (0 .. RecoveryTimeout)
    /\ sinceFailure = Never <=> breakerState = "CLOSED"
    /\ calling \subseteq Callers
    /\ sinceTrip \in {Never} \cup (0 .. RecoveryTimeout)
    /\ rescued \in BOOLEAN

BreakerInit ==
    /\ breakerState = "CLOSED"
    /\ failureCount = 0
    /\ sinceFailure = Never
    /\ calling = {}
    /\ sinceTrip = Never /\ rescued = FALSE

Aged(t) == IF t \in 0 .. RecoveryTimeout - 1 THEN t + 1 ELSE t

BreakerTick ==
    /\ sinceFailure' = Aged(sinceFailure)
    /\ sinceTrip' = Aged(sinceTrip)
    /\ UNCHANGED <<breakerState, failureCount, calling, rescued>>

\* Mutant: the breaker opens and goes on counting where it was.
OpenWithoutReset ==
    /\ breakerState' = "OPEN"
    /\ sinceFailure' = 0
    /\ failureCount' = failureCount + 1

OpenCircuit ==
    /\ breakerState' = "OPEN"
    /\ sinceFailure' = 0
    /\ failureCount' = 0

\* Mutant: an open breaker lets the next call try.
AllowsAtOnce ==
    \/ breakerState \in {"CLOSED", "HALF_OPEN"} /\ UNCHANGED breakerState
    \/ breakerState = "OPEN" /\ breakerState' = "HALF_OPEN"

AllowsExecution ==
    \/ breakerState \in {"CLOSED", "HALF_OPEN"} /\ UNCHANGED breakerState
    \/ /\ breakerState = "OPEN" /\ sinceFailure = RecoveryTimeout
       /\ breakerState' = "HALF_OPEN"

\* A refused call raises and changes nothing.
Call(c) ==
    /\ c \notin calling
    /\ AllowsExecution
    /\ calling' = calling \cup {c}
    /\ UNCHANGED <<failureCount, sinceFailure, sinceTrip, rescued>>

CallFails(c) ==
    /\ c \in calling
    /\ calling' = calling \ {c}
    /\ IF failureCount + 1 >= FailureThreshold
       THEN OpenCircuit /\ sinceTrip' = 0 /\ rescued' = FALSE
       ELSE /\ failureCount' = failureCount + 1
            /\ UNCHANGED <<breakerState, sinceFailure, sinceTrip, rescued>>

\* Mutant: only a breaker that is still open is reset by a success.
RecordWhenOpen ==
    IF breakerState = "OPEN"
    THEN breakerState' = "CLOSED" /\ failureCount' = 0 /\ sinceFailure' = Never
    ELSE UNCHANGED <<breakerState, failureCount, sinceFailure>>

RecordSuccess ==
    IF breakerState \in {"HALF_OPEN", "OPEN"}
    THEN breakerState' = "CLOSED" /\ failureCount' = 0 /\ sinceFailure' = Never
    ELSE UNCHANGED <<breakerState, failureCount, sinceFailure>>

CallSucceeds(c) ==
    /\ c \in calling
    /\ calling' = calling \ {c}
    /\ RecordSuccess
    /\ rescued' = TRUE
    /\ UNCHANGED sinceTrip

\* Cancellation is not an expected exception: nothing is recorded.
CallCancelled(c) ==
    /\ c \in calling
    /\ calling' = calling \ {c}
    /\ UNCHANGED <<breakerState, failureCount, sinceFailure, sinceTrip, rescued>>

BreakerNext ==
    \/ BreakerTick
    \/ \E c \in Callers : Call(c) \/ CallFails(c) \/ CallSucceeds(c) \/ CallCancelled(c)

\* Time passes, and while the callers keep asking each call they make ends.
Ends(c) == CallFails(c) \/ CallSucceeds(c) \/ CallCancelled(c)

BreakerSpec ==
    /\ BreakerInit /\ [][BreakerNext]_breakerVars
    /\ WF_breakerVars(BreakerTick)
    /\ \A c \in Callers : WF_breakerVars(Call(c)) /\ WF_breakerVars(Ends(c))

-----------------------------------------------------------------------------
(* Properties.                                                             *)

\* Whatever calls are still running when the breaker opens, and whatever they
\* report, nobody is let in for RecoveryTimeout unless one of them succeeded.
Rests ==
    [][\A c \in Callers :
          (c \notin calling /\ c \in calling' /\ sinceTrip # Never /\ ~rescued)
              => sinceTrip = RecoveryTimeout]_breakerVars

\* When the service recovers, that is, from some point on no call ends without a
\* success after the breaker opened, the breaker closes for good: it is not left
\* open or half open by a timestamp that is renewed, or by a count.
Recovers ==
    <>[][\A c \in Callers : (c \in calling /\ c \notin calling') => rescued']_breakerVars
        => <>[](breakerState = "CLOSED")

\* What the breaker promises to the service behind it and to its callers: it is left
\* alone for RecoveryTimeout, and used again when it has recovered.
BreakerPromise ==
    /\ []BreakerTypeOK
    /\ Rests
    /\ Recovers
=============================================================================
