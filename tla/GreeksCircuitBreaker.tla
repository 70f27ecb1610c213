------------------------- MODULE GreeksCircuitBreaker -------------------------
(* The circuit breaker of the Greeks engines (app/core/circuit_breaker.py).    *)
(* Several coroutines call execute(); the wrapped computation is awaited, so   *)
(* every decision before the await is one atomic step and everything after it  *)
(* (recording the result, tripping, closing, caching) is another one, taken in *)
(* whatever state the breaker has reached in the meantime.                     *)
EXTENDS Integers, FiniteSets, Functions

CONSTANTS Callers,            \* coroutines that use the breaker
          Keys,               \* cache keys
          FailureThreshold,   \* config.failure_threshold
          HalfOpenMaxCalls,   \* config.half_open_max_calls
          MinimumSample,      \* the literal 5 of _should_open_circuit
          TimeoutDuration,    \* config.timeout_duration, in ticks
          RollingWindow,      \* config.rolling_window, in ticks
          CacheTtl,           \* _cache_ttl, in ticks
          MaxRequests,        \* bound: requests admitted while CLOSED
          MaxCount            \* bound: where a metric stops counting

ASSUME CallersAssumption == IsFiniteSet(Callers)
ASSUME ConfigAssumption ==
    /\ FailureThreshold \in Nat \ {0}
    /\ HalfOpenMaxCalls \in Nat \ {0}
    /\ MinimumSample \in Nat \ {0}
    /\ TimeoutDuration \in Nat \ {0}
    /\ RollingWindow \in Nat \ {0}
    /\ CacheTtl \in Nat
    /\ MaxRequests \in Nat
    /\ MaxCount \in Nat
    /\ FailureThreshold <= MaxCount

NoEntry == -1                 \* no cached value under the key
Ages == 0 .. RollingWindow - 1

VARIABLES
    state,       \* self.state
    since,       \* time since metrics.state_change_time, up to TimeoutDuration
    total,       \* metrics.total_requests
    successful,  \* metrics.successful_requests
    failed,      \* metrics.failed_requests
    slow,        \* metrics.slow_requests
    recentOk,    \* metrics.recent_calls that succeeded, counted by age
    recentBad,   \* metrics.recent_calls that failed, counted by age
    cacheAge,    \* age of each _fallback_cache entry, up to CacheTtl
    call,        \* what each caller is doing, and under which cache key
    sinceTrip    \* history: time since the last _transition_to_open

metrics == <<total, successful, failed, slow, recentOk, recentBad>>
circuitVars == <<state, since, metrics, cacheAge, call, sinceTrip>>

Modes == {"idle", "closed", "half_open"}
NoRecent == [a \in Ages |-> 0]
Running == {c \in Callers : call[c].mode # "idle"}

CircuitTypeOK ==
    /\ state \in {"closed", "open", "half_open"}
    /\ since \in 0 .. TimeoutDuration
    /\ total \in Nat
    /\ successful \in Nat
    /\ failed \in Nat
    /\ slow \in Nat
    /\ recentOk \in [Ages -> Nat]
    /\ recentBad \in [Ages -> Nat]
    /\ cacheAge \in [Keys -> {NoEntry} \cup 0 .. CacheTtl]
    /\ call \in [Callers -> [mode : Modes, key : Keys]]
    /\ sinceTrip \in 0 .. TimeoutDuration

CircuitInit ==
    /\ state = "closed"
    /\ since = 0
    /\ total = 0 /\ successful = 0 /\ failed = 0 /\ slow = 0
    /\ recentOk = NoRecent /\ recentBad = NoRecent
    /\ cacheAge = [k \in Keys |-> NoEntry]
    /\ \E k \in Keys : call = [c \in Callers |-> [mode |-> "idle", key |-> k]]
    /\ sinceTrip = TimeoutDuration
-------------------------------------------------------------------------------
(* Metrics.  A metric saturates at MaxCount: no comparison below can tell a    *)
(* saturated metric from a larger one once MaxCount exceeds every total.       *)

Bump(n, yes) == IF yes /\ n < MaxCount THEN n + 1 ELSE n

RecordCallResult(ok, slowCall) ==
    /\ total' = Bump(total, TRUE)
    /\ successful' = Bump(successful, ok)
    /\ failed' = Bump(failed, ~ok)
    /\ slow' = Bump(slow, slowCall)
    /\ recentOk' = [recentOk EXCEPT ![0] = Bump(@, ok)]
    /\ recentBad' = [recentBad EXCEPT ![0] = Bump(@, ~ok)]

Sum(f) == FoldFunction(+, 0, f)

\* Mutant: the failure threshold compared with > instead of >=.
ShouldOpenLate ==
    \/ failed' > FailureThreshold
    \/ LET bad == Sum(recentBad') all == bad + Sum(recentOk')
       IN  all >= MinimumSample /\ 2 * bad >= all
    \/ total' > 0 /\ 5 * slow' >= 4 * total'

\* _should_open_circuit, read on the metrics the call has just recorded.
ShouldOpen ==
    \/ failed' >= FailureThreshold
    \/ LET bad == Sum(recentBad') all == bad + Sum(recentOk')
       IN  all >= MinimumSample /\ 2 * bad >= all
    \/ total' > 0 /\ 5 * slow' >= 4 * total'

\* _should_close_circuit: 1 - failed/total >= 0.8, and 1.0 when total is 0.
ShouldClose ==
    /\ successful' >= 2
    /\ total' = 0 \/ 5 * failed' <= total'

\* Mutant: a trip that forgets to restart the timeout.
TransitionToOpenStaleTime == state' = "open" /\ UNCHANGED since /\ sinceTrip' = 0

TransitionToOpen == state' = "open" /\ since' = 0 /\ sinceTrip' = 0
Stay == UNCHANGED <<state, since, sinceTrip>>
-------------------------------------------------------------------------------
(* execute(): the synchronous part, up to the await or the rejection.          *)

Admit(c, k, mode) == call' = [call EXCEPT ![c] = [mode |-> mode, key |-> k]]

ExecuteClosed(c, k) ==
    /\ call[c].mode = "idle"
    /\ state = "closed"
    /\ total < MaxRequests
    /\ Admit(c, k, "closed")
    /\ UNCHANGED <<state, since, metrics, cacheAge, sinceTrip>>

\* Mutant: the probe limit compared with > instead of >=.
ExecuteHalfOpenOneMore(c, k) ==
    /\ call[c].mode = "idle"
    /\ state = "half_open"
    /\ total <= HalfOpenMaxCalls
    /\ Admit(c, k, "half_open")
    /\ UNCHANGED <<state, since, metrics, cacheAge, sinceTrip>>

ExecuteHalfOpen(c, k) ==
    /\ call[c].mode = "idle"
    /\ state = "half_open"
    /\ total < HalfOpenMaxCalls
    /\ Admit(c, k, "half_open")
    /\ UNCHANGED <<state, since, metrics, cacheAge, sinceTrip>>

\* Mutant: a rejected call restarts the timeout.
HandleOpenCircuitRestarting(c) ==
    /\ call[c].mode = "idle"
    /\ \/ state = "open"
       \/ state = "half_open" /\ total >= HalfOpenMaxCalls
    /\ \/ since >= TimeoutDuration /\ state' = "half_open" /\ total' = 0
       \/ since < TimeoutDuration /\ UNCHANGED <<state, total>>
    /\ since' = 0
    /\ UNCHANGED <<successful, failed, slow, recentOk, recentBad, cacheAge,
                   call, sinceTrip>>

\* _handle_open_circuit with the timeout elapsed: move to HALF_OPEN and ask the
\* caller to retry.  An unelapsed one only answers (fallback, cache or error).
HandleOpenCircuit(c) ==
    /\ call[c].mode = "idle"
    /\ \/ state = "open"
       \/ state = "half_open" /\ total >= HalfOpenMaxCalls
    /\ since >= TimeoutDuration
    /\ state' = "half_open"
    /\ since' = 0
    /\ total' = 0
    /\ UNCHANGED <<successful, failed, slow, recentOk, recentBad, cacheAge,
                   call, sinceTrip>>
-------------------------------------------------------------------------------
(* The wrapped call returns, raises or times out.                              *)

Return(c) == call' = [call EXCEPT ![c] = [mode |-> "idle", key |-> @.key]]
StoreFallback(c) == cacheAge' = [cacheAge EXCEPT ![call[c].key] = 0]

ClosedSuccess(c, slowCall) ==
    /\ call[c].mode = "closed"
    /\ RecordCallResult(TRUE, slowCall)
    /\ StoreFallback(c)
    /\ Return(c)
    /\ Stay

ClosedFailure(c, slowCall) ==
    /\ call[c].mode = "closed"
    /\ RecordCallResult(FALSE, slowCall)
    /\ \/ ShouldOpen /\ TransitionToOpen
       \/ ~ShouldOpen /\ Stay
    /\ Return(c)
    /\ UNCHANGED cacheAge

\* Mutant: closing forgives one threshold of failures instead of all of them.
HalfOpenCloseDecrement(c) ==
    /\ call[c].mode = "half_open"
    /\ successful' = Bump(successful, TRUE)
    /\ total' = Bump(total, TRUE)
    /\ recentOk' = [recentOk EXCEPT ![0] = Bump(@, TRUE)]
    /\ successful' >= 2
    /\ 5 * failed <= total'
    /\ failed' = failed - FailureThreshold
    /\ slow' = 0
    /\ state' = "closed"
    /\ since' = 0
    /\ StoreFallback(c)
    /\ Return(c)
    /\ UNCHANGED <<recentBad, sinceTrip>>

\* A close overwrites the counters that the record has just bumped.
HalfOpenClose(c) ==
    /\ call[c].mode = "half_open"
    /\ successful' = Bump(successful, TRUE)
    /\ total' = Bump(total, TRUE)
    /\ recentOk' = [recentOk EXCEPT ![0] = Bump(@, TRUE)]
    /\ successful' >= 2
    /\ 5 * failed <= total'
    /\ failed' = 0
    /\ slow' = 0
    /\ state' = "closed"
    /\ since' = 0
    /\ StoreFallback(c)
    /\ Return(c)
    /\ UNCHANGED <<recentBad, sinceTrip>>

HalfOpenSuccess(c, slowCall) ==
    /\ call[c].mode = "half_open"
    /\ RecordCallResult(TRUE, slowCall)
    /\ ~ShouldClose
    /\ StoreFallback(c)
    /\ Return(c)
    /\ Stay

HalfOpenFailure(c, slowCall) ==
    /\ call[c].mode = "half_open"
    /\ RecordCallResult(FALSE, slowCall)
    /\ TransitionToOpen
    /\ Return(c)
    /\ UNCHANGED cacheAge
-------------------------------------------------------------------------------
\* POST /circuit-breaker/{type}/reset: fresh metrics, calls in flight go on.
Reset ==
    /\ state' = "closed"
    /\ since' = 0
    /\ total' = 0 /\ successful' = 0 /\ failed' = 0 /\ slow' = 0
    /\ recentOk' = NoRecent /\ recentBad' = NoRecent
    /\ cacheAge' = [k \in Keys |-> NoEntry]
    /\ UNCHANGED <<call, sinceTrip>>

Older(age, limit) == IF age < limit THEN age + 1 ELSE age
Shift(f) == [a \in Ages |-> IF a = 0 THEN 0 ELSE f[a - 1]]

Tick ==
    /\ since' = Older(since, TimeoutDuration)
    /\ sinceTrip' = Older(sinceTrip, TimeoutDuration)
    /\ recentOk' = Shift(recentOk)
    /\ recentBad' = Shift(recentBad)
    /\ cacheAge' = [k \in Keys |-> IF cacheAge[k] = NoEntry THEN NoEntry
                                   ELSE Older(cacheAge[k], CacheTtl)]
    /\ UNCHANGED <<state, total, successful, failed, slow, call>>

Finish(c, slowCall) ==
    \/ ClosedSuccess(c, slowCall)
    \/ ClosedFailure(c, slowCall)
    \/ HalfOpenClose(c)
    \/ HalfOpenSuccess(c, slowCall)
    \/ HalfOpenFailure(c, slowCall)

CircuitNext ==
    \/ \E c \in Callers, k \in Keys : ExecuteClosed(c, k) \/ ExecuteHalfOpen(c, k)
    \/ \E c \in Callers : HandleOpenCircuit(c)
    \/ \E c \in Callers, slowCall \in BOOLEAN : Finish(c, slowCall)
    \/ Reset
    \/ Tick

CircuitSpec == CircuitInit /\ [][CircuitNext]_circuitVars

\* Time passes, wait_for bounds every awaited call, and callers keep calling.
CircuitFairness ==
    /\ WF_circuitVars(Tick)
    /\ \A c \in Callers :
        /\ WF_circuitVars(\E slowCall \in BOOLEAN : Finish(c, slowCall))
        /\ WF_circuitVars(HandleOpenCircuit(c))
        /\ WF_circuitVars(\E k \in Keys : ExecuteHalfOpen(c, k))

FairCircuitSpec == CircuitSpec /\ CircuitFairness
-------------------------------------------------------------------------------
(* Properties.                                                                 *)

\* A breaker that lets calls through has not reached its failure threshold: no
\* order of late results, trips, closes and resets leaves it CLOSED at or above
\* failure_threshold (_should_open_circuit, _transition_to_closed).
ClosedBelowThreshold == state = "closed" => failed < FailureThreshold

\* No probe is admitted before the breaker has been left alone for the whole
\* timeout_duration since its LAST trip, including trips by calls that were
\* admitted in an earlier state and failed late.
NoProbeBeforeTimeout == state = "half_open" => sinceTrip = TimeoutDuration

\* While HALF_OPEN, the results recorded plus the calls in flight never exceed
\* the probe limit by more than the callers that were already past the check.
ProbesBoundedByCallers ==
    state = "half_open" =>
        total + Cardinality(Running) <= HalfOpenMaxCalls - 1 + Cardinality(Callers)

\* An OPEN breaker does not stay OPEN for ever while callers keep calling it.
OpenIsLeft == state = "open" ~> state # "open"

\* "Testing if service recovered": if from some point on no call fails and the
\* breaker is not reset by hand, the breaker ends up CLOSED.
NoFailure == \A c \in Callers : failed' <= failed
RecoversByItself ==
    (<>[][NoFailure /\ ~Reset]_circuitVars) => []<>(state = "closed")
===============================================================================
