---------------------- MODULE GreeksCircuitBreakerProofs ----------------------
(* Safety of the Greeks circuit breaker for every number of callers and every  *)
(* configuration.                                                              *)
EXTENDS GreeksCircuitBreaker, FiniteSetTheorems, TLAPS

USE ConfigAssumption, CallersAssumption

\* The two clocks agree while the breaker is OPEN: nothing but a trip leads
\* there, and a trip restarts both.
OpenSinceTrip == state = "open" => since = sinceTrip

IInv ==
    /\ CircuitTypeOK
    /\ ClosedBelowThreshold
    /\ OpenSinceTrip
    /\ NoProbeBeforeTimeout

\* The metrics a call has just recorded are well typed.
RecordedType ==
    /\ total' \in Nat /\ successful' \in Nat /\ failed' \in Nat /\ slow' \in Nat
    /\ recentOk' \in [Ages -> Nat] /\ recentBad' \in [Ages -> Nat]

\* A saturating counter stays a natural number and grows by at most one.
LEMMA BumpType == ASSUME NEW n \in Nat, NEW yes \in BOOLEAN
                  PROVE  Bump(n, yes) \in Nat /\ n <= Bump(n, yes) /\ Bump(n, yes) <= n + 1
BY DEF Bump

\* An age stays within its limit.
LEMMA OlderType == ASSUME NEW limit \in Nat, NEW age \in 0 .. limit
                   PROVE  Older(age, limit) \in 0 .. limit
BY DEF Older

\* Recording a result keeps the metrics well typed.
LEMMA RecordType ==
    ASSUME CircuitTypeOK, NEW ok \in BOOLEAN, NEW slowCall \in BOOLEAN,
           RecordCallResult(ok, slowCall)
    PROVE  RecordedType
<1>1. \A n \in Nat, yes \in BOOLEAN : Bump(n, yes) \in Nat
  BY BumpType
<1>2. 0 \in Ages
  BY DEF Ages
<1>3. QED
  BY <1>1, <1>2 DEF RecordCallResult, CircuitTypeOK, RecordedType

\* The invariant holds initially and every action keeps it.
THEOREM Inductive == CircuitSpec => []IInv
<1>1. CircuitInit => IInv
  BY DEF CircuitInit, IInv, CircuitTypeOK, ClosedBelowThreshold, OpenSinceTrip,
         NoProbeBeforeTimeout, NoRecent, Ages, Modes
<1>2. IInv /\ [CircuitNext]_circuitVars => IInv'
  <2> SUFFICES ASSUME IInv, [CircuitNext]_circuitVars PROVE IInv'
    OBVIOUS
  <2> USE DEF IInv, ClosedBelowThreshold, OpenSinceTrip, NoProbeBeforeTimeout
  <2>1. ASSUME NEW c \in Callers, NEW k \in Keys, ExecuteClosed(c, k) PROVE IInv'
    BY <2>1 DEF ExecuteClosed, Admit, CircuitTypeOK, Modes, metrics
  <2>2. ASSUME NEW c \in Callers, NEW k \in Keys, ExecuteHalfOpen(c, k) PROVE IInv'
    BY <2>2 DEF ExecuteHalfOpen, Admit, CircuitTypeOK, Modes, metrics
  <2>3. ASSUME NEW c \in Callers, HandleOpenCircuit(c) PROVE IInv'
    BY <2>3 DEF HandleOpenCircuit, CircuitTypeOK
  <2>4. ASSUME NEW c \in Callers, NEW slowCall \in BOOLEAN, ClosedSuccess(c, slowCall)
        PROVE  IInv'
    <3>1. failed' = failed
      BY <2>4 DEF ClosedSuccess, RecordCallResult, Bump
    <3>2. RecordedType
      BY <2>4, RecordType DEF ClosedSuccess
    <3>3. QED
      BY <2>4, <3>1, <3>2 DEF ClosedSuccess, StoreFallback, Return, Stay, CircuitTypeOK, Modes,
                              RecordedType
  <2>5. ASSUME NEW c \in Callers, NEW slowCall \in BOOLEAN, ClosedFailure(c, slowCall)
        PROVE  IInv'
    <3>1. RecordedType
      BY <2>5, RecordType DEF ClosedFailure
    <3>2. /\ call' \in [Callers -> [mode : Modes, key : Keys]]
          /\ cacheAge' = cacheAge
      BY <2>5 DEF ClosedFailure, Return, CircuitTypeOK, Modes
    <3>3. CASE ShouldOpen /\ TransitionToOpen
      BY <3>1, <3>2, <3>3 DEF TransitionToOpen, CircuitTypeOK, RecordedType
    <3>4. CASE ~ShouldOpen /\ Stay
      <4>1. ~(failed' >= FailureThreshold)
        BY <3>4 DEF ShouldOpen
      <4>2. QED
        BY <3>1, <3>2, <3>4, <4>1 DEF Stay, CircuitTypeOK, RecordedType
    <3>5. QED
      BY <2>5, <3>3, <3>4 DEF ClosedFailure
  <2>6. ASSUME NEW c \in Callers, HalfOpenClose(c) PROVE IInv'
    <3>1. \A n \in Nat, yes \in BOOLEAN : Bump(n, yes) \in Nat
      BY BumpType
    <3>2. 0 \in Ages
      BY DEF Ages
    <3>3. recentOk' \in [Ages -> Nat] /\ total' \in Nat /\ successful' \in Nat
      BY <2>6, <3>1, <3>2 DEF HalfOpenClose, CircuitTypeOK
    <3>4. call' \in [Callers -> [mode : Modes, key : Keys]]
      BY <2>6 DEF HalfOpenClose, Return, CircuitTypeOK, Modes
    <3>5. cacheAge' \in [Keys -> {NoEntry} \cup 0 .. CacheTtl]
      <4>1. cacheAge' = [cacheAge EXCEPT ![call[c].key] = 0]
        BY <2>6 DEF HalfOpenClose, StoreFallback
      <4>2. 0 \in 0 .. CacheTtl /\ cacheAge \in [Keys -> {NoEntry} \cup 0 .. CacheTtl]
        BY DEF CircuitTypeOK
      <4>3. QED
        BY <4>1, <4>2
    <3>6. /\ state' = "closed" /\ since' = 0 /\ failed' = 0 /\ slow' = 0
          /\ recentBad' = recentBad /\ sinceTrip' = sinceTrip
      BY <2>6 DEF HalfOpenClose
    <3>7. QED
      BY <3>3, <3>4, <3>5, <3>6 DEF CircuitTypeOK
  <2>7. ASSUME NEW c \in Callers, NEW slowCall \in BOOLEAN, HalfOpenSuccess(c, slowCall)
        PROVE  IInv'
    <3>1. failed' = failed
      BY <2>7 DEF HalfOpenSuccess, RecordCallResult, Bump
    <3>2. RecordedType
      BY <2>7, RecordType DEF HalfOpenSuccess
    <3>3. QED
      BY <2>7, <3>1, <3>2 DEF HalfOpenSuccess, StoreFallback, Return, Stay, CircuitTypeOK, Modes,
                              RecordedType
  <2>8. ASSUME NEW c \in Callers, NEW slowCall \in BOOLEAN, HalfOpenFailure(c, slowCall)
        PROVE  IInv'
    <3>1. RecordedType
      BY <2>8, RecordType DEF HalfOpenFailure
    <3>2. QED
      BY <2>8, <3>1 DEF HalfOpenFailure, TransitionToOpen, Return, CircuitTypeOK, Modes, RecordedType
  <2>9. CASE Reset
    BY <2>9 DEF Reset, CircuitTypeOK, NoRecent
  <2>10. CASE Tick
    <3>1. /\ since' \in 0 .. TimeoutDuration
          /\ sinceTrip' \in 0 .. TimeoutDuration
          /\ \A k \in Keys : cacheAge'[k] \in {NoEntry} \cup 0 .. CacheTtl
      BY <2>10, OlderType DEF Tick, CircuitTypeOK
    <3>2. recentOk' \in [Ages -> Nat] /\ recentBad' \in [Ages -> Nat]
      BY <2>10 DEF Tick, CircuitTypeOK, Shift, Ages
    <3>3. sinceTrip = TimeoutDuration => sinceTrip' = TimeoutDuration
      BY <2>10 DEF Tick, Older
    <3>4. QED
      BY <2>10, <3>1, <3>2, <3>3 DEF Tick, CircuitTypeOK
  <2>11. CASE UNCHANGED circuitVars
    BY <2>11 DEF circuitVars, metrics, CircuitTypeOK
  <2>12. QED
    BY <2>1, <2>2, <2>3, <2>4, <2>5, <2>6, <2>7, <2>8, <2>9, <2>10, <2>11
       DEF CircuitNext, Finish
<1>3. QED
  BY <1>1, <1>2, PTL DEF CircuitSpec

\* Type correctness of the breaker's state.
THEOREM TypeCorrect == CircuitSpec => []CircuitTypeOK
BY Inductive, PTL DEF IInv

\* A CLOSED breaker is below its failure threshold, whatever results arrive late.
THEOREM ClosedIsBelowThreshold == CircuitSpec => []ClosedBelowThreshold
BY Inductive, PTL DEF IInv

\* A HALF_OPEN breaker was left alone for the whole timeout since its last trip.
THEOREM ProbesWait == CircuitSpec => []NoProbeBeforeTimeout
BY Inductive, PTL DEF IInv
-------------------------------------------------------------------------------
\* The set of callers in flight is finite and at most all of them.
LEMMA RunningFinite ==
    IsFiniteSet(Running) /\ Cardinality(Running) \in Nat
        /\ Cardinality(Running) <= Cardinality(Callers)
        /\ Cardinality(Callers) \in Nat
BY FS_Subset, FS_CardinalityType DEF Running

\* A call that ends leaves one call less in flight.
LEMMA ReturnFreesOne ==
    ASSUME CircuitTypeOK, NEW c \in Callers, call[c].mode # "idle", Return(c)
    PROVE  Cardinality(Running') = Cardinality(Running) - 1
<1>1. call' = [call EXCEPT ![c] = [mode |-> "idle", key |-> call[c].key]]
  BY DEF Return, CircuitTypeOK
<1>2. Running' = Running \ {c}
  BY <1>1 DEF Running, CircuitTypeOK
<1>3. c \in Running
  BY DEF Running
<1>4. IsFiniteSet(Running)
  BY RunningFinite
<1>5. Cardinality(Running \ {c}) = Cardinality(Running) - 1
  BY <1>3, <1>4, FS_RemoveElement
<1>6. QED
  BY <1>2, <1>5

\* In HALF_OPEN the recorded results and the calls in flight exceed the probe
\* limit by at most the callers that had already passed the check.
THEOREM ProbesAreBounded == CircuitSpec => []ProbesBoundedByCallers
<1>1. CircuitInit => ProbesBoundedByCallers
  BY DEF CircuitInit, ProbesBoundedByCallers
<1>2. CircuitTypeOK /\ CircuitTypeOK' /\ ProbesBoundedByCallers /\ [CircuitNext]_circuitVars => ProbesBoundedByCallers'
  <2> SUFFICES ASSUME CircuitTypeOK, CircuitTypeOK', ProbesBoundedByCallers, [CircuitNext]_circuitVars
               PROVE  ProbesBoundedByCallers'
    OBVIOUS
  <2>1. Cardinality(Running) \in Nat /\ Cardinality(Running) <= Cardinality(Callers) /\ Cardinality(Callers) \in Nat
    BY RunningFinite
  <2>2. Cardinality(Running') \in Nat /\ Cardinality(Running') <= Cardinality(Callers)
    <3>1. Running' \subseteq Callers
      BY DEF Running
    <3>2. QED
      BY <3>1, FS_Subset, FS_CardinalityType
  <2>3. ProbesBoundedByCallers <=>
            (state = "half_open" => total + Cardinality(Running) <= HalfOpenMaxCalls - 1 + Cardinality(Callers))
    BY DEF ProbesBoundedByCallers
  <2>4. ProbesBoundedByCallers' <=>
            (state' = "half_open" => total' + Cardinality(Running') <= HalfOpenMaxCalls - 1 + Cardinality(Callers))
    BY DEF ProbesBoundedByCallers
  <2>5. total \in Nat /\ total' \in Nat
    BY DEF CircuitTypeOK
  <2>6. ASSUME call' = call PROVE Cardinality(Running') = Cardinality(Running)
    BY <2>6 DEF Running
  <2>7. ASSUME NEW c \in Callers, call[c].mode # "idle", Return(c),
               total' = Bump(total, TRUE), state' \in {state, "open", "closed"}
        PROVE  ProbesBoundedByCallers'
    <3>1. Cardinality(Running') = Cardinality(Running) - 1
      BY <2>7, ReturnFreesOne
    <3>2. total' <= total + 1
      BY <2>7, <2>5 DEF Bump
    <3>3. CASE state = "half_open"
      <4>1. total + Cardinality(Running) <= HalfOpenMaxCalls - 1 + Cardinality(Callers)
        BY <3>3, <2>3
      <4>2. total' + Cardinality(Running')
                <= HalfOpenMaxCalls - 1 + Cardinality(Callers)
        BY <4>1, <3>1, <3>2, <2>1, <2>2, <2>5
      <4>3. QED
        BY <4>2, <2>4
    <3>4. CASE state # "half_open"
      BY <3>4, <2>7, <2>4
    <3>5. QED
      BY <3>3, <3>4
  <2>8. ASSUME NEW c \in Callers, NEW k \in Keys, ExecuteClosed(c, k)
        PROVE  ProbesBoundedByCallers'
    BY <2>8, <2>4 DEF ExecuteClosed
  <2>9. ASSUME NEW c \in Callers, NEW k \in Keys, ExecuteHalfOpen(c, k)
        PROVE  ProbesBoundedByCallers'
    <3>1. total < HalfOpenMaxCalls /\ total' = total
      BY <2>9 DEF ExecuteHalfOpen, metrics
    <3>2. QED
      BY <3>1, <2>1, <2>2, <2>4, <2>5
  <2>10. ASSUME NEW c \in Callers, HandleOpenCircuit(c) PROVE ProbesBoundedByCallers'
    <3>1. total' = 0
      BY <2>10 DEF HandleOpenCircuit
    <3>2. QED
      BY <3>1, <2>1, <2>2, <2>4
  <2>11. ASSUME NEW c \in Callers, NEW slowCall \in BOOLEAN, Finish(c, slowCall)
         PROVE  ProbesBoundedByCallers'
    <3>1. call[c].mode # "idle" /\ Return(c)
      BY <2>11 DEF Finish, ClosedSuccess, ClosedFailure, HalfOpenClose, HalfOpenSuccess,
                   HalfOpenFailure
    <3>2. total' = Bump(total, TRUE)
      BY <2>11 DEF Finish, ClosedSuccess, ClosedFailure, HalfOpenClose, HalfOpenSuccess,
                   HalfOpenFailure, RecordCallResult
    <3>3. state' \in {state, "open", "closed"}
      BY <2>11 DEF Finish, ClosedSuccess, ClosedFailure, HalfOpenClose, HalfOpenSuccess,
                   HalfOpenFailure, Stay, TransitionToOpen
    <3>4. QED
      BY <2>7, <3>1, <3>2, <3>3
  <2>12. CASE Reset
    BY <2>12, <2>4 DEF Reset
  <2>13. CASE Tick
    BY <2>13, <2>3, <2>4, <2>6 DEF Tick
  <2>14. CASE UNCHANGED circuitVars
    BY <2>14, <2>3, <2>4, <2>6 DEF circuitVars, metrics
  <2>15. QED
    BY <2>8, <2>9, <2>10, <2>11, <2>12, <2>13, <2>14 DEF CircuitNext
<1>3. QED
  BY <1>1, <1>2, TypeCorrect, PTL DEF CircuitSpec
===============================================================================
