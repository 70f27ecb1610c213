---------------------------- MODULE MCPodsAndGreeks ----------------------------
(***************************************************************************)
(* The assignment of the instruments to the pods and the circuit breaker of*)
(* the Greeks that a pod computes for them, checked in one run.  They share*)
(* no state, so a behaviour of the run is a behaviour of one of them: part *)
(* says of which.                                                          *)
(***************************************************************************)
EXTENDS MCPodAssignment, GreeksCircuitBreaker

VARIABLE part

PartsInit == part \in {"pods", "greeks"} /\ Init /\ CircuitInit

\* What the other keeps while one of them moves.
BesidePods == UNCHANGED <<part, circuitVars>>
BesideGreeks == UNCHANGED <<part, vars>>

PartsNext ==
    \/ part = "pods" /\ Next /\ BesidePods
    \/ part = "greeks" /\ CircuitNext /\ BesideGreeks

\* The fairness of the specification of each part.
PartsSpec ==
    /\ PartsInit /\ [][PartsNext]_<<part, vars, circuitVars>>
    /\ \A u \in Unregisterers : WF_vars(part = "pods" /\ Unregistering(u) /\ BesidePods)
    /\ WF_circuitVars(part = "greeks" /\ Tick /\ BesideGreeks)
    /\ \A c \in Callers :
          /\ WF_circuitVars(part = "greeks" /\ BesideGreeks /\ \E slowCall \in BOOLEAN : Finish(c, slowCall))
          /\ WF_circuitVars(part = "greeks" /\ BesideGreeks /\ HandleOpenCircuit(c))
          /\ WF_circuitVars(part = "greeks" /\ BesideGreeks /\ \E k \in Keys : ExecuteHalfOpen(c, k))
================================================================================
