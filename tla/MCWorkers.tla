-------------------------------- MODULE MCWorkers --------------------------------
(***************************************************************************)
(* The two ways a computation finds its worker, checked in one run: the    *)
(* deques of the workers of one pod and the assignment of symbols to worker*)
(* processes.  They share no state, so a behaviour of the run is a         *)
(* behaviour of one of them: part says of which.                           *)
(*                                                                         *)
(* The pool has four tasks, one of them urgent, on two workers, with a     *)
(* steal threshold of 2 and a batch of 1 (10 and 5 in the code).  Two      *)
(* processes compete for a symbol, and one of them may leave.              *)
(***************************************************************************)
EXTENDS WorkStealing, WorkerAffinity, TLC

CONSTANTS t1, t2, t3, t4, w1, w2

MCTasks == {t1, t2, t3, t4}
MCPriority == t1 :> 4 @@ t2 :> 2 @@ t3 :> 2 @@ t4 :> 1
MCHashOf == [t \in MCTasks |-> IF t = t4 THEN 1 ELSE 0]

VARIABLE part

PartsInit == part \in {"pool", "affinity"} /\ Init /\ AffinityInit

BesidePool == UNCHANGED <<part, affinityVars>>
BesideAffinity == UNCHANGED <<part, vars>>

PartsNext ==
    \/ part = "pool" /\ Next /\ BesidePool
    \/ part = "affinity" /\ AffinityNext /\ BesideAffinity

\* The fairness of the specification of each part.
PartsSpec ==
    /\ PartsInit /\ [][PartsNext]_<<part, vars, affinityVars>>
    /\ \A w \in Workers : WF_vars(part = "pool" /\ Step(w) /\ BesidePool)
    /\ \A p \in Processes :
          /\ WF_affinityVars(part = "affinity" /\ Start(p) /\ BesideAffinity)
          /\ WF_affinityVars(part = "affinity" /\ Serve(p) /\ BesideAffinity)
          /\ WF_affinityVars(part = "affinity" /\ Heartbeat(p) /\ BesideAffinity)
          /\ WF_affinityVars(part = "affinity" /\ ~Running(p) /\ BeatExpires(p) /\ BesideAffinity)
          /\ WF_affinityVars(part = "affinity" /\ Stopping(p) /\ BesideAffinity)
          /\ \A s \in Symbols :
                SF_affinityVars(part = "affinity" /\ Ask(p, s) /\ BesideAffinity)
==================================================================================
