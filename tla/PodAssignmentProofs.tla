--------------------------- MODULE PodAssignmentProofs ---------------------------
(* Proofs about PodAssignment, for every set of pods, instruments, synced rings   *)
(* and unregistering coroutines.  TypeOK, AssignedAgrees and LeavingIsDraining    *)
(* are inductive together: only the first is needed to prove the other two.       *)
EXTENDS PodAssignment, TLAPS

\* What an assignment does to the two tables: it keeps their types and leaves the
\* instrument with the pod the assignment table names (update_assignment).
LEMMA UpdateKeepsAgreement ==
    ASSUME TypeOK, AssignedAgrees, UNCHANGED pods,
           NEW i \in Instruments, NEW p \in Pods, UpdateAssignment(i, p)
    PROVE  /\ assigned' \in [Pods -> SUBSET Instruments]
           /\ assignment' \in [Instruments -> Pods \cup {NoPod}]
           /\ AssignedAgrees'
<1>1. /\ assigned' \in [Pods -> SUBSET Instruments]
      /\ assignment' \in [Instruments -> Pods \cup {NoPod}]
    BY DEF TypeOK, UpdateAssignment
<1>2. SUFFICES ASSUME NEW q \in pods, NEW j \in assigned'[q]
               PROVE  assignment'[j] = q
    BY <1>1 DEF AssignedAgrees
<1>3. q \in Pods /\ j \in Instruments
    BY <1>1, <1>2 DEF TypeOK
<1>4. CASE j = i
    BY <1>2, <1>3, <1>4 DEF TypeOK, AssignedAgrees, UpdateAssignment
<1>5. CASE j # i
    <2>1. j \in assigned[q]
        BY <1>2, <1>3, <1>5 DEF TypeOK, UpdateAssignment
    <2>2. assignment'[j] = assignment[j]
        BY <1>3, <1>5 DEF TypeOK, UpdateAssignment
    <2>3. QED  BY <2>1, <2>2 DEF AssignedAgrees
<1>6. QED  BY <1>4, <1>5

\* The moves left after one of a plan are a plan (execute_rebalance).
LEMMA WithoutIsPlan ==
    ASSUME NEW moves \in Plans, NEW i PROVE Without(moves, i) \in Plans
<1>1. PICK S \in SUBSET Instruments : moves \in [S -> Pods]
    BY DEF Plans
<1>2. Without(moves, i) \in [S \ {i} -> Pods]
    BY <1>1 DEF Without
<1>3. S \ {i} \in SUBSET Instruments
    OBVIOUS
<1>4. QED  BY <1>2, <1>3 DEF Plans

\* A move of a plan names an instrument and a pod.
LEMMA PlanTargets ==
    ASSUME NEW moves \in Plans, NEW i \in DOMAIN moves
    PROVE  i \in Instruments /\ moves[i] \in Pods
BY DEF Plans

LEMMA NoMovesIsPlan == NoMoves \in Plans
<1>1. NoMoves \in [{} -> Pods]
    BY DEF NoMoves
<1>2. QED  BY <1>1 DEF Plans

Inv == TypeOK /\ AssignedAgrees /\ LeavingIsDraining

\* A step that only moves instruments and leaves pods, statuses and
\* unregistrations alone keeps the invariant, if it keeps the other types.
LEMMA MoveKeepsInv ==
    ASSUME Inv, NEW i \in Instruments, NEW p \in Pods, UpdateAssignment(i, p),
           UNCHANGED <<pods, status, ring, leaver>>,
           leaving' \in [Unregisterers -> SUBSET Instruments], plan' \in Plans
    PROVE  Inv'
<1>1. /\ assigned' \in [Pods -> SUBSET Instruments]
      /\ assignment' \in [Instruments -> Pods \cup {NoPod}]
      /\ AssignedAgrees'
    BY UpdateKeepsAgreement DEF Inv
<1>2. TypeOK'
    BY <1>1 DEF Inv, TypeOK
<1>3. LeavingIsDraining'
    BY DEF Inv, LeavingIsDraining
<1>4. QED  BY <1>1, <1>2, <1>3 DEF Inv

LEMMA InitInv == Init => Inv
BY NoMovesIsPlan, PodAssumption DEF Init, Inv, TypeOK, AssignedAgrees, LeavingIsDraining

LEMMA RegisterInv ==
    ASSUME Inv, NEW p \in Pods, RegisterPod(p) PROVE Inv'
<1>1. TypeOK'
    BY DEF Inv, TypeOK, RegisterPod
<1>2. AssignedAgrees'
    BY DEF Inv, TypeOK, AssignedAgrees, RegisterPod
<1>3. LeavingIsDraining'
    BY DEF Inv, TypeOK, LeavingIsDraining, RegisterPod
<1>4. QED  BY <1>1, <1>2, <1>3 DEF Inv

LEMMA MetricsInv ==
    ASSUME Inv, NEW p \in Pods, UpdateMetrics(p) PROVE Inv'
<1>1. TypeOK'
    BY DEF Inv, TypeOK, UpdateMetrics
<1>2. AssignedAgrees'
    BY DEF Inv, AssignedAgrees, UpdateMetrics
<1>3. LeavingIsDraining'
    BY DEF Inv, TypeOK, LeavingIsDraining, UpdateMetrics
<1>4. QED  BY <1>1, <1>2, <1>3 DEF Inv

LEMMA AssignInv ==
    ASSUME Inv, NEW i \in Instruments, AssignInstrument(i) PROVE Inv'
<1>1. PICK p \in pods : \E candidates : AssignTo(i, candidates, p)
    BY DEF AssignInstrument
<1>2. /\ p \in Pods
      /\ UpdateAssignment(i, p)
      /\ UNCHANGED <<pods, status, ring, leaver, leaving, plan>>
    BY <1>1 DEF AssignTo, Inv, TypeOK
<1>3. /\ leaving' \in [Unregisterers -> SUBSET Instruments]
      /\ plan' \in Plans
    BY <1>2 DEF Inv, TypeOK
<1>4. QED  BY <1>2, <1>3, MoveKeepsInv

LEMMA UnregisterBeginInv ==
    ASSUME Inv, NEW c \in Unregisterers, NEW p \in Pods, UnregisterBegin(c, p)
    PROVE  Inv'
<1>1. TypeOK'
    BY DEF Inv, TypeOK, UnregisterBegin
<1>2. AssignedAgrees'
    BY DEF Inv, AssignedAgrees, UnregisterBegin
<1>3. LeavingIsDraining'
    BY DEF Inv, TypeOK, LeavingIsDraining, UnregisterBegin
<1>4. QED  BY <1>1, <1>2, <1>3 DEF Inv

LEMMA ReassignInv ==
    ASSUME Inv, NEW c \in Unregisterers, NEW i \in Instruments, Reassign(c, i)
    PROVE  Inv'
<1>1. /\ leaving' \in [Unregisterers -> SUBSET Instruments]
      /\ plan' \in Plans
      /\ UNCHANGED <<pods, status, ring, leaver>>
    BY DEF Inv, TypeOK, Reassign
<1>2. CASE \E q \in Pods : UpdateAssignment(i, q)
    BY <1>1, <1>2, MoveKeepsInv
<1>3. CASE UNCHANGED <<assigned, assignment>>
    <2>1. TypeOK'
        BY <1>1, <1>3 DEF Inv, TypeOK
    <2>2. AssignedAgrees' /\ LeavingIsDraining'
        BY <1>1, <1>3 DEF Inv, AssignedAgrees, LeavingIsDraining
    <2>3. QED  BY <2>1, <2>2 DEF Inv
<1>4. QED  BY <1>2, <1>3 DEF Reassign

\* The pod that goes may be the one another coroutine unregisters too: it is no
\* longer registered then.
LEMMA UnregisterEndInv ==
    ASSUME Inv, NEW c \in Unregisterers, UnregisterEnd(c) PROVE Inv'
<1>1. leaver[c] \in Pods
    BY DEF Inv, TypeOK, UnregisterEnd
<1>2. TypeOK'
    BY <1>1 DEF Inv, TypeOK, UnregisterEnd
<1>3. AssignedAgrees'
    BY <1>1 DEF Inv, TypeOK, AssignedAgrees, UnregisterEnd
<1>4. ASSUME NEW d \in Unregisterers, leaver'[d] \in pods'
      PROVE  status'[leaver'[d]] = "draining"
    <2>1. d # c
        BY <1>4, PodAssumption DEF Inv, TypeOK, UnregisterEnd
    <2>2. leaver'[d] = leaver[d] /\ leaver[d] \in pods /\ leaver[d] # leaver[c]
        BY <1>4, <2>1 DEF Inv, TypeOK, UnregisterEnd
    <2>3. status'[leaver[d]] = status[leaver[d]]
        BY <2>2 DEF Inv, TypeOK, UnregisterEnd
    <2>4. QED  BY <2>2, <2>3 DEF Inv, LeavingIsDraining
<1>5. QED  BY <1>2, <1>3, <1>4 DEF Inv, LeavingIsDraining

LEMMA UnregisterFailedInv ==
    ASSUME Inv, NEW c \in Unregisterers, UnregisterFailed(c) PROVE Inv'
<1>1. TypeOK'
    BY DEF Inv, TypeOK, UnregisterFailed
<1>2. AssignedAgrees'
    BY DEF Inv, AssignedAgrees, UnregisterFailed
<1>3. LeavingIsDraining'
    BY PodAssumption DEF Inv, TypeOK, LeavingIsDraining, UnregisterFailed
<1>4. QED  BY <1>1, <1>2, <1>3 DEF Inv

LEMMA RebalanceMoveInv ==
    ASSUME Inv, NEW i \in Instruments, RebalanceMove(i) PROVE Inv'
<1>1. plan \in Plans /\ i \in DOMAIN plan
    BY DEF Inv, TypeOK, RebalanceMove
<1>2. plan[i] \in Pods /\ Without(plan, i) \in Plans
    BY <1>1, PlanTargets, WithoutIsPlan
<1>3. /\ UpdateAssignment(i, plan[i])
      /\ UNCHANGED <<pods, status, ring, leaver>>
      /\ leaving' \in [Unregisterers -> SUBSET Instruments]
      /\ plan' \in Plans
    BY <1>2 DEF RebalanceMove, Inv, TypeOK
<1>4. QED  BY <1>2, <1>3, MoveKeepsInv

LEMMA RebalanceBeginInv ==
    ASSUME Inv, RebalanceBegin PROVE Inv'
<1>1. PICK moves \in Plans : \E i \in DOMAIN moves :
          UpdateAssignment(i, moves[i]) /\ plan' = Without(moves, i)
    BY DEF RebalanceBegin
<1>2. PICK i \in DOMAIN moves :
          UpdateAssignment(i, moves[i]) /\ plan' = Without(moves, i)
    BY <1>1
<1>3. /\ i \in Instruments /\ moves[i] \in Pods
      /\ Without(moves, i) \in Plans
    BY <1>2, PlanTargets, WithoutIsPlan
<1>4. /\ UNCHANGED <<pods, status, ring, leaver>>
      /\ leaving' \in [Unregisterers -> SUBSET Instruments]
      /\ plan' \in Plans
    BY <1>2, <1>3 DEF RebalanceBegin, Inv, TypeOK
<1>5. QED  BY <1>2, <1>3, <1>4, MoveKeepsInv

LEMMA RebalanceFailedInv ==
    ASSUME Inv, RebalanceFailed PROVE Inv'
<1>1. TypeOK'
    BY NoMovesIsPlan DEF Inv, TypeOK, RebalanceFailed
<1>2. AssignedAgrees' /\ LeavingIsDraining'
    BY DEF Inv, AssignedAgrees, LeavingIsDraining, RebalanceFailed
<1>3. QED  BY <1>1, <1>2 DEF Inv

LEMMA SyncRingInv ==
    ASSUME Inv, SyncRing PROVE Inv'
<1>1. TypeOK'
    BY PodAssumption DEF Inv, TypeOK, SyncRing
<1>2. AssignedAgrees' /\ LeavingIsDraining'
    BY DEF Inv, AssignedAgrees, LeavingIsDraining, SyncRing
<1>3. QED  BY <1>1, <1>2 DEF Inv

LEMMA NextInv == Inv /\ [Next]_vars => Inv'
<1>1. SUFFICES ASSUME Inv, [Next]_vars PROVE Inv'
    OBVIOUS
<1>2. CASE UNCHANGED vars
    BY <1>1, <1>2 DEF vars, Inv, TypeOK, AssignedAgrees, LeavingIsDraining
<1>3. CASE \E p \in Pods : RegisterPod(p) \/ UpdateMetrics(p)
    BY <1>1, <1>3, RegisterInv, MetricsInv
<1>4. CASE \E c \in Unregisterers : \/ \E p \in Pods : UnregisterBegin(c, p)
                                    \/ \E i \in Instruments : Reassign(c, i)
                                    \/ UnregisterEnd(c)
                                    \/ UnregisterFailed(c)
    BY <1>1, <1>4, UnregisterBeginInv, ReassignInv, UnregisterEndInv, UnregisterFailedInv
<1>5. CASE \E i \in Instruments : AssignInstrument(i) \/ RebalanceMove(i)
    BY <1>1, <1>5, AssignInv, RebalanceMoveInv
<1>6. CASE RebalanceBegin \/ RebalanceFailed \/ SyncRing
    BY <1>1, <1>6, RebalanceBeginInv, RebalanceFailedInv, SyncRingInv
<1>7. QED  BY <1>1, <1>2, <1>3, <1>4, <1>5, <1>6 DEF Next

THEOREM Inductive == Spec => []Inv
<1>1. QED  BY InitInv, NextInv, PTL DEF Spec

\* Every reachable state of the assignment manager is well typed.
THEOREM TypeCorrect == Spec => []TypeOK
<1>1. Inv => TypeOK
    BY DEF Inv
<1>2. QED  BY Inductive, <1>1, PTL

\* Two registered pods never both count an instrument as theirs, whatever the
\* interleaving of assignments, stale plans and unregistrations.
THEOREM TablesAgree == Spec => []AssignedAgrees
<1>1. Inv => AssignedAgrees
    BY DEF Inv
<1>2. QED  BY Inductive, <1>1, PTL

\* A pod that is being unregistered stays draining until it is gone.
THEOREM LeaversDrain == Spec => []LeavingIsDraining
<1>1. Inv => LeavingIsDraining
    BY DEF Inv
<1>2. QED  BY Inductive, <1>1, PTL
===============================================================================
