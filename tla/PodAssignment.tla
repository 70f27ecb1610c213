----------------------------- MODULE PodAssignment -----------------------------
(* One pod's assignment manager (app/scaling/pod_assignment_manager.py): which  *)
(* pod computes which instrument.  The dictionaries change between two awaits,  *)
(* so an assignment is one step; unregistering a pod and executing a rebalance  *)
(* plan await after every instrument and interleave with everything else.       *)
EXTENDS Integers, FiniteSets

CONSTANTS Pods, Instruments,
          Capacity,      \* capacity of every pod
          Distance,      \* from an instrument's hash to each pod, along the ring
          Unregisterers, \* coroutines that call unregister_pod: monitor, shutdown
          RedisFails,    \* whether an awaited Redis call may raise
          SyncedRings    \* rings the periodic Redis sync may load

NoPod == "none"
NoMoves == [i \in {} |-> NoPod]     \* is_rebalancing is False

ASSUME PodAssumption ==
    /\ IsFiniteSet(Pods) /\ IsFiniteSet(Instruments)
    /\ NoPod \notin Pods
    /\ RedisFails \in BOOLEAN
    /\ Capacity \in Nat \ {0}
    /\ SyncedRings \subseteq SUBSET Pods
    /\ Distance \in [Instruments -> [Pods -> Nat]]

VARIABLES
    pods,        \* keys of self.pods
    status,      \* PodInfo.status
    assigned,    \* PodInfo.assigned_instruments; current_load is its size
    assignment,  \* self.instrument_assignments
    ring,        \* nodes of the hash manager's ring
    leaver,      \* the pod each coroutine is unregistering
    leaving,     \* the instruments of its copy it has still to reassign
    plan         \* execute_rebalance: the moves still to make

vars == <<pods, status, assigned, assignment, ring, leaver, leaving, plan>>

Plans == UNION {[S -> Pods] : S \in SUBSET Instruments}

TypeOK ==
    /\ pods \subseteq Pods
    /\ status \in [Pods -> {"ready", "overloaded", "draining"}]
    /\ assigned \in [Pods -> SUBSET Instruments]
    /\ assignment \in [Instruments -> Pods \cup {NoPod}]
    /\ ring \subseteq Pods
    /\ leaver \in [Unregisterers -> Pods \cup {NoPod}]
    /\ leaving \in [Unregisterers -> SUBSET Instruments]
    /\ plan \in Plans

Init ==
    /\ pods = {}
    /\ status = [p \in Pods |-> "ready"]
    /\ assigned = [p \in Pods |-> {}]
    /\ assignment = [i \in Instruments |-> NoPod]
    /\ ring = {}
    /\ leaver = [c \in Unregisterers |-> NoPod]
    /\ leaving = [c \in Unregisterers |-> {}]
    /\ plan = NoMoves
-------------------------------------------------------------------------------
Load(p) == Cardinality(assigned[p])
Ready == {p \in pods : status[p] = "ready"}

\* get_nodes: the three nodes of the ring met first from the hash of i.
Nearer(i, p) == {q \in ring : Distance[i][q] < Distance[i][p]}
FirstThree(i) == {p \in ring : Cardinality(Nearer(i, p)) < 3}

\* get_node: the first node met that is not the excluded one.
IsNextNode(i, excluded, p) ==
    /\ p \in ring \ {excluded}
    /\ Nearer(i, p) \subseteq {excluded}

\* Mutant: the old owner keeps the instrument in its set.
UpdateAssignmentKeepingOld(i, p) ==
    /\ assignment' = [assignment EXCEPT ![i] = p]
    /\ assigned' = [q \in Pods |-> IF q = p /\ q \in pods THEN assigned[q] \cup {i}
                                   ELSE assigned[q]]

\* update_assignment: only pods that are still registered are touched.
UpdateAssignment(i, p) ==
    /\ assignment' = [assignment EXCEPT ![i] = p]
    /\ assigned' = [q \in Pods |->
            IF q = p /\ q \in pods THEN assigned[q] \cup {i}
            ELSE IF q = assignment[i] /\ q # p /\ q \in pods THEN assigned[q] \ {i}
            ELSE assigned[q]]
-------------------------------------------------------------------------------
\* A pod registers when its processor starts, never while it is unregistered.
RegisterPod(p) ==
    /\ p \notin pods
    /\ \A c \in Unregisterers : leaver[c] # p
    /\ pods' = pods \cup {p}
    /\ status' = [status EXCEPT ![p] = "ready"]
    /\ assigned' = [assigned EXCEPT ![p] = {}]
    /\ ring' = ring \cup {p}
    /\ UNCHANGED <<assignment, leaver, leaving, plan>>

\* assign_instrument keeps an assignment to a ready pod.
Settled(i) == assignment[i] \in Ready

Eligible(candidates) ==
    {p \in candidates \cap Ready : 10 * Load(p) < 9 * Capacity}

\* Among the candidates the least loaded one below 90%, else any with room.
AssignTo(i, candidates, p) ==
    /\ ~Settled(i)
    /\ \/ /\ p \in Eligible(candidates)
          /\ \A q \in Eligible(candidates) : Load(p) <= Load(q)
       \/ /\ Eligible(candidates) = {}
          /\ p \in Ready
          /\ Load(p) < Capacity
    /\ UpdateAssignment(i, p)
    /\ UNCHANGED <<pods, status, ring, leaver, leaving, plan>>

AssignInstrument(i) ==
    \/ \E p \in pods : AssignTo(i, FirstThree(i), p)
    \/ \E preferred \in pods, p \in pods : AssignTo(i, {preferred}, p)
-------------------------------------------------------------------------------
(* unregister_pod, called on shutdown and by the heartbeat monitor.             *)

UnregisterBegin(c, p) ==
    /\ leaver[c] = NoPod
    /\ p \in pods
    /\ leaver' = [leaver EXCEPT ![c] = p]
    /\ status' = [status EXCEPT ![p] = "draining"]
    /\ leaving' = [leaving EXCEPT ![c] = assigned[p]]
    /\ UNCHANGED <<pods, assigned, assignment, ring, plan>>

\* Mutant: a ring without another node is not recognised.
ReassignUnchecked(c, i) ==
    /\ i \in leaving[c]
    /\ leaving' = [leaving EXCEPT ![c] = @ \ {i}]
    /\ \/ \E q \in Pods : IsNextNode(i, leaver[c], q) /\ UpdateAssignment(i, q)
       \/ ring \subseteq {leaver[c]} /\ UpdateAssignment(i, "null")
    /\ UNCHANGED <<pods, status, ring, leaver, plan>>

\* reassign_instrument: the next node of the ring, whatever its status or load.
Reassign(c, i) ==
    /\ i \in leaving[c]
    /\ leaving' = [leaving EXCEPT ![c] = @ \ {i}]
    /\ \/ \E q \in Pods : IsNextNode(i, leaver[c], q) /\ UpdateAssignment(i, q)
       \/ ring \subseteq {leaver[c]} /\ UNCHANGED <<assigned, assignment>>
    /\ UNCHANGED <<pods, status, ring, leaver, plan>>

\* Mutant: a pod is not removed while it is the only node of the ring.
UnregisterEndNotLast(c) ==
    /\ leaver[c] # NoPod
    /\ leaving[c] = {}
    /\ ring # {leaver[c]}
    /\ leaver' = [leaver EXCEPT ![c] = NoPod]
    /\ ring' = ring \ {leaver[c]}
    /\ pods' = pods \ {leaver[c]}
    /\ assigned' = [assigned EXCEPT ![leaver[c]] = {}]
    /\ status' = [status EXCEPT ![leaver[c]] = "ready"]
    /\ UNCHANGED <<assignment, leaving, plan>>

\* The record is deleted with whatever it still holds; a second coroutine only
\* finds it gone (the KeyError is logged).
UnregisterEnd(c) ==
    /\ leaver[c] # NoPod
    /\ leaving[c] = {}
    /\ leaver' = [leaver EXCEPT ![c] = NoPod]
    /\ ring' = ring \ {leaver[c]}
    /\ pods' = pods \ {leaver[c]}
    /\ assigned' = [assigned EXCEPT ![leaver[c]] = {}]
    /\ status' = [status EXCEPT ![leaver[c]] = "ready"]
    /\ UNCHANGED <<assignment, leaving, plan>>

\* A Redis call raised: the pod stays, draining, with what was not reassigned.
UnregisterFailed(c) ==
    /\ RedisFails
    /\ leaver[c] # NoPod
    /\ leaver' = [leaver EXCEPT ![c] = NoPod]
    /\ leaving' = [leaving EXCEPT ![c] = {}]
    /\ UNCHANGED <<pods, status, assigned, assignment, ring, plan>>
-------------------------------------------------------------------------------
\* Mutant: a calm pod is made ready whatever its status.
UpdateMetricsRevives(p) ==
    /\ p \in pods
    /\ \/ status[p] = "ready" /\ status' = [status EXCEPT ![p] = "overloaded"]
       \/ status[p] # "ready" /\ status' = [status EXCEPT ![p] = "ready"]
    /\ UNCHANGED <<pods, assigned, assignment, ring, leaver, leaving, plan>>

\* update_pod_metrics: cpu or memory above 0.9, or both below 0.7.
UpdateMetrics(p) ==
    /\ p \in pods
    /\ \/ status[p] = "ready" /\ status' = [status EXCEPT ![p] = "overloaded"]
       \/ status[p] = "overloaded" /\ status' = [status EXCEPT ![p] = "ready"]
    /\ UNCHANGED <<pods, assigned, assignment, ring, leaver, leaving, plan>>

\* should_rebalance: the spread of the ready pods' loads exceeds 30%.
ShouldRebalance ==
    /\ Cardinality(pods) >= 2
    /\ \E p, q \in Ready :
        /\ \A r \in Ready : Load(q) <= Load(r) /\ Load(r) <= Load(p)
        /\ 10 * (Load(p) - Load(q)) > 3 * Load(p)

\* create_rebalance_plan: the k-th most loaded ready pod gives to the k-th least
\* loaded one what brings either of them to the average.
Descending(order) ==
    /\ {order[k] : k \in DOMAIN order} = Ready
    /\ \A k, l \in DOMAIN order : k < l => Load(order[k]) >= Load(order[l])
Orders == {order \in [1 .. Cardinality(Ready) -> Ready] : Descending(order)}
TotalLoad == Cardinality(UNION {{<<p, i>> : i \in assigned[p]} : p \in Ready})
MoveCount(over, under) ==
    LET n == Cardinality(Ready)
        excess == n * Load(over) - TotalLoad
        room == TotalLoad - n * Load(under)
    IN  IF excess <= 0 \/ room <= 0 THEN 0
        ELSE (IF excess < room THEN excess ELSE room) \div n
IsPlan(order, moves) ==
    LET n == Cardinality(Ready)
        Giver(k) == order[k]
        Taker(k) == order[n + 1 - k]
    IN  /\ \A k \in 1 .. n \div 2 :
            Cardinality({i \in DOMAIN moves : i \in assigned[Giver(k)]})
                = MoveCount(Giver(k), Taker(k))
        /\ \A i \in DOMAIN moves : \E k \in 1 .. n \div 2 :
            i \in assigned[Giver(k)] /\ moves[i] = Taker(k)

Without(moves, i) == [j \in DOMAIN moves \ {i} |-> moves[j]]

\* The cooldown since the last rebalance may be over at any time.  No await
\* suspends before the first move has changed the dictionaries.
RebalanceBegin ==
    /\ plan = NoMoves
    /\ ShouldRebalance
    /\ \E order \in Orders, moves \in Plans :
        /\ IsPlan(order, moves)
        /\ \E i \in DOMAIN moves :
            /\ UpdateAssignment(i, moves[i])
            /\ plan' = Without(moves, i)
    /\ UNCHANGED <<pods, status, ring, leaver, leaving>>

\* A later move is carried out as planned, whoever has the instrument by now and
\* whatever has become of the receiving pod.
RebalanceMove(i) ==
    /\ i \in DOMAIN plan
    /\ UpdateAssignment(i, plan[i])
    /\ plan' = Without(plan, i)
    /\ UNCHANGED <<pods, status, ring, leaver, leaving>>

\* A Redis call raised: the rest of the plan is dropped.
RebalanceFailed ==
    /\ RedisFails
    /\ plan # NoMoves
    /\ plan' = NoMoves
    /\ UNCHANGED <<pods, status, assigned, assignment, ring, leaver, leaving>>

\* _sync_with_redis replaces the ring by the one some pod saved last.
SyncRing ==
    /\ ring' \in SyncedRings
    /\ UNCHANGED <<pods, status, assigned, assignment, leaver, leaving, plan>>

Next ==
    \/ \E p \in Pods : RegisterPod(p) \/ UpdateMetrics(p)
    \/ \E c \in Unregisterers : \/ \E p \in Pods : UnregisterBegin(c, p)
                               \/ \E i \in Instruments : Reassign(c, i)
                               \/ UnregisterEnd(c)
                               \/ UnregisterFailed(c)
    \/ \E i \in Instruments : AssignInstrument(i) \/ RebalanceMove(i)
    \/ RebalanceBegin
    \/ RebalanceFailed
    \/ SyncRing

Spec == Init /\ [][Next]_vars

\* A coroutine that has begun to unregister a pod keeps being scheduled.
Unregistering(c) == (\E i \in Instruments : Reassign(c, i)) \/ UnregisterEnd(c)
Fairness == \A c \in Unregisterers : WF_vars(Unregistering(c))
FairSpec == Spec /\ Fairness
-------------------------------------------------------------------------------
(* Properties.                                                                  *)

\* An instrument is in the set of one registered pod at most, the one the
\* assignment table names: two pods never both count it as theirs, whatever
\* assignments, moves of a stale plan and unregistrations interleave.
AssignedAgrees == \A p \in pods : \A i \in assigned[p] : assignment[i] = p

\* unregister_pod marks the pod draining before it copies the set: no metric
\* update, assignment or second unregistration makes it ready while it is reassigned.
LeavingIsDraining ==
    \A c \in Unregisterers :
        leaver[c] \in pods => status[leaver[c]] = "draining"

\* Once Redis answers, every unregistration that has begun removes the pod.
UnregisterEnds ==
    (<>[][\A c \in Unregisterers : ~UnregisterFailed(c)]_vars) =>
        \A c \in Unregisterers, p \in Pods : [](leaver[c] = p => <>(leaver[c] = NoPod))

\* "Remove a pod and reassign its instruments": if some pod is ready and in the
\* ring whenever another one is being unregistered, no instrument stays assigned
\* to a pod that is gone.
NoOrphans ==
    \A q \in Pods :
        []((\E c \in Unregisterers : leaver[c] # NoPod) => q \in Ready \cap ring) =>
            [](\A i \in Instruments : assignment[i] \in pods \cup {NoPod})
===============================================================================
