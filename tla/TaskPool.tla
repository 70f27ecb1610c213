------------------------------- MODULE TaskPool -------------------------------
(* What the worker pool of app/scaling promises to whoever submits a task: a   *)
(* task that was accepted is queued or running in exactly one place until it   *)
(* is done or given up, and it is attempted at most MaxRetries + 1 times.      *)
EXTENDS Integers

CONSTANTS Tasks, MaxRetries

VARIABLES status,    \* the life of each task
          attempts   \* how many times it was started

poolVars == <<status, attempts>>

Statuses == {"new", "queued", "running", "done", "refused", "dropped"}

PoolTypeOK ==
    /\ status \in [Tasks -> Statuses]
    /\ attempts \in [Tasks -> 0 .. MaxRetries + 1]

PoolInit ==
    /\ status = [t \in Tasks |-> "new"]
    /\ attempts = [t \in Tasks |-> 0]

\* Of the tasks submitted together some are accepted and the others refused.
Accept ==
    /\ status' \in [Tasks -> Statuses]
    /\ \A t \in Tasks :
        \/ status'[t] = status[t]
        \/ status[t] = "new" /\ status'[t] \in {"queued", "refused"}
    /\ UNCHANGED attempts

Begin(t) ==
    /\ status[t] = "queued"
    /\ attempts[t] <= MaxRetries
    /\ status' = [status EXCEPT ![t] = "running"]
    /\ attempts' = [attempts EXCEPT ![t] = @ + 1]

Complete(t) ==
    /\ status[t] = "running"
    /\ status' = [status EXCEPT ![t] = "done"]
    /\ UNCHANGED attempts

Retry(t) ==
    /\ status[t] = "running"
    /\ attempts[t] <= MaxRetries
    /\ status' = [status EXCEPT ![t] = "queued"]
    /\ UNCHANGED attempts

GiveUp(t) ==
    /\ status[t] = "running"
    /\ status' = [status EXCEPT ![t] = "dropped"]
    /\ UNCHANGED attempts

PoolNext ==
    \/ Accept
    \/ \E t \in Tasks : Begin(t) \/ Complete(t) \/ Retry(t) \/ GiveUp(t)

PoolSpec == PoolInit /\ [][PoolNext]_poolVars
===============================================================================
