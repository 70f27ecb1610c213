----------------------------- MODULE WorkStealing -----------------------------
(* The worker pool of one pod (app/scaling/work_stealing_queue.py): a deque    *)
(* per worker, submission to the least loaded worker or by hash, stealing from *)
(* the back of a longer deque, retries.  The pool runs on one event loop: the  *)
(* only awaits that suspend are the computation itself and the pause between   *)
(* two iterations of a worker, so a pop, a steal or a push is one step.        *)
EXTENDS Integers, Sequences, FiniteSets, SequencesExt

CONSTANTS NumWorkers,       \* worker_0 .. worker_(NumWorkers - 1)
          Tasks,
          Priority,         \* task.priority of each task: 1 LOW .. 4 CRITICAL
          HashOf,           \* hash(instrument_key) % num_workers of each task
          LocalQueueLimit,  \* local_queue_limit
          StealBatchSize,   \* steal_batch_size
          StealThreshold,   \* the literal 10 of get_stealable_workers
          MaxRetries,       \* task.max_retries
          MaxBatch          \* bound: tasks in one submit_batch

Workers == 0 .. NumWorkers - 1
None == "none"

ASSUME PoolAssumption ==
    /\ NumWorkers \in Nat \ {0}
    /\ Priority \in [Tasks -> 1 .. 4]
    /\ HashOf \in [Tasks -> Workers]
    /\ LocalQueueLimit \in Nat \ {0}
    /\ StealBatchSize \in Nat \ {0}
    /\ StealThreshold \in Nat
    /\ MaxRetries \in Nat
    /\ MaxBatch \in Nat
    /\ None \notin Tasks

\* 10 >= 2 * 5: a worker found stealable by an idle one always has tasks to
\* give, so the loop over the other victims is never entered a second time.
ASSUME StealAssumption == StealThreshold >= 2 * StealBatchSize

VARIABLES
    queue,     \* local_queue of each worker
    held,      \* the task each worker is computing, or None
    running,   \* is_running of each worker
    retries,   \* task.retry_count
    fate,      \* history: what became of each task
    attempts   \* history: how many times each task was taken for computing

vars == <<queue, held, running, retries, fate, attempts>>

TypeOK ==
    /\ queue \in [Workers -> Seq(Tasks)]
    /\ held \in [Workers -> Tasks \cup {None}]
    /\ running \in [Workers -> BOOLEAN]
    /\ retries \in [Tasks -> 0 .. MaxRetries]
    /\ fate \in [Tasks -> {"new", "live", "done", "refused", "dropped"}]
    /\ attempts \in [Tasks -> 0 .. MaxRetries + 1]

Init ==
    /\ queue = [w \in Workers |-> <<>>]
    /\ held = [w \in Workers |-> None]
    /\ running = [w \in Workers |-> TRUE]
    /\ retries = [t \in Tasks |-> 0]
    /\ fate = [t \in Tasks |-> "new"]
    /\ attempts = [t \in Tasks |-> 0]
-------------------------------------------------------------------------------
\* push: CRITICAL and HIGH tasks go to the front, the others to the back.
Pushed(q, t) == IF Priority[t] >= 3 THEN <<t>> \o q ELSE Append(q, t)

\* Mutant: the local limit off by one.
HasRoomAlways(q) == Len(q) <= LocalQueueLimit

HasRoom(q) == Len(q) < LocalQueueLimit

\* list.sort(reverse=True) under an inverted __lt__: LOW first, and stable.  What is
\* sorted is a list of tasks by their places <<worker, index>>, gathered in that order.
Before(at, p, q) ==
    \/ Priority[at[p]] < Priority[at[q]]
    \/ /\ Priority[at[p]] = Priority[at[q]]
       /\ p[1] < q[1] \/ (p[1] = q[1] /\ p[2] <= q[2])
Rank(at, p) == Cardinality({q \in DOMAIN at : Before(at, q, p)})
Sorted(at) ==
    [k \in 1 .. Cardinality(DOMAIN at) |-> at[CHOOSE p \in DOMAIN at : Rank(at, p) = k]]

\* The first worker of the shortest queue.
LeastLoaded ==
    CHOOSE w \in Workers : \A v \in Workers :
        \/ Len(queue[w]) < Len(queue[v])
        \/ Len(queue[w]) = Len(queue[v]) /\ w <= v
-------------------------------------------------------------------------------
SubmitTask(t) ==
    /\ fate[t] = "new"
    /\ \/ /\ HasRoom(queue[LeastLoaded])
          /\ queue' = [queue EXCEPT ![LeastLoaded] = Pushed(@, t)]
          /\ fate' = [fate EXCEPT ![t] = "live"]
       \/ /\ ~HasRoom(queue[LeastLoaded])
          /\ fate' = [fate EXCEPT ![t] = "refused"]
          /\ UNCHANGED queue
    /\ UNCHANGED <<held, running, retries, attempts>>

\* submit_batch groups by hash; push_batch sorts a group, appends what fits and
\* silently leaves the rest out.
Batches == UNION {{s \in [1 .. n -> Tasks] : IsInjective(s)} : n \in 1 .. MaxBatch}
Group(batch, w) ==
    Sorted([p \in {p \in {w} \X DOMAIN batch : HashOf[batch[p[2]]] = w} |-> batch[p[2]]])
Fitting(batch, w) ==
    LET room == LocalQueueLimit - Len(queue[w])
        group == Group(batch, w)
    IN  SubSeq(group, 1, IF room < Len(group) THEN room ELSE Len(group))

SubmitBatch(batch) ==
    /\ \A i \in DOMAIN batch : fate[batch[i]] = "new"
    /\ queue' = [w \in Workers |-> queue[w] \o Fitting(batch, w)]
    /\ LET pushed == UNION {ToSet(Fitting(batch, w)) : w \in Workers}
       IN  fate' = [t \in Tasks |-> IF t \in pushed THEN "live"
                                    ELSE IF t \in ToSet(batch) THEN "refused"
                                    ELSE fate[t]]
    /\ UNCHANGED <<held, running, retries, attempts>>
-------------------------------------------------------------------------------
(* ComputationWorker.start, one iteration.                                     *)

Idle(w) == running[w] /\ held[w] = None

Take(w, t) ==
    /\ held' = [held EXCEPT ![w] = t]
    /\ attempts' = [attempts EXCEPT ![t] = @ + 1]

PopLocal(w) ==
    /\ Idle(w)
    /\ queue[w] # <<>>
    /\ Take(w, Head(queue[w]))
    /\ queue' = [queue EXCEPT ![w] = Tail(@)]
    /\ UNCHANGED <<running, retries, fate>>

StealCount(n) ==
    IF n > 2 * StealBatchSize
    THEN IF StealBatchSize < n \div 2 THEN StealBatchSize ELSE n \div 2
    ELSE 0

\* Mutant: the thief leaves the tasks where it found them.
StealWithoutRemoving(w, v) ==
    /\ Idle(w)
    /\ queue[w] = <<>>
    /\ v # w
    /\ Len(queue[v]) > Len(queue[w]) + StealThreshold
    /\ LET len == Len(queue[v])
           n == StealCount(len)
           stolen == Reverse(SubSeq(queue[v], len - n + 1, len))
       IN  /\ Take(w, Head(stolen))
           /\ queue' = [queue EXCEPT ![w] = Tail(stolen)]
    /\ UNCHANGED <<running, retries, fate>>

\* The thief takes tasks from the back, computes the first and keeps the rest.
Steal(w, v) ==
    /\ Idle(w)
    /\ queue[w] = <<>>
    /\ v # w
    /\ Len(queue[v]) > Len(queue[w]) + StealThreshold
    /\ LET len == Len(queue[v])
           n == StealCount(len)
           stolen == Reverse(SubSeq(queue[v], len - n + 1, len))
       IN  /\ Take(w, Head(stolen))
           /\ queue' = [queue EXCEPT ![v] = SubSeq(@, 1, len - n),
                                     ![w] = @ \o Tail(stolen)]
    /\ UNCHANGED <<running, retries, fate>>

ProcessDone(w) ==
    /\ held[w] # None
    /\ fate' = [fate EXCEPT ![held[w]] = "done"]
    /\ held' = [held EXCEPT ![w] = None]
    /\ UNCHANGED <<queue, running, retries, attempts>>

\* Mutant: retry_count compared with <=.
ProcessFailedOneMore(w) ==
    /\ held[w] # None
    /\ held' = [held EXCEPT ![w] = None]
    /\ LET t == held[w] IN
        \/ /\ retries[t] <= MaxRetries
           /\ retries' = [retries EXCEPT ![t] = @ + 1]
           /\ \/ /\ HasRoom(queue[w])
                 /\ queue' = [queue EXCEPT ![w] = Pushed(@, t)]
                 /\ UNCHANGED fate
              \/ /\ ~HasRoom(queue[w])
                 /\ fate' = [fate EXCEPT ![t] = "dropped"]
                 /\ UNCHANGED queue
        \/ /\ retries[t] > MaxRetries
           /\ fate' = [fate EXCEPT ![t] = "dropped"]
           /\ UNCHANGED <<queue, retries>>
    /\ UNCHANGED <<running, attempts>>

\* Mutant: retry_count is not bumped (the history is cleared: the run stays finite).
ProcessFailedUncounted(w) ==
    /\ held[w] # None
    /\ held' = [held EXCEPT ![w] = None]
    /\ LET t == held[w] IN
        \/ /\ retries[t] < MaxRetries
           /\ HasRoom(queue[w])
           /\ queue' = [queue EXCEPT ![w] = Pushed(@, t)]
           /\ UNCHANGED fate
        \/ /\ retries[t] = MaxRetries \/ ~HasRoom(queue[w])
           /\ fate' = [fate EXCEPT ![t] = "dropped"]
           /\ UNCHANGED queue
    /\ attempts' = [t \in Tasks |-> 0]
    /\ UNCHANGED <<running, retries>>

\* The computation raised: re-queue on the worker's own deque while retries are
\* left.  The result of that push is not looked at.
ProcessFailed(w) ==
    /\ held[w] # None
    /\ held' = [held EXCEPT ![w] = None]
    /\ LET t == held[w] IN
        \/ /\ retries[t] < MaxRetries
           /\ retries' = [retries EXCEPT ![t] = @ + 1]
           /\ \/ /\ HasRoom(queue[w])
                 /\ queue' = [queue EXCEPT ![w] = Pushed(@, t)]
                 /\ UNCHANGED fate
              \/ /\ ~HasRoom(queue[w])
                 /\ fate' = [fate EXCEPT ![t] = "dropped"]
                 /\ UNCHANGED queue
        \/ /\ retries[t] = MaxRetries
           /\ fate' = [fate EXCEPT ![t] = "dropped"]
           /\ UNCHANGED <<queue, retries>>
    /\ UNCHANGED <<running, attempts>>

\* stop(): the loop ends after the task in hand.
Stop(w) ==
    /\ running[w]
    /\ running' = [running EXCEPT ![w] = FALSE]
    /\ UNCHANGED <<queue, held, retries, fate, attempts>>
-------------------------------------------------------------------------------
\* rebalance(): gather every deque, sort, deal the tasks out in turn.  Neither
\* the gathering nor the dealing looks at local_queue_limit.
QueuePlaces == UNION {{w} \X (1 .. Len(queue[w])) : w \in Workers}
AllQueued == [p \in QueuePlaces |-> queue[p[1]][p[2]]]
Dealt(s, w) ==
    LET count == (Len(s) - w + NumWorkers - 1) \div NumWorkers
    IN  [i \in 1 .. count |-> s[(i - 1) * NumWorkers + w + 1]]

Rebalance ==
    /\ queue' = [w \in Workers |-> Dealt(Sorted(AllQueued), w)]
    /\ UNCHANGED <<held, running, retries, fate, attempts>>

Submit == (\E t \in Tasks : SubmitTask(t)) \/ (\E batch \in Batches : SubmitBatch(batch))
Step(w) ==
    \/ PopLocal(w)
    \/ \E v \in Workers : Steal(w, v)
    \/ ProcessDone(w)
    \/ ProcessFailed(w)

Next == Submit \/ (\E w \in Workers : Step(w) \/ Stop(w)) \/ Rebalance

Spec == Init /\ [][Next]_vars

\* Every worker's task loop keeps being scheduled and computations end.
Fairness == \A w \in Workers : WF_vars(Step(w))
FairSpec == Spec /\ Fairness
-------------------------------------------------------------------------------
(* Properties.                                                                 *)

Places(t) ==
    {p \in QueuePlaces : queue[p[1]][p[2]] = t}
    \cup {<<w, 0>> : w \in {v \in Workers : held[v] = t}}

\* An accepted task is in exactly one place, in one deque or in one worker's
\* hands, and a settled one in none: neither stealing, retries nor a rebalance
\* in between duplicates or loses it.
InOnePlace ==
    \A t \in Tasks : Cardinality(Places(t)) = IF fate[t] = "live" THEN 1 ELSE 0

\* No deque outgrows local_queue_limit, though a steal and a rebalance extend
\* deques without looking at the limit.
WithinLimit == \A w \in Workers : Len(queue[w]) <= LocalQueueLimit

\* The pool is a TaskPool: a live task is running while a worker holds it and
\* queued otherwise.
Held(t) == \E w \in Workers : held[w] = t
Status ==
    [t \in Tasks |-> IF fate[t] # "live" THEN fate[t]
                     ELSE IF Held(t) THEN "running" ELSE "queued"]
Abstract == INSTANCE TaskPool WITH status <- Status
ImplementsTaskPool == Abstract!PoolSpec

\* While no worker is stopped every accepted task is done or given up.
EveryTaskSettles ==
    [](\A w \in Workers : running[w]) =>
        \A t \in Tasks : fate[t] = "live" ~> fate[t] # "live"

\* What the deques promise: a place for every accepted task, and room for it.
Placed ==
    /\ InOnePlace
    /\ WithinLimit
===============================================================================
