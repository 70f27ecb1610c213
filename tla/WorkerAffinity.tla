----------------------------- MODULE WorkerAffinity -----------------------------
(* Which worker process computes which symbol (WorkerAffinityManager with       *)
(* SignalRedisManager and the stream consumer it starts).  The workers share    *)
(* nothing but Redis: an assignment key with a TTL per symbol, a registry, a    *)
(* heartbeat key with a TTL per worker and a set of symbols per worker.  Every  *)
(* Redis call is awaited: a request reads the assignment, then the health of    *)
(* the workers, then writes, each in a step of its own.                         *)
EXTENDS Integers, FiniteSets

CONSTANTS Processes, Symbols,
          MayStop,       \* workers that may crash or shut down
          RedisFails     \* whether a Redis call may raise

Nobody == "none"
NoBeat == -1             \* the heartbeat key is absent
Phases == {"new", "idle", "check", "choose", "set", "claim", "computing",
           "leave", "release", "delete", "gone"}

ASSUME AffinityAssumption ==
    /\ IsFiniteSet(Processes) /\ IsFiniteSet(Symbols)
    /\ Nobody \notin Processes
    /\ MayStop \subseteq Processes
    /\ RedisFails \in BOOLEAN

VARIABLES
    assignment,    \* signal:workers:{symbol}:assignment
    registry,      \* signal:workers:registry
    beat,          \* active_computations in signal:workers:{id}:heartbeat
    symbols,       \* signal:workers:{id}:symbols
    claimed,       \* self.assigned_symbols, shared with the stream consumer
    consumed,      \* symbols on the shards some running consumer task reads
    phase,         \* where the worker's current request or its cleanup is
    symbol,        \* the symbol of that request
    named,         \* the worker the request has read or chosen
    todo           \* symbols cleanup_worker has still to release

redis == <<assignment, registry, beat, symbols>>
process == <<claimed, consumed>>
request == <<phase, symbol, named, todo>>
affinityVars == <<redis, process, request>>

AffinityTypeOK ==
    /\ assignment \in [Symbols -> Processes \cup {Nobody}]
    /\ registry \subseteq Processes
    /\ beat \in [Processes -> {NoBeat} \cup 0 .. Cardinality(Symbols)]
    /\ symbols \in [Processes -> SUBSET Symbols]
    /\ claimed \in [Processes -> SUBSET Symbols]
    /\ consumed \in [Processes -> SUBSET Symbols]
    /\ phase \in [Processes -> Phases]
    /\ symbol \in [Processes -> Symbols]
    /\ named \in [Processes -> Processes \cup {Nobody}]
    /\ todo \in [Processes -> SUBSET Symbols]

AffinityInit ==
    /\ assignment = [s \in Symbols |-> Nobody]
    /\ registry = {}
    /\ beat = [w \in Processes |-> NoBeat]
    /\ symbols = [w \in Processes |-> {}]
    /\ claimed = [w \in Processes |-> {}]
    /\ consumed = [w \in Processes |-> {}]
    /\ phase = [w \in Processes |-> "new"]
    /\ symbol \in [Processes -> Symbols]
    /\ named = [w \in Processes |-> Nobody]
    /\ todo = [w \in Processes |-> {}]
-------------------------------------------------------------------------------
Goto(w, p) == phase' = [phase EXCEPT ![w] = p]
Running(w) == phase[w] \notin {"new", "gone"}
Healthy == {w \in registry : beat[w] # NoBeat}

\* get_worker_for_symbol returns: compute here, or redirect the caller.
Answer(w, v) ==
    /\ Goto(w, IF v = w THEN "computing" ELSE "idle")
    /\ named' = [named EXCEPT ![w] = Nobody]
    /\ UNCHANGED <<symbol, todo>>

\* initialize: the consumer task finds no symbol assigned yet, hence no shard to
\* read, and ends at once.
Start(w) ==
    /\ phase[w] = "new"
    /\ Goto(w, "idle")
    /\ registry' = registry \cup {w}
    /\ beat' = [beat EXCEPT ![w] = 0]
    /\ consumed' = [consumed EXCEPT ![w] = claimed[w]]
    /\ UNCHANGED <<assignment, symbols, claimed, symbol, named, todo>>

\* should_handle_computation: read the assignment; a failed read counts as none.
Ask(w, s) ==
    /\ phase[w] = "idle"
    /\ symbol' = [symbol EXCEPT ![w] = s]
    /\ named' = [named EXCEPT ![w] = assignment[s]]
    /\ Goto(w, IF assignment[s] = Nobody THEN "choose" ELSE "check")
    /\ UNCHANGED <<redis, process, todo>>

AskFails(w, s) ==
    /\ RedisFails
    /\ phase[w] = "idle"
    /\ symbol' = [symbol EXCEPT ![w] = s]
    /\ Goto(w, "choose")
    /\ UNCHANGED <<redis, process, named, todo>>

\* Mutant: a registered worker counts as healthy, heartbeat or not.
CheckRegistered(w) ==
    /\ phase[w] = "check"
    /\ \/ /\ named[w] \in registry
          /\ Answer(w, named[w])
       \/ /\ named[w] \notin registry
          /\ Goto(w, "choose")
          /\ UNCHANGED <<symbol, named, todo>>
    /\ UNCHANGED <<redis, process>>

\* Mutant: a healthy worker's assignment is chosen anew all the same.
CheckIgnored(w) ==
    /\ phase[w] = "check"
    /\ Goto(w, "choose")
    /\ UNCHANGED <<redis, process, symbol, named, todo>>

CheckHealthy(w) ==
    /\ phase[w] = "check"
    /\ \/ /\ named[w] \in Healthy
          /\ Answer(w, named[w])
       \/ /\ named[w] \notin Healthy
          /\ Goto(w, "choose")
          /\ UNCHANGED <<symbol, named, todo>>
    /\ UNCHANGED <<redis, process>>

\* _assign_symbol_to_worker: the least loaded healthy worker.  Without a healthy
\* one the symbol is claimed and no assignment written.
Choose(w) ==
    /\ phase[w] = "choose"
    /\ \/ /\ Healthy = {}
          /\ Goto(w, "claim")
          /\ named' = [named EXCEPT ![w] = w]
       \/ \E best \in Healthy :
            /\ \A v \in Healthy : beat[best] <= beat[v]
            /\ named' = [named EXCEPT ![w] = best]
            /\ Goto(w, "set")
    /\ UNCHANGED <<redis, process, symbol, todo>>

\* get_healthy_workers raises: the worker takes the symbol for itself.
HealthFails(w) ==
    /\ RedisFails
    /\ phase[w] \in {"check", "choose"}
    /\ Answer(w, w)
    /\ UNCHANGED <<redis, process>>

\* The write is unconditional; its failure goes unnoticed.
Assigned(w) ==
    \/ named[w] = w /\ Goto(w, "claim") /\ UNCHANGED <<symbol, named, todo>>
    \/ named[w] # w /\ Answer(w, named[w])

SetAssignment(w) ==
    /\ phase[w] = "set"
    /\ assignment' = [assignment EXCEPT ![symbol[w]] = named[w]]
    /\ Assigned(w)
    /\ UNCHANGED <<registry, beat, symbols, process>>

SetFails(w) ==
    /\ RedisFails
    /\ phase[w] = "set"
    /\ Assigned(w)
    /\ UNCHANGED <<redis, process>>

\* _claim_symbol: the consumer recomputes its shards but starts no task for them.
Claim(w) ==
    /\ phase[w] = "claim"
    /\ claimed' = [claimed EXCEPT ![w] = @ \cup {symbol[w]}]
    /\ \/ symbols' = [symbols EXCEPT ![w] = @ \cup {symbol[w]}]
       \/ RedisFails /\ UNCHANGED symbols
    /\ Answer(w, w)
    /\ UNCHANGED <<assignment, registry, beat, consumed>>

\* The indicator has been computed.
Finish(w) ==
    /\ phase[w] = "computing"
    /\ Goto(w, "idle")
    /\ UNCHANGED <<redis, process, symbol, named, todo>>

\* Mutant: a heartbeat adds the symbols to the last count.
HeartbeatAdding(w) ==
    /\ Running(w)
    /\ beat' = [beat EXCEPT ![w] = @ + Cardinality(claimed[w])]
    /\ UNCHANGED <<assignment, registry, symbols, process, request>>

Heartbeat(w) ==
    /\ Running(w)
    /\ beat' = [beat EXCEPT ![w] = Cardinality(claimed[w])]
    /\ UNCHANGED <<assignment, registry, symbols, process, request>>

\* The key lives 30 seconds: three lost beats, or a worker that has stopped.
BeatExpires(w) ==
    /\ beat[w] # NoBeat
    /\ RedisFails \/ ~Running(w)
    /\ beat' = [beat EXCEPT ![w] = NoBeat]
    /\ UNCHANGED <<assignment, registry, symbols, process, request>>

\* The key lives 300 seconds and nothing refreshes it.
AssignmentExpires(s) ==
    /\ assignment[s] # Nobody
    /\ assignment' = [assignment EXCEPT ![s] = Nobody]
    /\ UNCHANGED <<registry, beat, symbols, process, request>>

\* A restarted process takes a new worker id.
Crash(w) ==
    /\ w \in MayStop
    /\ Running(w)
    /\ Goto(w, "gone")
    /\ claimed' = [claimed EXCEPT ![w] = {}]
    /\ consumed' = [consumed EXCEPT ![w] = {}]
    /\ named' = [named EXCEPT ![w] = Nobody]
    /\ todo' = [todo EXCEPT ![w] = {}]
    /\ UNCHANGED <<redis, symbol>>
-------------------------------------------------------------------------------
(* cleanup.                                                                     *)

CleanupBegin(w) ==
    /\ w \in MayStop
    /\ phase[w] = "idle"
    /\ registry' = registry \ {w}
    /\ Goto(w, "leave")
    /\ UNCHANGED <<assignment, beat, symbols, process, symbol, named, todo>>

CleanupReads(w) ==
    /\ phase[w] = "leave"
    /\ todo' = [todo EXCEPT ![w] = symbols[w]]
    /\ Goto(w, "release")
    /\ UNCHANGED <<redis, process, symbol, named>>

\* get, and delete only if the assignment names this worker.
CleanupCheck(w, s) ==
    /\ phase[w] = "release"
    /\ s \in todo[w]
    /\ todo' = [todo EXCEPT ![w] = @ \ {s}]
    /\ symbol' = [symbol EXCEPT ![w] = s]
    /\ Goto(w, IF assignment[s] = w THEN "delete" ELSE "release")
    /\ UNCHANGED <<redis, process, named>>

CleanupDelete(w) ==
    /\ phase[w] = "delete"
    /\ assignment' = [assignment EXCEPT ![symbol[w]] = Nobody]
    /\ Goto(w, "release")
    /\ UNCHANGED <<registry, beat, symbols, process, symbol, named, todo>>

CleanupEnd(w) ==
    /\ phase[w] = "release"
    /\ todo[w] = {}
    /\ symbols' = [symbols EXCEPT ![w] = {}]
    /\ beat' = [beat EXCEPT ![w] = NoBeat]
    /\ claimed' = [claimed EXCEPT ![w] = {}]
    /\ consumed' = [consumed EXCEPT ![w] = {}]
    /\ Goto(w, "gone")
    /\ UNCHANGED <<assignment, registry, symbol, named, todo>>
-------------------------------------------------------------------------------
Serve(w) ==
    CheckHealthy(w) \/ Choose(w) \/ SetAssignment(w) \/ Claim(w) \/ Finish(w)
Stopping(w) ==
    \/ CleanupReads(w) \/ CleanupDelete(w) \/ CleanupEnd(w)
    \/ \E s \in Symbols : CleanupCheck(w, s)
Failure(w) == HealthFails(w) \/ SetFails(w) \/ \E s \in Symbols : AskFails(w, s)

AffinityNext ==
    \/ \E w \in Processes :
        \/ Start(w) \/ Serve(w) \/ Heartbeat(w) \/ BeatExpires(w)
        \/ Failure(w)
        \/ \E s \in Symbols : Ask(w, s)
        \/ Crash(w) \/ CleanupBegin(w) \/ Stopping(w)
    \/ \E s \in Symbols : AssignmentExpires(s)

AffinitySpec == AffinityInit /\ [][AffinityNext]_affinityVars

\* Processes start, their coroutines and heartbeats keep being scheduled, requests
\* for every symbol keep arriving and Redis expires keys.
AffinityFairness ==
    \A w \in Processes :
        /\ WF_affinityVars(Start(w)) /\ WF_affinityVars(Serve(w)) /\ WF_affinityVars(Heartbeat(w))
        /\ WF_affinityVars(~Running(w) /\ BeatExpires(w)) /\ WF_affinityVars(Stopping(w))
        /\ \A s \in Symbols : SF_affinityVars(Ask(w, s))
AffinityFairSpec == AffinitySpec /\ AffinityFairness
-------------------------------------------------------------------------------
(* Properties.                                                                  *)

Computing(w, s) == phase[w] = "computing" /\ symbol[w] = s

\* "Ensures same worker handles same stock": no two workers compute a symbol at
\* the same time.
OneHandler ==
    \A v, w \in Processes, s \in Symbols : Computing(v, s) /\ Computing(w, s) => v = w

\* Once Redis stops failing, the keys of running workers and the assignments stop
\* expiring and workers stop leaving, ...
Disturbance ==
    \/ \E w \in Processes : \/ Failure(w) \/ (Running(w) /\ BeatExpires(w))
                         \/ Crash(w) \/ CleanupBegin(w)
    \/ \E s \in Symbols : AssignmentExpires(s)

\* ... the last racing write wins: at most one worker computes a symbol.
AnswersConverge == (<>[][~Disturbance]_affinityVars) => <>[]OneHandler

\* ... and no symbol stays assigned to a worker that is gone.
StrandedReassigned ==
    (<>[][~Disturbance]_affinityVars) =>
        \A w \in Processes, s \in Symbols :
            (phase[w] = "gone" /\ assignment[s] = w) ~> assignment[s] # w

\* "If consumer is running, it will pick up changes on next iteration": a worker
\* that stays up reads the shard of every symbol it has claimed.
ClaimedIsConsumed ==
    \A w \in Processes, s \in Symbols :
        s \in claimed[w] ~> (s \in consumed[w] \/ phase[w] = "gone")

\* What the assignment promises once disturbances stop: one worker for a symbol, and one
\* that is there.
AffinityPromise ==
    /\ []AffinityTypeOK
    /\ AnswersConverge
    /\ StrandedReassigned
===============================================================================
