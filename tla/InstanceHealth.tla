----------------------------- MODULE InstanceHealth -----------------------------
(***************************************************************************)
(* The health of the instances of the service (app/core/                   *)
(* distributed_health_manager.py): every instance writes a heartbeat into  *)
(* a shared hash, reads the hash and publishes what it found as the        *)
(* aggregate of all of them, each in a call of its own.  Instances crash,  *)
(* leave and come back, and a cleanup may delete what it read a while ago. *)
(*                                                                         *)
(* Of an instance only its being listed is kept, not its load or status.   *)
(* The clocks of the instances agree.                                      *)
(***************************************************************************)
EXTENDS Integers, FiniteSets, FiniteSetsExt

CONSTANTS Instances,
          Interval,      \* heartbeat_interval, in ticks
          InstanceTTL,   \* instance_ttl
          AggregateTTL,  \* expiry of the aggregate
          BeatTime       \* an answer of Redis takes at most so many ticks

ASSUME HealthAssumption ==
    /\ {Interval, InstanceTTL, AggregateTTL} \subseteq Nat \ {0}
    /\ BeatTime \in Nat
    /\ Interval + 3 * BeatTime < InstanceTTL

VARIABLES
    up,             \* instances that run
    beatStage,      \* where the heartbeat of an instance is
    sinceStep,      \* ticks since its last step, up to Interval
    heartbeatAge,   \* age of the record of an instance, Missing when there is none
    found,          \* instances it found alive, to be published
    aggregate,      \* instances in the aggregate
    aggregateAge,   \* its age, AggregateTTL when it has expired
    toDelete,       \* records a cleanup has found dead and not yet deleted
    lastSeen        \* history: ticks since the last heartbeat, up to Longest

healthVars == <<up, beatStage, sinceStep, heartbeatAge, found, aggregate, aggregateAge,
                toDelete, lastSeen>>

Missing == -1
Longest == InstanceTTL + BeatTime + AggregateTTL
BeatStages == {"sleep", "write", "read", "publish"}

HealthTypeOK ==
    /\ up \subseteq Instances
    /\ beatStage \in [Instances -> BeatStages]
    /\ sinceStep \in [Instances -> 0 .. Interval + BeatTime]
    /\ \A i \in Instances : i \notin up => beatStage[i] = "sleep"
    /\ \A i \in Instances : beatStage[i] # "sleep" => sinceStep[i] <= BeatTime
    /\ heartbeatAge \in [Instances -> {Missing} \cup (0 .. InstanceTTL)]
    /\ \A i \in Instances :
          found[i] \subseteq Instances /\ (beatStage[i] # "publish" => found[i] = {})
    /\ aggregate \subseteq Instances
    /\ aggregateAge \in 0 .. AggregateTTL
    /\ aggregateAge = AggregateTTL => aggregate = {}
    /\ toDelete \subseteq Instances
    /\ lastSeen \in [Instances -> 0 .. Longest]

HealthInit ==
    /\ up = {}
    /\ beatStage = [i \in Instances |-> "sleep"]
    /\ sinceStep = [i \in Instances |-> Interval]
    /\ heartbeatAge = [i \in Instances |-> Missing]
    /\ found = [i \in Instances |-> {}]
    /\ aggregate = {} /\ aggregateAge = AggregateTTL
    /\ toDelete = {}
    /\ lastSeen = [i \in Instances |-> Longest]

\* A running instance sleeps no longer than the interval, and Redis answers in time.
HealthTick ==
    /\ \A i \in up : sinceStep[i] < (IF beatStage[i] = "sleep" THEN Interval ELSE BeatTime)
    /\ sinceStep' = [i \in Instances |-> IF i \in up THEN sinceStep[i] + 1 ELSE sinceStep[i]]
    /\ heartbeatAge' = [i \in Instances |->
          IF heartbeatAge[i] \in 0 .. InstanceTTL - 1 THEN heartbeatAge[i] + 1 ELSE heartbeatAge[i]]
    /\ aggregateAge' = Min({aggregateAge + 1, AggregateTTL})
    /\ aggregate' = IF aggregateAge' = AggregateTTL THEN {} ELSE aggregate
    /\ lastSeen' = [i \in Instances |-> Min({lastSeen[i] + 1, Longest})]
    /\ UNCHANGED <<up, beatStage, found, toDelete>>

-----------------------------------------------------------------------------
(* Instances start, shut down and end, by a crash or not.                  *)

\* register_instance; the expiry it sets is that of a key that does not exist.
RegisterInstance(i) ==
    /\ i \notin up
    /\ up' = up \cup {i}
    /\ sinceStep' = [sinceStep EXCEPT ![i] = Interval]
    /\ heartbeatAge' = [heartbeatAge EXCEPT ![i] = 0]
    /\ lastSeen' = [lastSeen EXCEPT ![i] = 0]
    /\ UNCHANGED <<beatStage, found, aggregate, aggregateAge, toDelete>>

\* Mutant: the heartbeat of an instance survives it.
BeatsOn(i) == UNCHANGED <<beatStage, found, sinceStep>>

EndBeat(i) ==
    /\ beatStage' = [beatStage EXCEPT ![i] = "sleep"]
    /\ found' = [found EXCEPT ![i] = {}]
    /\ sinceStep' = [sinceStep EXCEPT ![i] = Interval]

InstanceEnds(i) ==
    /\ i \in up
    /\ up' = up \ {i}
    /\ EndBeat(i)
    /\ UNCHANGED <<heartbeatAge, aggregate, aggregateAge, toDelete, lastSeen>>

\* The record is deleted, and the heartbeat goes on until the process ends.
ShutdownInstance(i) ==
    /\ i \in up
    /\ heartbeatAge' = [heartbeatAge EXCEPT ![i] = Missing]
    /\ UNCHANGED <<up, beatStage, sinceStep, found, aggregate, aggregateAge, toDelete, lastSeen>>

-----------------------------------------------------------------------------
(* The heartbeat.                                                          *)

BeatGoesTo(i, stage) ==
    /\ beatStage' = [beatStage EXCEPT ![i] = stage]
    /\ sinceStep' = [sinceStep EXCEPT ![i] = 0]

\* The health and the load of the instance are collected.
SendHeartbeat(i) ==
    /\ i \in up /\ beatStage[i] = "sleep" /\ sinceStep[i] = Interval
    /\ BeatGoesTo(i, "write")
    /\ UNCHANGED <<up, heartbeatAge, found, aggregate, aggregateAge, toDelete, lastSeen>>

\* Mutant: a record that exists is left as it is.
WriteIfMissing(i) ==
    heartbeatAge' = [heartbeatAge EXCEPT ![i] = IF @ = Missing THEN 0 ELSE @]

WriteRecord(i) == heartbeatAge' = [heartbeatAge EXCEPT ![i] = 0]

WriteHeartbeat(i) ==
    /\ beatStage[i] = "write"
    /\ WriteRecord(i)
    /\ lastSeen' = [lastSeen EXCEPT ![i] = 0]
    /\ BeatGoesTo(i, "read")
    /\ UNCHANGED <<up, found, aggregate, aggregateAge, toDelete>>

\* Mutant: a record counts however old it is.
FreshAnyway == {j \in Instances : heartbeatAge[j] # Missing}

FreshInstances == {j \in Instances : heartbeatAge[j] \in 0 .. InstanceTTL - 1}

\* When the hash is empty nothing is published.
TakeFresh(i) ==
    /\ found' = [found EXCEPT ![i] = FreshInstances]
    /\ BeatGoesTo(i, IF \A j \in Instances : heartbeatAge[j] = Missing THEN "sleep" ELSE "publish")

ReadInstances(i) ==
    /\ beatStage[i] = "read"
    /\ TakeFresh(i)
    /\ UNCHANGED <<up, heartbeatAge, aggregate, aggregateAge, toDelete, lastSeen>>

\* The last to write wins, also with an older list.
PublishAggregate(i) ==
    /\ beatStage[i] = "publish"
    /\ aggregate' = found[i]
    /\ aggregateAge' = 0
    /\ found' = [found EXCEPT ![i] = {}]
    /\ BeatGoesTo(i, "sleep")
    /\ UNCHANGED <<up, heartbeatAge, toDelete, lastSeen>>

\* Any call may fail; the heartbeat is over until the next one.
HeartbeatFails(i) ==
    /\ beatStage[i] # "sleep"
    /\ BeatGoesTo(i, "sleep")
    /\ found' = [found EXCEPT ![i] = {}]
    /\ UNCHANGED <<up, heartbeatAge, aggregate, aggregateAge, toDelete, lastSeen>>

BeatStep(i) ==
    SendHeartbeat(i) \/ WriteHeartbeat(i) \/ ReadInstances(i) \/ PublishAggregate(i)

-----------------------------------------------------------------------------
(* The cleanup deletes by name what it found dead when it read the hash.   *)

CleanupReads ==
    /\ toDelete = {}
    /\ toDelete' = {j \in Instances : heartbeatAge[j] = InstanceTTL}
    /\ toDelete' # {}
    /\ UNCHANGED <<up, beatStage, sinceStep, heartbeatAge, found, aggregate, aggregateAge, lastSeen>>

CleanupDeletes(j) ==
    /\ j \in toDelete
    /\ toDelete' = toDelete \ {j}
    /\ heartbeatAge' = [heartbeatAge EXCEPT ![j] = Missing]
    /\ UNCHANGED <<up, beatStage, sinceStep, found, aggregate, aggregateAge, lastSeen>>

HealthNext ==
    \/ HealthTick
    \/ \E i \in Instances :
          \/ RegisterInstance(i) \/ InstanceEnds(i) \/ ShutdownInstance(i)
          \/ BeatStep(i) \/ HeartbeatFails(i) \/ CleanupDeletes(i)
    \/ CleanupReads

\* Time passes, however often instances come and go.
HealthSpec ==
    /\ HealthInit /\ [][HealthNext]_healthVars
    /\ SF_healthVars(HealthTick)
    /\ \A i \in Instances : WF_healthVars(BeatStep(i)) /\ WF_healthVars(CleanupDeletes(i))

-----------------------------------------------------------------------------
(* Properties.                                                             *)

\* An instance that is gone is gone from the aggregate once its last heartbeat, the
\* slowest publication and the aggregate itself are too old, although every
\* instance publishes what it read and the last to write wins.
GoneIsUnlisted == \A i \in aggregate : lastSeen[i] < Longest

\* An instance that stays up, is not shut down and whose heartbeats do not fail is
\* listed again and again: neither a cleanup that deletes its record nor an older list
\* that is published over its own keeps it out for good.
AliveIsListed ==
    \A i \in Instances :
        (<>[](i \in up) /\ <>[][~HeartbeatFails(i) /\ ~ShutdownInstance(i)]_healthVars)
            => []<>(i \in aggregate)

\* What the aggregate promises its readers: it lists the living, again and again, and
\* the dead not for long.
HealthPromise ==
    /\ [](HealthTypeOK /\ GoneIsUnlisted)
    /\ AliveIsListed
==============================================================================
