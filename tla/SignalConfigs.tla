------------------------------ MODULE SignalConfigs ------------------------------
(***************************************************************************)
(* Signal configurations (app/services/config_handler.py and the update    *)
(* loop of app/services/signal_processor.py): creations, updates and       *)
(* deletions arrive in a Redis stream, which the processors of all pods    *)
(* read through one consumer group, so each update goes to one of them.    *)
(* A processor carries its updates out one at a time, against the stored   *)
(* copy, which all share and which expires, a copy in its memory that says *)
(* which instruments are active, and a task of its own per scheduled       *)
(* configuration.  It may crash between any two calls of Redis.  A start   *)
(* reads what is stored and schedules none of it: apply_config wants an    *)
(* object and is given the decoded dictionary, and what it raises is       *)
(* logged.  Every configuration here is a scheduled one.                   *)
(***************************************************************************)
EXTENDS Integers, FiniteSets, Sequences

CONSTANTS ConfigKeys,
          Handlers,       \* processors, one ConfigHandler each
          MaxMessages     \* bound: updates sent

ASSUME ConfigsAssumption == MaxMessages \in Nat

VARIABLES
    updates,          \* the stream from the first update not yet delivered
    sent,             \* updates sent so far
    stored,           \* configurations in Redis
    currentConfigs,   \* current_configs of each processor
    activeTasks,      \* its active_tasks: configurations a task computes
    running,          \* its tasks that have not ended
    handler,          \* what its update loop is doing
    wanted,           \* history: what it was last asked in full was to have it
    failedOn,         \* history: keys a call of its failed for
    deleted           \* history: deleted, and no update of it delivered since the
                      \* deletion ended or under way elsewhere as it ended

configVars == <<updates, sent, stored, currentConfigs, activeTasks, running,
                handler, wanted, failedOn, deleted>>

Kinds == {"create", "update", "delete"}
Idle == [at |-> "idle", kind |-> "none", key |-> "none"]
Down == [Idle EXCEPT !.at = "down"]
Up(h) == handler[h].at # "down"
Busy(h) == handler[h].at \notin {"down", "idle"}

ConfigsTypeOK ==
    /\ updates \in Seq(Kinds \X ConfigKeys)
    /\ sent \in 0 .. MaxMessages /\ Len(updates) <= sent
    /\ stored \subseteq ConfigKeys /\ deleted \subseteq ConfigKeys
    /\ {currentConfigs, activeTasks, running, wanted, failedOn}
          \subseteq [Handlers -> SUBSET ConfigKeys]
    /\ \A h \in Handlers :
          /\ handler[h].at \in {"down", "loading", "idle", "cancel", "store", "apply", "remove"}
          /\ handler[h].at \notin {"down", "loading", "idle"} => handler[h].key \in ConfigKeys
          /\ handler[h].kind = "create" => handler[h].at \in {"store", "apply"}
          /\ handler[h].at = "remove" => handler[h].kind = "delete"

ConfigsInit ==
    /\ updates = <<>> /\ sent = 0 /\ stored = {} /\ deleted = {}
    /\ currentConfigs = [h \in Handlers |-> {}]
    /\ activeTasks = currentConfigs /\ running = currentConfigs
    /\ wanted = currentConfigs /\ failedOn = currentConfigs
    /\ handler = [h \in Handlers |-> Idle]

logVars == <<updates, sent>>
memory == <<currentConfigs, activeTasks, running>>
history == <<wanted, failedOn, deleted>>

With(table, h, k) == [table EXCEPT ![h] = @ \cup {k}]
Without(table, h, k) == [table EXCEPT ![h] = @ \ {k}]
GoesTo(h, stage) == handler' = [handler EXCEPT ![h].at = stage]
Ends(h) == handler' = [handler EXCEPT ![h] = Idle]

-----------------------------------------------------------------------------
(* The environment.                                                        *)

SendUpdate(kind, k) ==
    /\ sent < MaxMessages
    /\ sent' = sent + 1 /\ updates' = Append(updates, <<kind, k>>)
    /\ UNCHANGED <<stored, memory, handler, history>>

StoredExpires(k) ==
    /\ k \in stored
    /\ stored' = stored \ {k}
    /\ UNCHANGED <<logVars, memory, handler, history>>

\* The update it was carrying out stays pending with the group, and nobody reads it again.
ProcessorCrashes(h) ==
    /\ Up(h)
    /\ handler' = [handler EXCEPT ![h] = Down]
    /\ currentConfigs' = [currentConfigs EXCEPT ![h] = {}]
    /\ activeTasks' = [activeTasks EXCEPT ![h] = {}]
    /\ running' = [running EXCEPT ![h] = {}]
    /\ wanted' = [wanted EXCEPT ![h] = {}] /\ failedOn' = [failedOn EXCEPT ![h] = {}]
    /\ UNCHANGED <<logVars, stored, deleted>>

-----------------------------------------------------------------------------
(* Starting: every stored configuration is read, and refused.              *)

ProcessorStarts(h) ==
    /\ ~Up(h)
    /\ GoesTo(h, "loading")
    /\ UNCHANGED <<logVars, stored, memory, history>>

LoadingEnds(h) ==
    /\ handler[h].at = "loading"
    /\ GoesTo(h, "idle")
    /\ UNCHANGED <<logVars, stored, memory, history>>

-----------------------------------------------------------------------------
(* The update loop of a processor.                                         *)

\* Mutant: a creation looks for an earlier task first, and what follows is an update.
FirstStageFlat(kind) == "cancel"

FirstStage(kind) == IF kind = "create" THEN "store" ELSE "cancel"

\* The group gives its next update to the processor that asks.
NextUpdate(h) ==
    /\ handler[h].at = "idle" /\ updates # <<>>
    /\ updates' = Tail(updates)
    /\ UNCHANGED <<sent, stored, memory, wanted, failedOn>>

ReadUpdate(h) ==
    /\ NextUpdate(h)
    /\ LET kind == Head(updates)[1] k == Head(updates)[2]
       IN  /\ handler' = [handler EXCEPT ![h] = [at |-> FirstStage(kind), kind |-> kind, key |-> k]]
           /\ deleted' = deleted \ {k}

\* An update that cannot be decoded or fails validation is logged and acknowledged.
RefuseUpdate(h) == NextUpdate(h) /\ UNCHANGED <<handler, deleted>>

\* Mutant: the task is waited for and not cancelled.
AwaitTask(h, k) ==
    /\ k \notin running[h]
    /\ activeTasks' = Without(activeTasks, h, k) /\ UNCHANGED running

\* Mutant: the entry is deleted and the task runs on.
ForgetTask(h, k) == activeTasks' = Without(activeTasks, h, k) /\ UNCHANGED running

\* cancel_config_tasks: the task is cancelled, waited for and forgotten.
CancelTask(h, k) ==
    activeTasks' = Without(activeTasks, h, k) /\ running' = Without(running, h, k)

CancelOld(h) ==
    /\ handler[h].at = "cancel"
    /\ CancelTask(h, handler[h].key)
    /\ GoesTo(h, IF handler[h].kind = "delete" THEN "remove" ELSE "store")
    /\ UNCHANGED <<logVars, stored, currentConfigs, history>>

StoreConfig(h) ==
    /\ handler[h].at = "store"
    /\ stored' = stored \cup {handler[h].key}
    /\ currentConfigs' = With(currentConfigs, h, handler[h].key)
    /\ GoesTo(h, "apply")
    /\ UNCHANGED <<logVars, activeTasks, running, history>>

\* Mutant: a configuration that has a task already is left alone, or has none made.
ApplyNew(h) ==
    /\ handler[h].at = "apply"
    /\ IF handler[h].kind = "create"
         THEN /\ activeTasks' = With(activeTasks, h, handler[h].key)
              /\ running' = With(running, h, handler[h].key)
         ELSE UNCHANGED <<activeTasks, running>>
    /\ wanted' = With(wanted, h, handler[h].key)
    /\ failedOn' = Without(failedOn, h, handler[h].key)
    /\ Ends(h)
    /\ UNCHANGED <<logVars, stored, currentConfigs, deleted>>

\* setup_scheduled_tasks: an earlier task is cancelled, a new one takes its place.
ApplyConfig(h) ==
    /\ handler[h].at = "apply"
    /\ activeTasks' = With(activeTasks, h, handler[h].key)
    /\ running' = With(running, h, handler[h].key)
    /\ wanted' = With(wanted, h, handler[h].key)
    /\ failedOn' = Without(failedOn, h, handler[h].key)
    /\ Ends(h)
    /\ UNCHANGED <<logVars, stored, currentConfigs, deleted>>

Alone(h) == \A g \in Handlers \ {h} : handler[g].key # handler[h].key

RemoveStored(h) ==
    /\ handler[h].at = "remove"
    /\ stored' = stored \ {handler[h].key}
    /\ currentConfigs' = Without(currentConfigs, h, handler[h].key)
    /\ wanted' = Without(wanted, h, handler[h].key)
    /\ failedOn' = Without(failedOn, h, handler[h].key)
    /\ deleted' = IF Alone(h) THEN deleted \cup {handler[h].key} ELSE deleted
    /\ Ends(h)
    /\ UNCHANGED <<logVars, activeTasks, running>>

\* Redis fails: the update ends where it is, and is acknowledged all the same.
UpdateFails(h) ==
    /\ handler[h].at \in {"store", "remove"}
    /\ failedOn' = With(failedOn, h, handler[h].key)
    /\ Ends(h)
    /\ UNCHANGED <<logVars, stored, memory, wanted, deleted>>

HandlerStep(h) ==
    \/ LoadingEnds(h) \/ ReadUpdate(h) \/ RefuseUpdate(h)
    \/ CancelOld(h) \/ StoreConfig(h) \/ ApplyConfig(h) \/ RemoveStored(h)

ConfigsNext ==
    \/ \E kind \in Kinds, k \in ConfigKeys : SendUpdate(kind, k)
    \/ \E k \in ConfigKeys : StoredExpires(k)
    \/ \E h \in Handlers :
          ProcessorCrashes(h) \/ ProcessorStarts(h) \/ HandlerStep(h) \/ UpdateFails(h)

ConfigsSpec ==
    /\ ConfigsInit /\ [][ConfigsNext]_configVars
    /\ \A h \in Handlers : WF_configVars(HandlerStep(h))

-----------------------------------------------------------------------------
(* Properties.                                                             *)

\* A processor computes what it was itself asked last to have, and holds it current:
\* the three tables agree on every key but the one it is working on and those a call
\* failed for, whatever was created, updated and deleted before and wherever a crash
\* fell.  Of what other processors were asked it knows nothing.
DoesAsAsked ==
    \A h \in Handlers : \A k \in ConfigKeys \ (failedOn[h] \cup {handler[h].key}) :
        /\ k \in running[h] <=> k \in wanted[h]
        /\ k \in currentConfigs[h] <=> k \in wanted[h]

\* A deletion that no other update of the key overlaps leaves nothing that a later
\* start, of any processor, can find.
DeletedIsGone == deleted \cap stored = {}

\* A task that runs can be cancelled: it is in the table.
RunningIsKnown == \A h \in Handlers : running[h] \subseteq activeTasks[h]

\* Every update is taken by a processor as long as one stays up (MaxMessages ends the
\* sending), and each processor carries out or gives up what it has taken.
UpdatesEnd ==
    /\ (\E h \in Handlers : <>[]Up(h)) => []<>(updates = <<>>)
    /\ \A h \in Handlers : Busy(h) ~> ~Busy(h)

\* What the handlers promise: updates end, and when one has ended the task and the copy
\* in memory of its processor, and the stored copy, say what it asked.
ConfigsPromise ==
    /\ [](ConfigsTypeOK /\ DoesAsAsked /\ DeletedIsGone /\ RunningIsKnown)
    /\ UpdatesEnd
=============================================================================
