------------------------------ MODULE RegistryEvents ------------------------------
(***************************************************************************)
(* The consumer of the instrument registry's events (app/services/         *)
(* registry_integration_service.py and consume_events in app/clients/      *)
(* instrument_registry_client.py): one task reads the event stream,        *)
(* connects again after a failure, starts another task in its place when   *)
(* it fails for good, and is started and stopped with the service.         *)
(***************************************************************************)
EXTENDS Integers, FiniteSets

CONSTANTS Tasks,            \* consumer tasks, a new one being any that has ended
          RetryAttempts,    \* event_retry_attempts
          NoTask

ASSUME RegistryAssumption == RetryAttempts \in Nat \ {0} /\ NoTask \notin Tasks

VARIABLES
    serviceRunning,     \* is_running
    consumerTask,       \* event_consumer_task
    consumer,           \* what a task is doing
    retryCount,         \* retry_count of its connection
    registryUp,         \* the registry answers
    stopping,           \* stop waits for the cancelled task
    failures            \* history: failures in a row; RetryAttempts for good once the
                        \* registry has failed so often or the service was stopped

registryVars == <<serviceRunning, consumerTask, consumer, retryCount, registryUp, stopping,
                  failures>>

Stops == {"unused", "ended"}
Alive(t) == consumer[t] \notin Stops

RegistryTypeOK ==
    /\ serviceRunning \in BOOLEAN
    /\ consumerTask \in Tasks \cup {NoTask}
    /\ consumer \in [Tasks -> {"unused", "starting", "connecting", "reading", "waiting",
                               "pausing", "ended"}]
    /\ retryCount \in [Tasks -> 0 .. RetryAttempts - 1]
    /\ registryUp \in BOOLEAN
    /\ stopping \in BOOLEAN
    /\ failures \in 0 .. RetryAttempts

RegistryInit ==
    /\ serviceRunning = FALSE
    /\ consumerTask = NoTask
    /\ consumer = [t \in Tasks |-> "unused"]
    /\ retryCount = [t \in Tasks |-> 0]
    /\ registryUp = TRUE
    /\ stopping = FALSE
    /\ failures = 0

RegistryChanges ==
    /\ registryUp' = ~registryUp
    /\ UNCHANGED <<serviceRunning, consumerTask, consumer, retryCount, stopping, failures>>

-----------------------------------------------------------------------------
(* start and stop.                                                         *)

\* Mutant: every start makes a consumer.
NeedsConsumer == \E t \in Tasks : consumer[t] = "unused"

NoConsumerYet == consumerTask = NoTask

\* A handle that was ever set is kept: a service that starts again has no consumer.
StartService ==
    /\ ~stopping
    /\ serviceRunning' = TRUE
    /\ IF NoConsumerYet
       THEN \E t \in Tasks :
              /\ ~Alive(t)
              /\ consumer' = [consumer EXCEPT ![t] = "starting"]
              /\ consumerTask' = t
       ELSE UNCHANGED <<consumer, consumerTask>>
    /\ UNCHANGED <<retryCount, registryUp, stopping, failures>>

StopService ==
    /\ serviceRunning /\ ~stopping
    /\ serviceRunning' = FALSE
    /\ stopping' = (consumerTask # NoTask /\ Alive(consumerTask))
    /\ failures' = RetryAttempts
    /\ UNCHANGED <<consumerTask, consumer, retryCount, registryUp>>

\* The cancellation reaches the task wherever it is suspended.
StopReturns ==
    /\ stopping
    /\ stopping' = FALSE
    /\ consumer' = [consumer EXCEPT ![consumerTask] = "ended"]
    /\ UNCHANGED <<serviceRunning, consumerTask, retryCount, registryUp, failures>>

-----------------------------------------------------------------------------
(* A consumer task.                                                        *)

GoTo(t, stage) == consumer' = [consumer EXCEPT ![t] = stage]

Goes(t) == Alive(t) /\ ~stopping

OpenSession(t, fails) ==
    /\ consumer[t] = "starting" /\ Goes(t)
    /\ GoTo(t, IF ~fails THEN "connecting" ELSE IF serviceRunning THEN "pausing" ELSE "ended")
    /\ UNCHANGED <<serviceRunning, consumerTask, retryCount, registryUp, stopping, failures>>

\* Mutant: failures are counted over the life of the task.
KeepRetries(t) == UNCHANGED retryCount

ResetRetries(t) == retryCount' = [retryCount EXCEPT ![t] = 0]

EventsConnect(t) ==
    /\ consumer[t] = "connecting" /\ registryUp /\ Goes(t)
    /\ GoTo(t, "reading")
    /\ ResetRetries(t)
    /\ failures' = IF failures = RetryAttempts THEN failures ELSE 0
    /\ UNCHANGED <<serviceRunning, consumerTask, registryUp, stopping>>

\* Mutant: an attempt more than there are.
OneMore(t) == retryCount[t] + 1 > RetryAttempts

LastAttempt(t) == retryCount[t] + 1 >= RetryAttempts

\* A refusal, or an exception while connecting or reading: after the last attempt
\* the events end, and with them, without an exception, the task.
ConnectionFails(t) ==
    /\ consumer[t] \in {"connecting", "reading"} /\ Goes(t)
    /\ consumer[t] = "connecting" => ~registryUp
    /\ IF LastAttempt(t) THEN GoTo(t, "ended") /\ UNCHANGED retryCount
       ELSE /\ GoTo(t, "waiting")
            /\ retryCount' = [retryCount EXCEPT ![t] = @ + 1]
    /\ failures' = IF failures = RetryAttempts THEN failures ELSE failures + 1
    /\ UNCHANGED <<serviceRunning, consumerTask, registryUp, stopping>>

WaitEnds(t) ==
    /\ consumer[t] = "waiting" /\ Goes(t)
    /\ GoTo(t, "connecting")
    /\ UNCHANGED <<serviceRunning, consumerTask, retryCount, registryUp, stopping, failures>>

\* An event arrives: it is handled, or, when the service stopped, ends the task.
EventArrives(t) ==
    /\ consumer[t] = "reading" /\ registryUp /\ Goes(t)
    /\ ~serviceRunning
    /\ GoTo(t, "ended")
    /\ UNCHANGED <<serviceRunning, consumerTask, retryCount, registryUp, stopping, failures>>

\* The stream ends without an error: connect again at once.
StreamEnds(t) ==
    /\ consumer[t] = "reading" /\ Goes(t)
    /\ GoTo(t, "connecting")
    /\ UNCHANGED <<serviceRunning, consumerTask, retryCount, registryUp, stopping, failures>>

\* Mutant: the task that failed starts over besides the one it creates.
AndGoesOn(t) == "starting"

\* After five seconds another task takes over, and this one ends.
AndEnds(t) == "ended"

PauseEnds(t) ==
    /\ consumer[t] = "pausing" /\ Goes(t)
    /\ IF serviceRunning
       THEN \E new \in Tasks :
              /\ ~Alive(new)
              /\ consumer' = [consumer EXCEPT ![t] = AndEnds(t), ![new] = "starting"]
              /\ retryCount' = [retryCount EXCEPT ![new] = 0]
              /\ consumerTask' = new
       ELSE GoTo(t, "ended") /\ UNCHANGED <<consumerTask, retryCount>>
    /\ UNCHANGED <<serviceRunning, registryUp, stopping, failures>>

ConsumerStep ==
    \E t \in Tasks :
        \/ OpenSession(t, FALSE) \/ EventsConnect(t) \/ WaitEnds(t) \/ PauseEnds(t)

RegistryNext ==
    \/ RegistryChanges
    \/ StartService \/ StopService \/ StopReturns
    \/ ConsumerStep
    \/ \E t \in Tasks : OpenSession(t, TRUE) \/ ConnectionFails(t) \/ EventArrives(t) \/ StreamEnds(t)

RegistrySpec ==
    RegistryInit /\ [][RegistryNext]_registryVars
        /\ WF_registryVars(ConsumerStep) /\ WF_registryVars(StopReturns)

-----------------------------------------------------------------------------
(* Properties.                                                             *)

\* There is never more than one consumer, whatever failed and was started again: no
\* event is handled twice.
OneConsumer == \A t, u \in Tasks : Alive(t) /\ Alive(u) => t = u

\* Once stop has returned no consumer is left, and none comes back by itself: the
\* task that was waiting to create another one was the one that stop cancelled.
NoneAfterStop == ~serviceRunning /\ ~stopping => \A t \in Tasks : ~Alive(t)

\* After a failure the consumer connects again: if the service runs and the registry
\* answers from some point on, the service was never stopped and no RetryAttempts
\* failures came in a row, its events are read, however many failures there were.
EventsAreRead ==
    (/\ <>[](serviceRunning /\ registryUp)
     /\ <>[](failures < RetryAttempts)
     /\ <>[][\A t \in Tasks : ~OpenSession(t, TRUE)]_registryVars)
        => []<>(\E t \in Tasks : consumer[t] = "reading")

\* What the integration promises: exactly one consumer reads the events while the service
\* runs, and none afterwards.
RegistryPromise ==
    /\ [](RegistryTypeOK /\ OneConsumer /\ NoneAfterStop)
    /\ EventsAreRead
==============================================================================
