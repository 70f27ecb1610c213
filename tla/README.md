# Signal Service: a TLA+ model of its coordination

The Signal Service computes option Greeks, technical indicators and custom
signals from a stream of ticks. It is one asyncio program that runs in several
pods over a shared Redis. Its numerical code is sequential and stateless; what is
hard to test is the coordination around it: who computes which instrument, what
happens to work while pods come and go, what a coroutine still knows after an
`await`, and what protects the service when something it depends on fails. This
directory models that coordination in TLA+, checks it with TLC and proves its
safety with TLAPS.

All paths below are relative to the repository. Coroutines of one process switch
only at an `await` that really suspends, so the models split a handler there and
nowhere else: everything between two suspending awaits is one action. Python
`async` functions that never suspend (many in this repository) are plain calls.

## 1. Inventory

### Modelled

| Component | State it keeps | Operations | Module |
|---|---|---|---|
| Work-stealing pool, `app/scaling/work_stealing_queue.py` | a deque per worker, the task each worker runs, its retry count | submit, submit_batch, the worker loop (pop, steal, process, retry), stop, rebalance | `WorkStealing`, `TaskPool` |
| Pod assignment, `app/scaling/pod_assignment_manager.py` over `consistent_hash_manager.py` | pods with status and metrics, instruments of each pod, pod of each instrument, rebalance flag, the ring | register, assign, unregister, update metrics, create and execute a rebalance plan, ring sync | `PodAssignment` |
| Worker affinity, `app/services/worker_affinity_manager.py` over `signal_redis_manager.py` and `ticker_stream_consumer.py` | in Redis: assignment key per symbol, registry, heartbeat key per worker, symbol set per worker; in the process: claimed symbols, shards its consumer reads | start, get_worker_for_symbol, claim, heartbeat, expiry, crash, cleanup | `WorkerAffinity` |
| Hot configuration, `app/core/hot_config.py` with the handlers of `app/main.py` | parameter values, per-parameter locks, breaker, failure count, kill switch | change event with the read of the new value, validation, rollback, emergency shutdown, operator's kill switch | `HotConfig` |
| Subscription registry, `data_services/subscription/` | subscriptions with status, index by user, index by instrument, limit of each user | subscribe, unsubscribe, bulk migration, migration utility, preferences | `Subscriptions` |
| Greeks circuit breaker, `app/core/circuit_breaker.py` | state, counters, rolling window, half-open counter, fallback cache | execute (admission, result, fallback), reset | `GreeksCircuitBreaker` |
| Generic circuit breaker, `app/utils/resilience.py` | state, failure count, time of the last failure | call: admission, success, failure, cancellation | `Resilience` |
| Client of the ticker service, `app/clients/ticker_service_client.py` | a breaker of two states: flag, failure count, time of the last failure | requests for moneyness data, for other data and for its health; refusal, answer, failure, cancellation | `TickerClient` |
| Crash prevention, `app/security/crash_prevention.py` | the table of executions, their stop events, the emergency stop | execute_with_crash_prevention, the watcher of an execution with its termination, the signal handler | `CrashPrevention` |
| Rate limiting, `app/middleware/ratelimit.py` | a Redis counter with an expiry for every user, endpoint and the service | the three checks of a request, a failing Redis | `RateLimit` |
| Load shedding and backpressure, `app/scaling/adaptive_load_shedder.py`, `backpressure_monitor.py` | overload counter, shedding episode, the last recommendation and its age | should_accept_request for every priority, get_scaling_recommendation | `Overload` |
| Operation budget, `app/services/metrics_service.py`, `app/api/v2/config_admin.py` | permits, the level of backpressure with the restrictions that apply, the lock around the records | admission, release and record of a request, change of the budget, evaluation, a test of the backpressure | `OperationBudget` |
| Entitlements, `app/services/unified_entitlement_service.py` | the cached tier, counters and the set of connections in Redis, limits of every tier | check of the API, subscription to a stream, the answers of the marketplace | `Entitlements` |
| Threshold monitor, `app/services/threshold_monitor.py` | jobs of three tiers with their flags and alert times, saved configurations | add, remove, both loops, checks on demand, alerts | `Thresholds` |
| Health of the instances, `app/core/distributed_health_manager.py` | a hash of heartbeats, the aggregate, both with expiries | register, heartbeat, publication, cleanup, shutdown, crash | `InstanceHealth` |
| WebSocket connections, `app/api/v2/websocket.py` | three tables of clients and keys, Redis channels | connect, subscribe, unsubscribe, disconnect, heartbeat | `Connections` |
| Feed frequencies, `app/services/frequency_feed_manager.py` | users of every frequency, the loop of every frequency | subscribe, change, leave, a round with its computation and publications | `FrequencyFeed` |
| Tick streams, `app/services/signal_processor.py` and `ticker_stream_consumer.py` | a Redis stream with two consumer groups, the latest prices | reading, processing, copying, acknowledging, crash and restart | `TickStreams` |
| Signal configurations, `app/services/config_handler.py` | the stored copy of every configuration, and the current copy and the task of each processor | create, update and delete through a shared consumer group, expiry, crash and restart | `SignalConfigs` |
| Registry events, `app/services/registry_integration_service.py`, `app/clients/instrument_registry_client.py` | the consumer's task and handle, its retries | start, stop, connect, fail, be restarted | `RegistryEvents` |
| Cached Greeks, `app/services/greeks_cache_manager.py` | one Redis key per instrument, three writers with two expiries | update, bulk rebalance, registry event, invalidation, expiry | `GreeksCache` |
| Trailing stops, `app/services/trailing_stop_service.py` | stops with status and prices, watched instruments, the loop's task | create, cancel, expire, a round of the loop with its order | `TrailingStops` |
| Strategies, `app/services/strategy_execution_service.py` | status, the list of positions | open, close, stop, each around the registry and the broker | `Strategies` |
| Alerts, `app/services/alert_service.py` | alerts with status and failures, monitored instruments, the loop's task | create, cancel, check, expire, shutdown | `Alerts` |
| Metadata caches, `app/middleware/metadata_enrichment.py`, `app/sdk/instrument_client.py`, `app/clients/instrument_registry_client.py` | three caches with expiries | a batch of lookups, an answer, a "not found" or a stand-in, clearing | `MetadataCaches` |
| Clients of the brokers, `app/brokers/` | a client per broker and the default one, sessions, slots | create, replace, disconnect all, place an order with its fallbacks, ask for a quote | `Brokers` |

What makes each correct, and what is hard about it:

* **Work stealing.** An accepted task is executed once per attempt and ends done
  or dropped, whatever is stolen, retried or dealt out again meanwhile. The
  rebalance empties and refills deques; a steal takes several tasks at once.
* **Pod assignment.** Each instrument belongs to one live pod. Unregistering and
  rebalancing await after every instrument they move, on copies made before.
* **Worker affinity.** One worker per symbol. The assignment is a read, a health
  query and a write, each a round trip to Redis; keys expire, workers crash.
* **Hot configuration.** A guarded parameter is validated before use and rolled
  back if the connections could not follow; after repeated failure no change
  starts a reload. Changes of different parameters overlap, and the change that
  fails once too often ends the notifications while others are on their way.
* **Subscriptions.** Two indexes and a status that must agree; limits and
  duplicates are checked before the wait for the instrument's metadata.
* **Breakers.** Calls admitted in one state return in another; the counters
  of three states are shared.
* **Crash prevention.** Threads and a signal handler change the table the calls
  count on, and a call removes its name whoever has it by then.
* **Rate limits, entitlements.** What was read is written a call later, and a key
  may expire in between; what expires, and when it was last renewed, decides. The
  limits are those of a tier that may be another one meanwhile.
* **Load shedding.** Counters of consecutive overloads, an episode and a cooldown
  interact with the policies of four priorities.
* **Operation budget.** A permit is taken and returned in different calls, a test
  restores later what it found, and the lock around the records is not reentrant.
* **Threshold monitor, trailing stops, alerts.** A loop works on what it copied
  before it waited, while requests add and remove what it works on.
* **Instance health, cached Greeks, metadata.** Several writers of one key, the
  last of which wins, with data that may be older than what it replaces.
* **Connections, feeds.** Clients leave while their request waits for Redis or
  while the result for them is computed.
* **Tick streams, configurations, registry events.** At-most-once readers that
  crash and start again, handles of tasks that have ended, three copies of one
  fact changed one after the other, updates of one configuration that go to
  different processors.
* **Brokers.** An answer may be lost after the order was accepted; clients are
  created and disconnected while orders go through them.
* **Strategies.** Limits are looked at before the broker is asked; a list is
  walked while others append to it.

### How the components interact

A tick arrives on one of ten Redis stream shards. A pod reads the shards
(`SignalProcessor`, `ScalableSignalProcessor`, `TickerStreamConsumer`), asks who
owns the instrument (`PodAssignmentManager` or `WorkerAffinityManager`), may shed
it (`AdaptiveLoadShedder`), and queues it in its `WorkStealingPool`. A worker
computes (the Greeks engine behind `GreeksCircuitBreaker`) and publishes to Redis
channels, from which `ConnectionManager` feeds WebSocket clients. Configuration
changes enter through the notification client of the config service and change
the connections under all of that; events of the instrument registry invalidate
what `GreeksCacheManager` keeps. The services of the instrument API (trailing
stops, strategies, alerts) poll quotes and metadata through the SDK clients.

The components share nothing in memory but the Redis client and the settings
object, so a model that composed them would only multiply their states. Where two
files do act on the same state, one module models both: `PodAssignment` the ring
it owns, `WorkerAffinity` the Redis keys and the consumer it starts, `HotConfig`
the connections its handlers reset, `TickStreams` the two readers of one stream,
`SignalConfigs` the processor's update loop and the handler it calls,
`GreeksCache` the manager and the registry's events, `MetadataCaches` the
middleware and the two clients under it. `ScalableSignalProcessor` is meant to compose
pods, ring, shedder and pool, but its `initialize` awaits
`ConfigHandler.initialize`, a method that class does not have
(`scalable_signal_processor.py:119`), and raises; so the models compose no
further than the code that runs.

Several components are not wired up at this commit: settings their constructors
read are not defined in `app/core/config.py`, nobody starts the heartbeat of
`distributed_health_manager.py`, `start_consuming_redis_streams` has no caller,
`main.py` adds neither the rate limiting and entitlement middleware nor that of the
operation budget, and `threshold_monitor.py` cannot be imported: a dataclass field
without a default follows one with a default (`:72`-`:75`), which raises TypeError.
They are modelled as what they do once called, with the collaborators their
constructors accept, and the threshold monitor as it runs with its fields in order. `app/utils/redis.py` is a placeholder here; Redis is external and modelled
from its documented commands, as the code uses them. The bundled registry client
never answers (`instrument_registry_client.py:164` runs a coroutine's creation in
a thread that has no event loop); the models assume a client that does, with the
cache the bundled one keeps.

### Not modelled, and why

| Component | Why not |
|---|---|
| Numerical engines, indicators, risk engine, signal executor, market profile | real-number formulas without shared state; out of TLC's reach |
| What runs in the script sandbox: compilation, restrictions, detectors | sequential, around one computation; the calls around it are in `CrashPrevention` |
| HTTP handlers, middleware without state, SDK, repositories, startup | translation of requests and I/O; whatever state they change is that of a component above |
| `ScalableSignalProcessor`'s loop | `initialize` raises before the loop exists; the parts it composes are modelled |
| The other service clients, quotes and order status of the brokers | requests with retries that keep nothing |
| Signal delivery | every delivery raises: the first thing it asks, `_max_failures_before_circuit_open` (`signal_delivery_service.py:215`), is set behind a `return` of another method (`:61`); what is left are calls to other services |
| `stream_abuse_protection.py` | repeats the counters of `Entitlements` over other keys; its check of a subscription always denies, since it uses a coroutine it did not await (`:233`) |
| `enhanced_distributed_health_manager.py`, `PriorityBasedLoadShedder` | imported or used by nobody |
| Ring persistence (`consistent_hash_manager.py:93`) | the periodic reload is part of `PodAssignment`; that the ring is saved in three calls is not: a torn ring is one the next reload replaces |
| Connection pools, historical data, timeframe, moneyness and indicator caches, `session_5b_*`, `session_5c_*` | each deletes and refills keys of its own, the shape `GreeksCache` and `MetadataCaches` model; the indicator coordinator compares with a key (`market_data:*:previous`) nobody writes |
| Token resolution tracking | counters written to a report |

`PROJECT.json` lists every component with its files, and the hazards at the line
where they bite, with the properties about them.

## 2. The modules

Each component module declares its bounds as CONSTANTS with a named assumption,
has one action per step of the code, and ends with its properties. Operators
named after a bug ("Mutant: ...") are not part of any specification: replacing a
definition by one of them must break the property it is paired with, which shows
that the property depends on that line of the code.

### WorkStealing, TaskPool

`queue` holds the deques front first, `held` the task a worker is computing,
`fate` what became of each task, `retries` its `retry_count`, `running` the
worker's flag. Submission, popping, stealing and requeuing are one step each:
their `async` functions never suspend. `PopLocal`, `Steal`, `ProcessDone` and
`ProcessFailed` are the worker loop, cut at the computation. A refused submission
and a dropped retry are fates of their own. `TaskPool` is the abstract promise to
a submitter: new, queued, running, then done, refused or dropped, with a bounded
number of attempts. `WorkStealing` implements it under the mapping that calls a
task running while some worker holds it.

### PodAssignment

`pods`, `status`, `ring`, `assigned` and `assignment` are the dictionaries of the
manager and its ring. `Distance` abstracts the hash: the clockwise distance from
an instrument to every pod. `UnregisterBegin`, `Reassign` and `UnregisterEnd` are
unregister_pod cut at its awaits, with the copy of the pod's set in `todo`;
`RebalanceBegin` computes a plan the way `create_rebalance_plan` does and
`RebalanceMove` carries out one move. Several coroutines may unregister. A pod is
registered only when no coroutine unregisters it: the caller is the pod itself.
`UnregisterFailed` and `RebalanceFailed` are a Redis call that raises. `SyncRing`
replaces the ring by one that Redis held. Statistics and load_state are left out.

### WorkerAffinity

Every Redis call is a step, because every one suspends: `phase` says which of
them a worker waits for. `Ask` reads the assignment, `CheckHealthy` and `Choose`
the registry and the heartbeats, `SetAssignment` and `Claim` write. `BeatExpires`
and `AssignmentExpires` are the TTLs; `Crash` and the `Cleanup` actions the
departures. Two simplifications: `Start` merges the
registration and the first heartbeat, and `get_healthy_workers` reads all
heartbeats at once. `Cleanup` is the shutdown the manager offers although the
application does not call it today. `consumed` is the set of shards the consumer
has a task for.

### HotConfig

`phase` follows the reload coroutine of one event: waiting for the lock, reading
the config service, notifying the application's handler. `Answers` says what a
read may come to: the value, nothing at all, which ends the event without
counting a failure (`hot_config.py:557`), or an exception. `service` is the value
in the config service, `value` the one in the settings, `inUse` the one the
connections were built with. `Outcomes` says what a handler may do: return,
raise, or swallow its error as the handlers of `main.py` do. `Guarded` is
`DATABASE_URL`, the parameter with validation, rollback and breaker. The
notification client is not part of the repository; `Publish` models its event
from how hot_config uses it. The failure that is one too many stops the notifications
(`listening`), and that is all that stops reloading, since no handler asks the kill
switch: `FailuresStop` speaks of the changes that start no reload any more; the
reloads that wait for a lock by then still run.

### Subscriptions

`status`, `owner`, `topic` and `migrated` are the fields of the subscriptions,
`byUser` and `byInstrument` the two indexes. A call that has been admitted waits
in `wanted` for the metadata; `Store` and `StoreFails` are what follows. The
instrument client's cache hit, which does not suspend, is the interleaving in
which nothing happens in between. The reactivation branch of `subscribe` is
written as the code has it: whatever it finds is set to active (it finds no
cancelled one, section 5). Callbacks,
metadata, metrics, evidence files and expiry (no caller sets `expires_at`) are
left out.

### GreeksCircuitBreaker

`call` records in which state each caller was admitted; `Finish` records the
result in whatever state the breaker is then, including trips of an open breaker
and closings after the last probe. `since` and `sinceTrip` are the clocks of
`last_state_change` and of the last trip, in ticks of `Tick`, which also moves
the rolling window and the ages of the fallback cache. `HalfOpenClose` is the
closing the code performs after the await.

### Resilience

`calling` are the coroutines that await the guarded function. `sinceFailure` is
the clock the admission looks at; `sinceTrip` and `rescued` are history, for the
promise that a tripped breaker rests. A cancelled call records nothing, because
`CancelledError` is not an expected exception.

### TickerClient

`fetch` is what each coroutine awaits. `Open` asks the breaker and `Send` closes
one that has waited long enough. `Refuse` follows what each kind of request makes
of a refusal: the one for moneyness data passes it on, the health check answers
no, and the others hand it to the handler of failures (`CountedRefusal`), which
renews the time the breaker waits from. `sinceLoss`, `snubbed` and `healthy` are
history. The setting its constructor reads exists once a hot reload or a test has
set it (`hot_config.py:727`).

### CrashPrevention

`exec` is how far each call of `execute_with_crash_prevention` is, `monitor` its
watcher (a thread) and `active` the table `active_executions`. The calls are
coroutines, but from the question for an emergency to the entry in the table none
of them awaits, and the wait for a watcher (`:170`) blocks the loop: `MainFree`.
The signal handler runs in the main thread between any two steps. `EmergencyHandler`
clears the table in one step: each termination signals the process again, inside
`os.kill`, so that the handler runs within itself until nothing is left. `nameOf`
is in the initial state, since the user, the function and the second decide it.

### RateLimit

`count` and `ttl` are a Redis counter and its expiry, renewed by every
request (`ratelimit.py:135`). `CheckRateLimit` is one INCR, EXPIRE and GET, which are one
pipeline; requests interleave between their three checks. `passes` is history:
what was let through in the last `Window` ticks.

### Overload

`ShouldAcceptRequest` has the order of the code: the exemption that counts
nothing, the counter of overloads, the policy of the priority, the modifiers, the
episode. Loads are percentages and probabilities thousandths; where a probability
is neither 0 nor 1 both answers are possible. `Recommend` and `AskRecommendation`
are the heartbeat of a pod that asks how many pods to run.

### OperationBudget

`permits` are counted by the middleware, `at` says where each request is, and
`pressure` the level with the restrictions in force. `RecordRequest` ends a
request or leaves it as `holder` of a lock that its own thread asks for again
(`metrics_service.py:138`): after that nothing runs. Therefore no rate and no
processing time is ever known, and `Level` counts only what can be measured
without them. `saved` is what each test of the backpressure will restore
(`config_admin.py:218`); `lastLevel` and `mixed` are history. `RefreshBudgetConfig`
takes whichever of `Budgets` the config service gives. `FairBudgetSpec` adds that
the application answers every request and its thread records it, for the question
whether a request ends (`EveryRequestEnds`, which the run `budget_deadlock`
refutes). The middleware is not mounted at this commit and nothing else calls
`record_request`.

### Entitlements

A request is at the marketplace, at the counter, or at the list of connections;
each is a call during which others move. It carries the tier it was told (`Told`),
whose limits it is held to (`AccessLimit`, `MaxConnections`, lowest for the free
tier), while the user may be of another tier by then. History are the time since the
user was last of a tier (`sinceTier`) and the highest tier told to those a counter
counts (`countedFor`) and to those in the list (`listedFor`): a counter stays as it
is when the limits fall.

### Thresholds

Two loops and any number of users check jobs; `checks` says where each check of
each job waits. `DropFromTiers` and `Removed` are remove_threshold cut at the
deletion in Redis. Values are abstracted to nothing, calm or breach.

### InstanceHealth

The heartbeat of an instance is write, read and publish, each a call; the
aggregate is what somebody last published. The clocks of the instances agree.

### Connections

`endpoint` is what the task of a socket waits for. A client has one entry per key
it asked for, the key an entry with its subscribers, Redis a channel per key; the
three are changed by different steps. `unheard` is history: which keys lost their
channel, and by which of the ways the code has for that.

### FrequencyFeed

`feedLoop` is where the loop of a frequency is: asleep, computing, publishing.
`batch` is who the result is for. A round is skipped when the last one ended late.

### TickStreams

`stream` holds ticks and the processed copies the readers append to it;
`groupAt`, `acked` and `consumerAt` are the two consumer groups. `joined` is
`active_streams` of a processor, which survives no crash, while the group does.

### SignalConfigs

Several processors (`Handlers`) read the updates through one consumer group, so that
each update goes to whichever of them reads next (`NextUpdate`). `stored`, the copies
in Redis, they share; `currentConfigs`, `activeTasks` and `running` are the copies
and tasks of each, and `handler` what its update loop is doing, cut at its Redis
calls. `wanted` and `failedOn`, what a processor was last asked in full to have and
what a call failed for, are history, and so is `deleted`, the deletions that no other
update of the key overlapped. `ProcessorStarts` and `LoadingEnds` read what is stored
and schedule none of it, as the code does (section 5). A crash drops the update that
was under way: it stays pending in the group and is never read again.

### RegistryEvents

Several tasks may exist, the handle names one of them; `OpenSession` and the
failures follow `consume_events` with its retries, and the replacement a failing
task creates for itself.

### GreeksCache

An update reads the market, decides, computes and stores; the registry's handler
recalculates beside it. The entry knows its spot only when the registry wrote it.
`sinceMove` is history.

### TrailingStops

Stops are objects with a name; the table maps names to objects, and a second stop
of the same second takes the name over. `loop` is where a round is: at the quote,
or at the metadata or the order of a stop it triggered, with the rest of what it
copied. `sent` and `withdrawn` are history.

### Strategies

Positions are a list, closed ones included, as in the code; `sold` is history.
`StopGoesOn` walks that list while others append.

### Alerts

`monitoring` is the task of the loop (off, idle, in a round, cancelled). An alert
has a kind: one that may be triggered, one whose message cannot be formatted, one
whose value cannot be compared. `withdrawing` are the cancellations that wait.

### MetadataCaches

Three dictionaries with ages: `outer` of the middleware, `inner` of the SDK's
client, `registered` of the registry's client below. An item is known by its age and
by whether it is metadata, the news that the registry does not know the instrument
(which the innermost cache keeps and the one above it does not), or a stand-in for a
failure. A request (`enricher`) looks for a batch of any size, asks for what it
misses one instrument after the other, and sets what it has `fetched` at the end.
Each dictionary is touched in a step of its own, but steps that do not wait for the
registry are not interrupted (`NobodyRuns`).

### Brokers

A client is named after the creation that made it. `closing` is where
`disconnect_all` is in its walk over the dictionary; one that has grown meanwhile
raises, as Python does. Closing begins at once, and the reference to the session
is dropped when it has ended: a session that an order opened in between is
forgotten open, and so is one that a quote or a health check opens (`QueryBroker`,
`kite_client.py:129`, `:237`), also through a client that is no longer listed. An
order waits for the registry and a slot, is sent, and is
answered or raises; where it may still be tried is `rest`. That the broker accepted
an order whose answer was lost is a choice of the broker (`OrderRaises`). The
order in which a dictionary is walked is left open.

### The promises

Every module states its properties one by one and ends with what they amount to
for the component's user, as one conjunction (`StopsPromise`, `RatePromise`,
`AffinityPromise`, ...); its first conjunct is the type invariant. The runs check
these. Of the breaker of the Greeks, pods, subscriptions and configuration the
properties are checked and proved one by one. Proved as a whole are the promises
of `OperationBudget`, `RateLimit`, `Entitlements`, `Connections`, `FrequencyFeed`,
`TickStreams`, `GreeksCache`, `Strategies`, `MetadataCaches` and `Brokers`; of
`CrashPrevention` its safety part. `MCGuards` bundles the requests' and the users' promises as
`QuotasPromise` and those of the two breakers as `BreakersPromise`, `MCTrading`
those of metadata and brokers as `ClientsPromise`.

## 3. What the runs check

| Run | Question | Result |
|---|---|---|
| `workers` | does any order of submissions, batches, steals, failures, stops and rebalances lose, duplicate or strand a task, or outgrow a deque, and does the pool implement `TaskPool`? once disturbances stop, do the racing assignments converge to one worker process, and are the symbols of a departed one reassigned? | holds |
| `pods_and_greeks` | can two registered pods both count an instrument, can a leaving pod become ready again, does every unregistration end once Redis answers? do late results ever leave the breaker of the Greeks closed above its threshold, admit probes early or without bound, or keep it open for ever? | holds |
| `pod_orphans` | is every instrument of an unregistered pod reassigned? | **violated**: a stale rebalance move hands an instrument to a pod that has gone |
| `affinity_consumed` | is a claimed symbol's shard read? | **violated**: the consumer ended before the first claim |
| `hot_config` | is only a validated value ever stored, do settings and connections agree, is nothing applied while the breaker is open, is the latest change in use when all is quiet, does any change start a reload after the failure that is one too many? | holds, but for what `hidden` records: a handler that caught its own failure, a last read that gave nothing, an operator who cleared the count |
| `subscriptions` | do the indexes and the statuses agree, does the hard limit hold, by how much does a user pass its own limit, and how many subscriptions to one thing do overlapping calls make? | holds |
| `greeks_breaker_recovery` | does a breaker close again once every call succeeds? | **violated** with the default number of probes and sample |
| `budget_deadlock` | does every request the middleware admits end? | **violated**: the first one that is recorded waits for a lock its own thread holds, and nothing runs any more |
| `guards` | does an open breaker leave its service alone, and close when the service is back? are the limits of requests, connections and alerts kept up to what overlaps? is a permit given back once, and the pressure as it was after a test? does shedding spare critical requests, and are pods asked for? does a passed limit stop every execution, with one latecomer at most? does access end with the tier, and are the limits of the tiers kept? are the removed and the dead forgotten, and the present checked and listed? | holds |
| `delivery` | do the tables of the WebSocket endpoint agree? are users served in time and left alone afterwards? is an acknowledged tick done? does each processor have what it was asked to have, and is a deleted configuration gone from Redis? is there one consumer of the registry's events? how stale may Greeks be? | holds |
| `trading` | is a stop watched, tightened, settled once and never after its cancellation? are limits passed and positions sold only by what overlaps? is an alert settled in the end, and silent then? how old may metadata be? is an order with a broker once, given up only when all have been tried, and is nothing left open after a shutdown? | holds |
| `processor_reads` | does a processor that runs and has instruments to watch read its stream? | **violated**: the BUSYGROUP error of a restart is taken for the stream being read |

The findings in `PROJECT.json` quote the documentation each violation
contradicts.

`workers`, `pods_and_greeks`, `guards`, `delivery` and `trading` each check several components that
share no state: the variable `part` is chosen in the initial state and only that
component moves, so the behaviours of the run are those of its parts, each by
itself, and a property of one part holds in the run if and only if it holds of
that part (the others never leave their initial state). The fairness of each part
is the one of its specification, restricted to its part.

### Bounds, and why they are enough

* `workers`: four tasks on two workers, deques of three, one retry, batches of
  two, steals of one from a deque of two; stealing needs one loaded and one idle
  worker, and a full deque needs one task more than its limit. Two processes race
  for one symbol (symbols share nothing but the registry and the heartbeats), and
  one of them may stop.
* `pods_and_greeks`: two pods, four instruments and capacity three, so that a
  plan moves an instrument and a pod fills up; one unregistering coroutine, and
  Redis calls that raise. Three callers of the breaker and one probe, so that two
  callers race with the probe; a threshold of two, so that a mixture of results
  decides. The safety properties are proved for any number of all of them.
  `pod_orphans`: the same pods with capacity four and no failure, so that nothing
  but the interleaving is to blame. `greeks_breaker_recovery`: two callers, three
  probes and a sample of five, the defaults.
* `hot_config`: two overlapping reloads of a guarded and an unguarded parameter,
  five published changes (`MaxPublish`), reads that give a value, nothing or an
  error: three failures open the breaker, two in a row end the notifications. The
  safety properties are proved for any number.
* `subscriptions`: two calls, four subscription ids, three topics of which two
  share an instrument, a hard limit of two and user limits of one and two that
  change meanwhile: every limit is met and the overlap is the largest two calls can
  make. Proved for any number.
* `guards`: three callers of the breaker and a threshold of three, three of the
  ticker service and a threshold of two; two requests of
  one user for one endpoint against limits of one and two in a window of two
  ticks, so that a request passes its own limit and fails another; loads below,
  above and at the top of the range; two requests and three clients of a user whose
  tier changes between a free one, with limits of one and no use of the API, and a
  premium one with limits of two; one job with two users beside the loop; two instances with an
  expiry of two intervals; two executions, under two names or the same, in a table
  of one; two requests and two overlapping tests of the
  backpressure, budgets of one and four. `budget_deadlock`: the same with one test;
  a single request would show it.
* `delivery`: three sockets of two clients, so that a client comes back under its
  name; two users at two frequencies of two and three ticks; two ticks of two
  instruments and one crash of the processor; two processors, two configurations
  and three updates (create, update, delete) in any distribution, a crash anywhere;
  three attempts to connect; two updaters and the registry over two spots, expiries of one and three.
  `processor_reads`: one tick, one crash.
* `trading`: two stops over three prices; two openers, a closer and a stop over
  two instruments, two positions and a sector limit of one, so that the closer
  meets a reopened instrument; two alerts over two instruments and two check
  failures (the first alert is of the first instrument: they are alike); two
  requests for two instruments over a cache of one, lifetimes of one, one and two
  from the outermost inwards, answers within one tick; two
  creations and two orders (named in the order they begin: they are alike) at a
  real and a simulated broker, with one slot.

Bounds that are not in the code: `MaxBatch` (submissions at once), `MaxPublish`,
`MaxTicks`, `MaxCrashes`, `MaxMessages`, and the objects and requests that may be
created; clocks stop one past the last age that matters.

### Fairness

* `workers`: weak fairness of every worker's loop, whose iteration ends in an
  await, after which the event loop resumes the worker; a computation returns or
  raises. Weak fairness of the steps of a request, of heartbeats and of the expiry
  of a dead worker's heartbeat; strong fairness of a request for a symbol arriving
  while its worker is idle, since ticks keep coming.
* `pods_and_greeks`, and `pod_orphans`: weak fairness of a coroutine that
  unregisters: it only awaits Redis calls that return or raise. Failures are assumed
  to stop eventually, in the property itself.
* The breaker of `pods_and_greeks` and `greeks_breaker_recovery`, and that of
  `guards`: calls return or time out (`asyncio.wait_for`), time passes, and callers
  keep coming.
* `budget_deadlock`: weak fairness of `RecordRequest`: the application answers every
  request and its thread goes on to record it, if it can.
* `guards`: the clocks move; requests to the ticker service end, and its users go
  on asking until they are let in; executions end or time out (`asyncio.wait_for`),
  watchers and the signal handler run; the loops of the threshold monitor and every check
  under way go on (they await calls that return or raise); the heartbeat asks the
  backpressure monitor again and again (`scalable_signal_processor.py:358`); the
  steps of a heartbeat and of a cleanup happen, and the clock of the instances
  moves however often they come and go (strong fairness, since a heartbeat that is
  due holds it up).
* `delivery`: the loop of a processor, the update loop of each processor, the
  consumer of events and its cancellation go on.
* `trading`: the loops of the trailing stops and of the alerts go on.
* `hot_config`, `subscriptions` check safety only, under no fairness.

## 4. What is proved

Every theorem holds for all values of the constants that satisfy the assumption
of its module. These say that times, limits and thresholds are positive numbers,
that marker values are not members of the sets they stand beside, and, where a proof
counts something or picks a least element, that a set is finite (`Askers`,
`StopIds`, `Callers`, ...) or not empty (`Prices`): a process has finitely many
of each at any time, and a market has a price.

* **GreeksCircuitBreakerProofs.** `TypeCorrect`, `ClosedIsBelowThreshold`,
  `ProbesWait`, `ProbesAreBounded`. The inductive invariant adds to the
  properties that the two clocks agree while the breaker is open: only a trip
  leads there and it restarts both. Without it, a probe admitted by one clock
  could be early by the other. The bound on probes needs in addition that what a
  half-open breaker has counted plus what is in flight only grows by an admission
  below the limit; it is an invariant over the cardinality of the callers.
* **PodAssignmentProofs.** `TypeCorrect`, `TablesAgree`, `LeaversDrain`, for any
  number of unregistering coroutines. `TypeOK`, `AssignedAgrees` and
  `LeavingIsDraining` are each inductive given the types: every operation that
  writes a pod's set goes through `update_assignment`, which removes the
  instrument from the pod the table names.
* **SubscriptionsProofs.** `TypeCorrect`, `TheIndexesAgree`, `LimitsHold` (from
  `HardLimitHolds` and `OvershootHolds`), `DuplicatesHold`, for any number of users,
  calls and tokens. Two limits are in `LimitsHold`: the hard one, which nobody ever
  has more than, and the one a user has chosen, which a step that adds to what a user
  has or waits for passes by no more than there are other calls. It may fall below
  what the user has already. `NothingIsReactivated` shows that the
  reactivation of a cancelled subscription, which the code intends, is out of reach
  (section 5). The agreement of the indexes is inductive with "an
  idle call waits for nothing". It is what the rest stands on: because whatever
  `subscribe` finds in the index is active, the reactivation changes nothing
  (`AdmitOnlyWaits`), and because the index holds exactly the active ones, what
  the limit counts contains what a user has subscribed to. From there every step
  is one of three for a user (`StepCounts`): it adds nothing, it admits a call
  below the limit that found no subscription, or it moves one waiting call to one
  stored subscription; the sums of the two bounds survive each of them.
* **HotConfigProofs.** `TypeCorrect`, `TheGuardedIsSound`,
  `NoneStartsAfterwards`, `QuietHasCaughtUp`, `OpenMeansUnchanged`, for any parameters
  and values and any number of reloads that overlap. That no change starts a reload
  after the failure that is one too many follows from `Deaf`: by then the
  notifications have ended, and nothing starts them again. The lock is `Alone`, one reload of DATABASE_URL at a time
  between the breaker's question and its answer; with it, `WorkersAdmitted` says
  that the breaker cannot open under a reload it admitted, which is
  `OpenMeansUnchanged`. A rollback restores a sound value because the value a
  handler would go back to is valid and the one in use (`Returnable`). That
  nothing is lost needs two facts about what is on its way: what a reload has
  read is the latest value or another event still waits (`Fetched`), and while no
  failure is counted and the last refresh gave something the same holds of what is
  stored (`Coming`), which in turn needs that a breaker that is not closed has
  counted a failure.
* **WorkStealingProofs.** `PoolTypeCorrect`, `TasksArePlaced` and
  `PoolImplementsTaskPool`, for any workers, tasks, priorities, capacities and
  retries. The invariant says that no task is twice in the deques (`IsDeques`), that
  a task is held by one worker (`HeldOnce`) and never queued and held at once
  (`Apart`), that exactly those that have not settled are somewhere
  (`LiveArePlaced`), and that a task was started as often as it was retried, once
  more while it is held (`Counted`). From it every step of the pool is a step of
  `TaskPool` or none: a steal and a rebalance move tasks that stay queued. What
  these two do to the deques is stated in lemmas of their own (`Robbed`, `CardsOf`).
  Of the other half of `MCWorkers`, the worker processes, `WorkersReportTheirOwn` shows
  what their keys in Redis say at any time, whichever calls fail and keys expire: a
  worker that is up reports no more symbols than it has claimed, so that a
  chooser may overload it but never takes it for busier than it is; its cleanup
  releases only what it claimed (`ReportsAreOwn`); and who cleans up is not in
  the registry, so that only a request that has chosen it already still names it
  (`LeaversAreUnlisted`). `NothingIsRead` is what the run `affinity_consumed` shows of one
  instance, for all: no shard of a claimed symbol is ever read. The invariant adds that a
  worker that has not started holds nothing. `BothPartsHold` states all of it of the
  specification the run checks.
* **GuardsProofs**, which proves of all the guards what `MCGuards` checks of
  them, but for liveness.
  *The budget of the operations:* `BudgetKept`, the whole of `BudgetPromise`, for any
  requests, tests and budgets. That the count is that of the requests inside is
  inductive with the types: each step moves one request across the door and the
  count with it. That the pressure settles needs what a test under way will
  restore: while nothing has been mixed, there is at most one such test, and what
  it saved is what the last evaluation found (`OneTestRestores`).
  *The quotas:* `QuotasKeepTheirPromise`, the whole of `QuotasPromise`, of the
  specification the run checks, from `RateKeepsItsPromise` and
  `AccessKeepsItsPromise` of the two components. A counter of the rate limiter has
  counted all it let through while it lives, and lives until all of that is longer
  ago than the window (`Counted`): both the limit and the renewal of the expiry are
  needed. Of the entitlements the invariant adds to what is counted or listed what
  is about to be, for every tier by itself (`RoomToCount`, `RoomToList`: a request that
  still will count itself saw room below the limit of its own tier, and there are only
  so many; what is bounded is the count against the limit of the highest tier counted
  and of every tier above it), and says how long ago the user was of the tier that the cache, or an answer on its way,
  tells of (`ToldLately`).
  *Executions:* `ExecutionsAreSafe`, the safety part of `CrashPromise`, for any
  calls, names and places in the table. The invariant says whose an entry is
  (`EntryIsOwn`: that of the call it leads to, which has not left), that one call at a
  time keeps the main thread, that a watcher which terminates has halted its own
  call unless the name was another's (`TerminatedIsHalted`), and that none is
  admitted after a latecomer. That no more calls wait than there are places follows
  by mapping the names of the waiting calls into the table, which is an injection.
  *Breakers:* `TrippedRests` and `TickerIsLeftAlone`. A call may be let in when the
  time since the last failure is over, and what is promised is counted from the
  trip. The generic breaker keeps the two together until a call that was under way
  succeeds (`TrippedWaits`). That of the ticker service's client does not: the last
  failure it counts may be a refusal of its own, so the invariant only lets its
  clock be no earlier than the service's, and the same while nothing was refused
  (`WaitsFromTheLoss`).
  *Load shedding:* `CriticalGoesLast`. The policy of critical requests gives nothing at
  every load it divides for, and no adaptation makes something of nothing
  (`CriticalProbabilities`); what remains are the overloads in a row.
  *Thresholds:* `AlertsAreFew`. The cooldown starts at the end of an alert, so that
  checks which overlap may each have begun one. What was alerted in the last ticks is
  none since the cooldown started, and at most those still under way once it is over
  (`CooldownCounts`); these are checks, one of each checker. A removed job has no
  check unless it was removed under one (`RemovedIsLeft`).
  *Health:* `TheGoneAreUnlisted`. How old the news of an instance may be is said of
  each place it passes (`Heard`): its own key, the list another instance has found
  and not yet published, and the aggregate.
* **DeliveryProofs**, which proves what the parts of `MCDelivery` promise, but for
  liveness.
  *Connections:* `TablesAgree`, the whole of `ConnectionsPromise`, for any
  clients, sockets and keys. The promise is inductive with "a task that waits for
  Redis waits for a key". What is hard is the departure of a client that others
  of the same name or key outlive: it takes the leaver's name only
  (`DisconnectForgets`), so what the others asked for stays listed (`AskedStays`)
  and heard (`HeardStays`).
  *Feeds:* `FeedsKeepTheirPromise`, the whole of `FeedPromise`, for
  any users, frequencies and intervals longer than a computation. The bound on
  the wait is not inductive: `WaitIsBounded` says how long a user may have waited
  in each phase of its loop, and, when it has waited for more than the present
  round, that the last result is old enough for the next round not to be skipped.
  Two rounds are therefore never skipped in a row. A user that left gets one
  result at most, since a batch is taken from those subscribed (`NoneIsLateYet`).
  *Ticks:* `ReadersKeepTheirPromise`, the whole of `TicksPromise`, for any
  processors, instruments and configurations. The readers read their own copies,
  so the invariant numbers the ticks (`TicksNumbered`), lets none be twice in the
  stream in the same state (`EntriesDiffer`), gives a tick that is not computed yet
  to one processor (`NewIsOwn`), without a copy (`NewHasNoCopy`), and to one that
  is to be acknowledged a copy (`CopiedHasCopy`).
  *The cached Greeks:* `GreeksAgeInTime`, the whole of `GreeksPromise`, for any spots,
  updaters and lifetimes. Three things may be behind the market, and the
  invariant bounds each by the time since the spot moved: what a computation read
  (`ReadInTime`), the spot an update was told of (`ToldInTime`) and what is stored,
  by the lifetime its writer gave it (`StoredInTime`).
  *Configurations:* `ConfigurationsAgree`, the safety part of `ConfigsPromise`, for
  any keys, processors and updates. It speaks of what each processor was itself
  asked, between two of its updates; the invariant says which one key (`InHand`) an
  update may have left inconsistent at each of its waits (`Consistent`), and that only
  a deletion gets to the removal (`FineHandlers`). What was deleted is not stored, and
  is in the hand of nobody who could store it (`Gone`).
  *Registry events:* `ConsumersAreOne`, the safety part of `RegistryPromise`, for any
  tasks. A consumer that is alive is the one whose handle the service keeps, and the
  service runs or its stop waits for it (`TheConsumer`).
* **TradingProofs**, of all the specifications `MCTrading` composes.
  *Brokers:* `BrokersKeepTheirPromise`. A client that is listed was made for the broker
  it is listed under (`ListedAreMade`); an order goes to brokers it has not tried,
  and only those can hold it (`UnderWayTried`, `HeldIsTried`); where it was offered
  is still listed (`OfferedIsListed`). For the shutdown the invariant says whose
  sessions are open (`OpenIsListed`), that the walk has closed what it passed
  unless the dictionary has grown (`PassedIsClosed`), and that nothing begins while
  it stays tidy (`TidyIsQuiet`).
  *Metadata:* `MetadataKeepsItsPromise`, for batches of any length. Each client keeps
  what is no older than the answer's way, the lifetimes below and its time there
  (`RegistryIsFresh`, `InnerIsFresh`). What a request has fetched waits for the answers
  to what it asked for since, and for no others (`Holds`); so what the outer cache
  keeps is late by the two lifetimes below it and the waits of a batch (`Kept`).
  `ClientsKeepTheirPromise` is both, `ClientsPromise`, of the specification the run
  checks.
  *Strategies:* `StrategyKeepsItsPromise`, the whole of `StrategyPromise`. To the list
  and the exposure are added the openings past their check (`RoomIsLeft`), to what
  was sold of a closed position those that still hold an order for it (`SoldOnce`);
  an order is for a listed position (`OrdersFit`), and a stop has closed the first
  positions it has passed and holds an order for the one it is at (`StopsClose`).
  *Alerts:* `AlertsSettleOnce`, the safety part of `AlertPromise`. An alert that is new
  or active has nobody notified and a check failure left, one that is being
  withdrawn is cancelled already (`AlertIsFine`); so whatever order the answers of a
  round and of a cancellation arrive in, the status that is written last settles it.
  *Trailing stops:* `StopsTightenAndOrderOnce`, the safety part of `StopsPromise`. The
  table may hold another object under a name than the loop has copied, so the
  invariant speaks of objects: one goes by one name (`ObjectsAgree`), the loop has
  each at most once and knows it by the name it goes by if it goes by any
  (`ListAgrees`), and none of those it has yet to look at was ordered or withdrawn
  (`LoopAgrees`). An active one that was ordered is the one whose answer the loop
  waits for, and the answer settles its name. That the copy of the table has each
  object once is a fact about the permutations of a finite set (`QuoteKeeps`). What a
  round writes is one lemma (`WalkIs`), with the tightening of a stop by any price
  (`TrailedTightens`).

Only model-checked: liveness under fairness (TLAPS does not reach `ENABLED`). It is
what is missing of the promises of the breakers, load shedding, executions,
thresholds, health, configurations, registry events, trailing stops, alerts and
worker affinity, of which the theorems above state everything else, and all of
`EveryTaskSettles`, `UnregisterEnds` and `OpenIsLeft`. No safety property that a
passing run checks is left without a theorem.

## 5. Known divergences without a run

Met while modelling, and kept in the models as the code has them. None is claimed by
a property; each is a difference between the code and what its names, comments or
other code say.

Workers, pods, configuration:
`submit_batch` sorts by ascending priority although the comment says higher first
(`work_stealing_queue.py:86`); a task whose retry finds the deque full is gone with
retries left (`:393`); two workers that find no assignment both take the symbol
(`worker_affinity_manager.py:207`); reassigning on unregistration ignores the
capacity of the receiver (`pod_assignment_manager.py:308`); the heartbeats of the
other pods are loaded once, so every process declares every other pod failed
(`:364`); cleanup of a dead worker may delete an assignment that was renewed since it
was read (`signal_redis_manager.py:446`); the handlers of `main.py:40` swallow their
errors, so a failed change of the database is not rolled back; a refresh that gives
None or an empty value ends a change silently, and the new value is not in use until
another one comes (`hot_config.py:557`); the kill switch "to disable hot reloading"
(`:363`) is asked by no change handler (`:551`), so that enabling it stops nothing by
itself, and disabling it "to re-enable hot reloading" (`:369`) does not start again
the notifications that the emergency shutdown stopped (`:380`); "Reactivate existing
subscription if cancelled" (`subscription_manager.py:147`) is dead, because a
cancellation removes the subscription from the index it is looked up in.

Breakers and limits:
the half-open limit counts completed calls only (`circuit_breaker.py:226`, bounded by
`ProbesBoundedByCallers`); a success in the closed state of the generic breaker
clears no failure (`resilience.py:52`); rejected requests renew the expiry of a rate
limit, so that a client that goes on asking is never let in again
(`ratelimit.py:135`); a critical request, "never shed"
(`adaptive_load_shedder.py:18`), may be shed after six overloads (`:216`) and raises
ZeroDivisionError at a load of 1.0 (`:37-40`); the open breaker of the ticker
service's client counts the requests it refuses as failures of the service and waits
anew (`ticker_service_client.py:258`), and a health check sent before it opened
clears the count of an open one (`:111`); INCR after the expiry makes a counter that
never expires (`unified_entitlement_service.py:718`), SETEX in the name of a first
request forgets those counted since it looked (`:721`), so that more requests than
the counter shows may have been let through, `cleanup_connection` has no caller, and
every error there permits.

Executions of functions:
a watcher that ends one execution signals the whole process
(`crash_prevention.py:301`), whose handler replaces that of the server, stops every
execution and refuses all later ones; the watcher's limit is the one `wait_for` has,
so that a function which is merely slow may do that (`:227`, `:431`); two calls of
one user and function in a second have the same name and the later one overwrites the
other (`external_function_executor.py:614`); a function that timed out keeps its
thread; the limits that are set are those of the process and cannot be raised again
(`crash_prevention.py:186`).

Operation budget:
overlapping tests of the backpressure may leave the state of one of them for good
(`config_admin.py:218`); the lock of the records has a run of its own
(`budget_deadlock`). `main.py` does not mount the middleware that counts the permits.

Thresholds and health:
the module of the threshold monitor raises TypeError when it is imported, for the
order of a dataclass's fields (`threshold_monitor.py:72`-`:75`); the notification
reads a key the alert does not have (`threshold_monitor.py:635`) and its fallback
passes nested dictionaries to XADD (`:687`), so that no alert leaves on those
channels; a check under way saves a removed threshold again (`:603`); saved
thresholds are never loaded; the expiry of an instance is set on a key that does not
exist (`distributed_health_manager.py:118`).

Streams, configurations, caches:
a restarted process schedules no stored configuration, because it passes dictionaries
where objects are wanted (`signal_processor.py:437`, `config_handler.py:151`);
replacing the prefix of a shard's stream leaves no instrument key
(`signal_processor.py:617`); a tick whose processing raised, or whose reader crashed,
stays pending and is never read again (`:560`), and so does an update of a
configuration; the updates of one configuration are spread over the processors of the
group (`:466`), so that a deletion, or a replacement that "cancels/waits for old
task" (`docs/signal_service.md:144`), may reach a processor that has no such task
while another goes on computing it, although the instances are called stateless,
"enabling easy horizontal scaling" (`:197`); the listener of the WebSocket endpoint
decodes a string (`websocket.py:342`); copies are read by the stream consumer too, so
that the latest price may step back; the consumer of registry events ends for good
after its last attempt, and a service that starts again has none; Greeks stored
without the market data they are from (`greeks_cache_manager.py:450`) can only be
judged by age; the registry's client remembers for its lifetime also that an
instrument is not known (`instrument_registry_client.py:220`), events of the registry
invalidate the cache of the client that receives them (`:300`) and not that of the
one under the SDK, which is another object (`sdk/instrument_client.py:44`), and the
fallback "even if expired" (`:181`) finds nothing expired, because the look before it
has deleted that (`:91`).

Trading:
a price that jumped by more than the filter allows is ignored and not remembered, so
that later prices near it are ignored too and the stop never triggers
(`trailing_stop_service.py:294`); a stopped strategy "closes all positions"
(`strategy_execution_service.py:198`) but only the first of an instrument, and none
that was opened behind it; a closed entry hides a reopened one; overlapping closes
sell twice; order numbers are milliseconds (`sdk/order_client.py:113`); cancelling an
alert without metadata raises, and leaves the alert listed (`alert_service.py:511`);
an alert whose message has an unknown placeholder is triggered and never told
(`:443`); an order whose answer was lost is placed again at the next broker
(`broker_factory.py:261`); a simulated rejection is an answer and ends the search; a
client made beside another replaces it (`:70`) and its session has no owner;
`disconnect_all` gives up when a client is created meanwhile (`:171`).

## 6. What is left

Everything the inventory calls not modelled stays so for the reason given there:
what remains of the code is numerical, stateless, a repetition of a protocol that
is modelled, or cannot run at this commit. Two things would add to the project
when the code changes: a composition of pods, ring, shedder and pool once
`ScalableSignalProcessor` starts, and the persistence of the ring in three calls
(`consistent_hash_manager.py:93`) once somebody reads it back without a reload.

Worth proving next: what the worker processes promise of their answers holds in the
end and not always, and the promise about configurations speaks of the time between
two updates only. Abstract specifications of both, which say what a reader of the
keys may conclude at any time, would give the proofs something to stand on.

The number of runs and of checked properties is kept small on purpose: where two
questions fit one instance they share a run, and the parts of a promise share a
property.
