------------------------------ MODULE GreeksCache ------------------------------
(***************************************************************************)
(* The cached Greeks of one instrument (app/services/                      *)
(* greeks_cache_manager.py and registry_integration_service.py): updates   *)
(* of the instrument, rebalances of its chain and events of the registry   *)
(* read the market, compute and write the same key, each with its own      *)
(* expiry, and a computation that began earlier may be stored later.       *)
(*                                                                         *)
(* Only the registry's entry says which market it was computed from, so    *)
(* only that one can be seen to be off the spot; the others go by age.     *)
(* Two spots differ by more than the threshold.  The feed writes the       *)
(* market data, which both kinds of keys hold.                             *)
(***************************************************************************)
EXTENDS Integers, FiniteSetsExt

CONSTANTS Updaters,   \* updates and rebalances in flight
          Spots,
          LiveTTL,    \* cache_ttls["live_greeks"], in ticks
          LongTTL,    \* of a bulk result and of the registry's
          Flight,     \* ticks from reading the market to the stored result
          NoGreeks

ASSUME GreeksCacheAssumption ==
    /\ {LiveTTL, LongTTL} \subseteq Nat \ {0} /\ LiveTTL < LongTTL
    /\ Flight \in Nat

VARIABLES
    spot,          \* spot_price of the market data
    cachedGreeks,  \* the cached entry: its spot, whether it says so, age and expiry
    updater,       \* what an update is doing, and with which spot
    registry,      \* what the registry's handler is doing
    sinceMove      \* history: ticks since the spot moved, up to LongestTTL

greeksVars == <<spot, cachedGreeks, updater, registry, sinceMove>>

LongestTTL == LongTTL + Flight + 1
TaskStages == {"idle", "decide", "invalidate", "fetch", "compute"}
QuietTask == [at |-> "idle", spot |-> CHOOSE s \in Spots : TRUE, bulk |-> FALSE, age |-> 0]

TaskType == [at : TaskStages, spot : Spots, bulk : BOOLEAN, age : 0 .. Flight]

GreeksTypeOK ==
    /\ spot \in Spots
    /\ cachedGreeks \in {NoGreeks} \cup
          [spot : Spots, known : BOOLEAN, age : 0 .. LongTTL, ttl : {LiveTTL, LongTTL}]
    /\ cachedGreeks # NoGreeks =>
          /\ cachedGreeks.age < cachedGreeks.ttl
          /\ cachedGreeks.known => cachedGreeks.ttl = LongTTL
    /\ updater \in [Updaters -> TaskType]
    /\ \A u \in Updaters : updater[u].at # "invalidate"
    /\ registry \in TaskType /\ registry.at # "decide"
    /\ sinceMove \in 0 .. LongestTTL

GreeksInit ==
    /\ spot \in Spots
    /\ cachedGreeks = NoGreeks
    /\ updater = [u \in Updaters |-> QuietTask]
    /\ registry = QuietTask
    /\ sinceMove = LongestTTL

-----------------------------------------------------------------------------
(* The environment.                                                        *)

SpotMoves(s) ==
    /\ s # spot
    /\ spot' = s
    /\ sinceMove' = 0
    /\ UNCHANGED <<cachedGreeks, updater, registry>>

Older(task) == IF task.at = "compute" THEN [task EXCEPT !.age = @ + 1] ELSE task
InTime(task) == task.at = "compute" => task.age < Flight

\* Redis drops the entry when its time has come.
GreeksTick ==
    /\ InTime(registry) /\ \A u \in Updaters : InTime(updater[u])
    /\ \A u \in Updaters : updater[u].at # "decide"
    /\ cachedGreeks' = IF cachedGreeks = NoGreeks \/ cachedGreeks.age + 1 >= cachedGreeks.ttl
                 THEN NoGreeks
                 ELSE [cachedGreeks EXCEPT !.age = @ + 1]
    /\ updater' = [u \in Updaters |-> Older(updater[u])]
    /\ registry' = Older(registry)
    /\ sinceMove' = Min({sinceMove + 1, LongestTTL})
    /\ UNCHANGED spot

-----------------------------------------------------------------------------
(* Updates and rebalances.                                                 *)

\* An update comes with the market data of the moment.
HandleInstrumentUpdate(u) ==
    /\ updater[u].at = "idle"
    /\ updater' = [updater EXCEPT ![u] = [QuietTask EXCEPT !.at = "decide", !.spot = spot]]
    /\ UNCHANGED <<spot, cachedGreeks, registry, sinceMove>>

\* More than five instruments are computed in bulk, fewer one after the other.
HandleChainRebalance(u, bulk) ==
    /\ updater[u].at = "idle"
    /\ updater' = [updater EXCEPT ![u] = [QuietTask EXCEPT !.at = "fetch", !.bulk = bulk]]
    /\ UNCHANGED <<spot, cachedGreeks, registry, sinceMove>>

\* Mutant: an entry that is there is good until it expires.
ShouldNotAge(entry, s) == entry = NoGreeks \/ (entry.known /\ entry.spot # s)

ShouldRecalculate(entry, s) ==
    \/ entry = NoGreeks
    \/ entry.known /\ entry.spot # s
    \/ entry.age > LiveTTL

\* urgent: the expiry is near, the delta moved, or the entry could not be read.  The
\* selective invalidation that follows deletes other keys, never this one.
Decide(u, urgent) ==
    /\ updater[u].at = "decide"
    /\ updater' = [updater EXCEPT ![u] =
          IF urgent \/ ShouldRecalculate(cachedGreeks, @.spot) THEN [@ EXCEPT !.at = "fetch"]
          ELSE QuietTask]
    /\ UNCHANGED <<spot, cachedGreeks, registry, sinceMove>>

FetchMarket(u) ==
    /\ updater[u].at = "fetch"
    /\ updater' = [updater EXCEPT ![u] = [@ EXCEPT !.at = "compute", !.spot = spot]]
    /\ UNCHANGED <<spot, cachedGreeks, registry, sinceMove>>

\* Mutant: a bulk result is kept until somebody replaces it.
StoreForGood(task, knows) ==
    cachedGreeks' = [spot |-> task.spot, known |-> knows, age |-> 0,
               ttl |-> IF task.bulk \/ knows THEN LongTTL + LongestTTL ELSE LiveTTL]

\* Mutant: what the registry computed is kept no longer than a live result.
StoreByKind(task, knows) ==
    cachedGreeks' = [spot |-> task.spot, known |-> knows, age |-> 0,
               ttl |-> IF task.bulk THEN LongTTL ELSE LiveTTL]

Store(task, knows) ==
    cachedGreeks' = [spot |-> task.spot, known |-> knows, age |-> 0,
               ttl |-> IF task.bulk \/ knows THEN LongTTL ELSE LiveTTL]

CacheResult(u) ==
    /\ updater[u].at = "compute"
    /\ Store(updater[u], FALSE)
    /\ updater' = [updater EXCEPT ![u] = QuietTask]
    /\ UNCHANGED <<spot, registry, sinceMove>>

\* No market data, a computation that raises, a failure of Redis.
RecalculationFails(u) ==
    /\ updater[u].at \in {"fetch", "compute"}
    /\ updater' = [updater EXCEPT ![u] = QuietTask]
    /\ UNCHANGED <<spot, cachedGreeks, registry, sinceMove>>

-----------------------------------------------------------------------------
(* The registry's events, handled one after the other.                     *)

RegistryEvent ==
    /\ registry.at = "idle"
    /\ registry' = [registry EXCEPT !.at = "invalidate"]
    /\ UNCHANGED <<spot, cachedGreeks, updater, sinceMove>>

\* When Redis fails the entry stays, and the recalculation follows all the same.
InvalidateCaches(fails) ==
    /\ registry.at = "invalidate"
    /\ cachedGreeks' = IF fails THEN cachedGreeks ELSE NoGreeks
    /\ registry' = [registry EXCEPT !.at = "fetch"]
    /\ UNCHANGED <<spot, updater, sinceMove>>

ReadMarket ==
    /\ registry.at = "fetch"
    /\ registry' = [registry EXCEPT !.at = "compute", !.spot = spot]
    /\ UNCHANGED <<spot, cachedGreeks, updater, sinceMove>>

StoreLatest ==
    /\ registry.at = "compute"
    /\ Store(registry, TRUE)
    /\ registry' = QuietTask
    /\ UNCHANGED <<spot, updater, sinceMove>>

RegistryFails ==
    /\ registry.at \in {"fetch", "compute"}
    /\ registry' = QuietTask
    /\ UNCHANGED <<spot, cachedGreeks, updater, sinceMove>>

GreeksNext ==
    \/ \E s \in Spots : SpotMoves(s)
    \/ GreeksTick
    \/ \E u \in Updaters :
          \/ HandleInstrumentUpdate(u)
          \/ \E bulk \in BOOLEAN : HandleChainRebalance(u, bulk)
          \/ \E urgent \in BOOLEAN : Decide(u, urgent)
          \/ FetchMarket(u) \/ CacheResult(u) \/ RecalculationFails(u)
    \/ RegistryEvent \/ ReadMarket \/ StoreLatest \/ RegistryFails
    \/ \E fails \in BOOLEAN : InvalidateCaches(fails)

GreeksSpec == GreeksInit /\ [][GreeksNext]_greeksVars

-----------------------------------------------------------------------------
(* Properties.                                                             *)

\* An update that finds the cached Greeks good enough is never off the spot it was
\* told of, except when the spot moved within the life of a fresh entry and the time
\* a computation takes, whichever of the writers wrote last.
AcceptedInTime ==
    [][\A u \in Updaters :
          (/\ updater[u].at = "decide" /\ updater'[u].at = "idle"
           /\ cachedGreeks.spot # updater[u].spot)
              => sinceMove <= LiveTTL + Flight]_greeksVars

\* Nobody need ask: once the spot has rested for the longest expiry and the time of a
\* computation, no Greeks of an older spot are left in the cache.
StaleIsBounded ==
    sinceMove = LongestTTL /\ cachedGreeks # NoGreeks => cachedGreeks.spot = spot

\* What the cache promises its readers: Greeks of another spot are used, and kept, for a
\* bounded time.
GreeksPromise ==
    /\ [](GreeksTypeOK /\ StaleIsBounded)
    /\ AcceptedInTime
==============================================================================
