------------------------------ MODULE Entitlements ------------------------------
(***************************************************************************)
(* The entitlements of one user (app/services/                             *)
(* unified_entitlement_service.py): what the marketplace says of the user  *)
(* is cached, requests of the protected API and subscriptions to streams   *)
(* are counted in Redis, and the clients that subscribe are listed there.  *)
(*                                                                         *)
(* Every call of the marketplace and of Redis suspends the request, and a  *)
(* counter is read in one call and written in the next.  Some tiers may    *)
(* use the API; any known user may subscribe (public streams).  The limits *)
(* are those of the tier the request was told, and fall with it; a tier    *)
(* that is not known has those of the free one.                            *)
(***************************************************************************)
EXTENDS Integers, FiniteSets

CONSTANTS Calls,           \* requests in flight
          Clients,         \* client identifiers of the user
          UserTiers,
          FreeTier,        \* the lowest of them
          ApiTiers,        \* those that may use the API
          AccessLimit,     \* requests and subscriptions in a window, by tier and kind
          RateWindow,      \* expiry of a counter, in ticks
          MaxConnections,  \* max_concurrent_connections, by tier
          CacheTTL,        \* _cache_ttl, in ticks
          Flight           \* ticks an answer of the marketplace may take

KindsOfAccess == {"api", "stream"}
NoExpiry == -1
Forgotten == CacheTTL + Flight

ASSUME EntitlementAssumption ==
    /\ FreeTier \in UserTiers /\ ApiTiers \subseteq UserTiers
    /\ AccessLimit \in [UserTiers -> [KindsOfAccess -> Nat \ {0}]]
    /\ MaxConnections \in [UserTiers -> Nat \ {0}]
    /\ \A t \in UserTiers : /\ MaxConnections[FreeTier] <= MaxConnections[t]
                            /\ \A k \in KindsOfAccess : AccessLimit[FreeTier][k] <= AccessLimit[t][k]
    /\ {RateWindow, CacheTTL} \subseteq Nat \ {0}
    /\ Flight \in Nat
    /\ IsFiniteSet(Calls)

VARIABLES
    userTier,      \* what the marketplace would answer
    cachedTier,    \* what it answered last
    cacheAge,      \* ticks since that was cached; CacheTTL when too old, or never
    access,        \* what a request is doing
    used,          \* the counter of a kind, 0 when there is none
    expiry,        \* ticks left to it, or NoExpiry
    listed,        \* clients in the set of connections
    sinceTier,     \* history: ticks since the user was of a tier, up to Forgotten
    countedFor,    \* history: the highest tier told to those a counter counts
    listedFor      \* history: and to those who made the list longer

tierVars == <<userTier, cachedTier, cacheAge, sinceTier>>
redisVars == <<used, expiry, listed, countedFor, listedFor>>
accessVars == <<userTier, cachedTier, cacheAge, access, used, expiry, listed,
                sinceTier, countedFor, listedFor>>

Waits == {"idle", "fetch", "arriving", "connections", "count", "create", "increase",
          "list"}
IdleRequest == [at |-> "idle", kind |-> "api", tier |-> FreeTier, age |-> 0]

AccessTypeOK ==
    /\ {userTier, cachedTier, listedFor} \subseteq UserTiers
    /\ cacheAge \in 0 .. CacheTTL
    /\ access \in [Calls -> [at : Waits, kind : KindsOfAccess, tier : UserTiers, age : 0 .. Flight]]
    /\ \A r \in Calls : access[r].at \in {"connections", "list"} => access[r].kind = "stream"
    /\ used \in [KindsOfAccess -> Nat] /\ expiry \in [KindsOfAccess -> {NoExpiry} \cup (0 .. RateWindow)]
    /\ \A k \in KindsOfAccess : used[k] = 0 <=> expiry[k] = 0
    /\ listed \subseteq Clients
    /\ sinceTier \in [UserTiers -> 0 .. Forgotten]
    /\ countedFor \in [KindsOfAccess -> UserTiers]

AccessInit ==
    /\ userTier \in UserTiers
    /\ cachedTier = FreeTier /\ cacheAge = CacheTTL
    /\ access = [r \in Calls |-> IdleRequest]
    /\ used = [k \in KindsOfAccess |-> 0]
    /\ expiry = [k \in KindsOfAccess |-> 0]
    /\ listed = {}
    /\ sinceTier = [t \in UserTiers |-> IF t = userTier THEN 0 ELSE Forgotten]
    /\ countedFor = [k \in KindsOfAccess |-> FreeTier]
    /\ listedFor = FreeTier

GoesTo(r, stage) == access' = [access EXCEPT ![r] =
    IF stage = "idle" THEN IdleRequest ELSE [@ EXCEPT !.at = stage, !.age = 0]]

-----------------------------------------------------------------------------
(* The environment: the user's tier changes, time passes, the set of       *)
(* connections expires when nobody was admitted for an hour.               *)

TierChanges ==
    /\ \E t \in UserTiers \ {userTier} :
          /\ userTier' = t
          /\ sinceTier' = [sinceTier EXCEPT ![t] = 0]
    /\ UNCHANGED <<cachedTier, cacheAge, access, redisVars>>

AccessTick ==
    /\ \A r \in Calls : access[r].at = "arriving" => access[r].age < Flight
    /\ cacheAge' = IF cacheAge = CacheTTL THEN CacheTTL ELSE cacheAge + 1
    /\ access' = [r \in Calls |->
          IF access[r].at = "arriving" THEN [access[r] EXCEPT !.age = @ + 1] ELSE access[r]]
    /\ expiry' = [k \in KindsOfAccess |-> IF expiry[k] > 0 THEN expiry[k] - 1 ELSE expiry[k]]
    /\ used' = [k \in KindsOfAccess |-> IF expiry[k] = 1 THEN 0 ELSE used[k]]
    /\ countedFor' = [k \in KindsOfAccess |-> IF expiry[k] = 1 THEN FreeTier ELSE countedFor[k]]
    /\ sinceTier' = [t \in UserTiers |->
          IF t = userTier \/ sinceTier[t] = Forgotten THEN sinceTier[t] ELSE sinceTier[t] + 1]
    /\ UNCHANGED <<userTier, cachedTier, listed, listedFor>>

ConnectionsExpire ==
    /\ listed # {}
    /\ listed' = {} /\ listedFor' = FreeTier
    /\ UNCHANGED <<tierVars, access, used, expiry, countedFor>>

-----------------------------------------------------------------------------
(* Who the user is.                                                        *)

\* The API asks for a premium tier; a stream goes on to the connections.
Next1(kind, t) ==
    IF kind = "stream" THEN "connections" ELSE IF t \in ApiTiers THEN "count" ELSE "idle"

\* A request of a kind whose tier is known.
Told(kind, t) ==
    IF Next1(kind, t) = "idle" THEN IdleRequest
    ELSE [IdleRequest EXCEPT !.at = Next1(kind, t), !.kind = kind, !.tier = t]

CheckAccess(r, kind) ==
    /\ access[r].at = "idle"
    /\ access' = [access EXCEPT ![r] =
          IF cacheAge < CacheTTL THEN Told(kind, cachedTier)
          ELSE [IdleRequest EXCEPT !.at = "fetch", !.kind = kind]]
    /\ UNCHANGED <<tierVars, redisVars>>

MarketplaceAnswers(r) ==
    /\ access[r].at = "fetch"
    /\ access' = [access EXCEPT ![r].at = "arriving", ![r].tier = userTier]
    /\ UNCHANGED <<tierVars, redisVars>>

\* Several requests may have asked; the last answer to arrive is the one kept.
AnswerArrives(r) ==
    /\ access[r].at = "arriving"
    /\ cachedTier' = access[r].tier
    /\ cacheAge' = 0
    /\ access' = [access EXCEPT ![r] = Told(access[r].kind, access[r].tier)]
    /\ UNCHANGED <<userTier, sinceTier, redisVars>>

\* Mutant: without an answer the user keeps what the cache said last.
FetchFailsOpen(r) ==
    /\ access[r].at \in {"fetch", "arriving"}
    /\ access' = [access EXCEPT ![r] = Told(access[r].kind, cachedTier)]
    /\ UNCHANGED <<tierVars, redisVars>>

\* No answer, or no answer of use: the request is denied and nothing is cached.
FetchFails(r) ==
    /\ access[r].at \in {"fetch", "arriving"}
    /\ GoesTo(r, "idle")
    /\ UNCHANGED <<tierVars, redisVars>>

-----------------------------------------------------------------------------
(* How much the user may do.                                               *)

\* Mutant: the clients are counted after this one is added.
RoomForOneMore(t) == Cardinality(listed) <= MaxConnections[t]

RoomForClient(t) == Cardinality(listed) < MaxConnections[t]

CheckConnections(r) ==
    /\ access[r].at = "connections"
    /\ GoesTo(r, IF RoomForClient(access[r].tier) THEN "count" ELSE "idle")
    /\ UNCHANGED <<tierVars, redisVars>>

\* Mutant: the request that reaches the limit is let through.
BelowLimitLate(k, t) == used[k] <= AccessLimit[t][k]

\* Mutant: the limits of the best tier for everybody.
BelowAnyLimit(k, t) == \E any \in UserTiers : used[k] < AccessLimit[any][k]

BelowLimit(k, t) == used[k] < AccessLimit[t][k]

ReadCounter(r) ==
    LET k == access[r].kind
    IN  /\ access[r].at = "count"
        /\ GoesTo(r, IF used[k] = 0 THEN "create"
                     ELSE IF BelowLimit(k, access[r].tier) THEN "increase" ELSE "idle")
        /\ UNCHANGED <<tierVars, redisVars>>

\* Mutant: every request is listed as a connection.
AfterCounterAll(kind) == "list"

AfterCounter(kind) == IF kind = "stream" THEN "list" ELSE "idle"

\* SETEX replaces what others have counted since; INCR makes a counter that has
\* expired anew, without an expiry.
WriteCounter(r) ==
    LET k == access[r].kind
        t == access[r].tier
    IN  /\ \/ /\ access[r].at = "create"
              /\ used' = [used EXCEPT ![k] = 1]
              /\ expiry' = [expiry EXCEPT ![k] = RateWindow]
              /\ countedFor' = [countedFor EXCEPT ![k] = t]
           \/ /\ access[r].at = "increase"
              /\ used' = [used EXCEPT ![k] = @ + 1]
              /\ expiry' = [expiry EXCEPT ![k] = IF @ = 0 THEN NoExpiry ELSE @]
              /\ countedFor' = [countedFor EXCEPT ![k] =
                    IF AccessLimit[@][k] < AccessLimit[t][k] THEN t ELSE @]
        /\ GoesTo(r, AfterCounter(k))
        /\ UNCHANGED <<tierVars, listed, listedFor>>

AddConnection(r, c) ==
    /\ access[r].at = "list"
    /\ listed' = listed \cup {c}
    /\ listedFor' = IF c \notin listed /\ MaxConnections[listedFor] < MaxConnections[access[r].tier]
                    THEN access[r].tier ELSE listedFor
    /\ GoesTo(r, "idle")
    /\ UNCHANGED <<tierVars, used, expiry, countedFor>>

\* When Redis fails the request is allowed, counted or not.
CounterFails(r) ==
    /\ access[r].at \in {"connections", "count", "create", "increase", "list"}
    /\ GoesTo(r, "idle")
    /\ UNCHANGED <<tierVars, redisVars>>

AccessNext ==
    \/ TierChanges \/ AccessTick \/ ConnectionsExpire
    \/ \E r \in Calls :
          \/ \E kind \in KindsOfAccess : CheckAccess(r, kind)
          \/ MarketplaceAnswers(r) \/ AnswerArrives(r) \/ FetchFails(r)
          \/ CheckConnections(r) \/ ReadCounter(r) \/ WriteCounter(r)
          \/ \E c \in Clients : AddConnection(r, c)
          \/ CounterFails(r)

AccessSpec == AccessInit /\ [][AccessNext]_accessVars

-----------------------------------------------------------------------------
(* Properties.                                                             *)

\* A tier that was given up opens the API, and lends its limits, for no longer than the
\* cache keeps it and one answer takes to arrive, even when an older answer arrives
\* after a newer one.
RevokedInTime ==
    [][\A r \in Calls :
          (access[r].at \notin {"connections", "count"} /\ access'[r].at \in {"connections", "count"})
              => sinceTier[access'[r].tier] < Forgotten]_accessVars

\* A counter passes the limit of the highest tier told to those it counts by no more
\* than the requests that overlapped when they read it, less the one that was right
\* to read it.  It counts who wrote it since the last SETEX, which forgets the others,
\* and stays as it is when the tier and its limits fall.
CountedInTime ==
    \A k \in KindsOfAccess : used[k] < AccessLimit[countedFor[k]][k] + Cardinality(Calls)

\* The list of connections passes the limit of the highest tier told to those in it by
\* no more than the subscriptions that overlapped.
ConnectionsInBounds == Cardinality(listed) < MaxConnections[listedFor] + Cardinality(Calls)

\* What the entitlements promise: access and limits end with the tier, and the limits
\* hold up to the requests that overlap.
AccessPromise ==
    /\ [](AccessTypeOK /\ CountedInTime /\ ConnectionsInBounds)
    /\ RevokedInTime
=============================================================================
