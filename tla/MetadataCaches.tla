------------------------------ MODULE MetadataCaches ------------------------------
(***************************************************************************)
(* The metadata that responses are enriched with passes three caches: that *)
(* of the middleware (app/middleware/metadata_enrichment.py), of the client*)
(* it asks (app/sdk/instrument_client.py) and of the registry's client     *)
(* below (app/clients/instrument_registry_client.py).  A failure is        *)
(* answered with a stand-in that the outer cache keeps like an answer, and *)
(* the innermost keeps also that the registry does not know an instrument. *)
(*                                                                         *)
(* An item is known by its age: since the request was sent that brought it,*)
(* or since the failure it stands in for.  The registry answers or fails   *)
(* within RegistryTime.  Ages stop one beyond the last that matters.  The  *)
(* keys of a response are a set; they are asked for and set in any order,  *)
(* without another coroutine between two steps that do not ask.            *)
(***************************************************************************)
EXTENDS Integers, FiniteSets

CONSTANTS Enrichable, Enrichers,   \* requests to enrich in flight
          MaxCacheSize,            \* max_size
          OuterTTL, InnerTTL,      \* cache_ttl_seconds, _cache_ttl
          RegistryTTL,             \* SIGNAL_REGISTRY_CACHE_TTL_SECONDS
          RegistryTime             \* longest answer

ASSUME MetadataAssumption ==
    /\ {MaxCacheSize, OuterTTL, InnerTTL, RegistryTTL, RegistryTime} \subseteq Nat \ {0}
    /\ IsFiniteSet(Enrichable)

VARIABLES
    registered, \* cache of the registry's client
    inner,      \* _cache of the SDK's client
    outer,      \* _cache and _timestamps of the middleware
    enricher,   \* keys_to_fetch and the key asked for
    fetched     \* metadata_map of _fetch_metadata_from_registry

metadataVars == <<registered, inner, outer, enricher, fetched>>

Oldest == RegistryTTL + InnerTTL + OuterTTL + Cardinality(Enrichable) * RegistryTime
Items == [what : {"metadata", "unknown", "failed"}, age : 0 .. Oldest + 1]
KeptItems(kept) == [item : Items, kept : kept]
Requests == [at : {"idle", "running", "waiting"}, wanted : SUBSET Enrichable,
             asked : SUBSET Enrichable, waited : 0 .. RegistryTime]

KeepsIn(cache, values) == DOMAIN cache \subseteq Enrichable /\ cache \in [DOMAIN cache -> values]

MetadataTypeOK ==
    /\ KeepsIn(registered, KeptItems(0 .. RegistryTTL - 1))
    /\ KeepsIn(inner, KeptItems(0 .. InnerTTL - 1))
    /\ KeepsIn(outer, KeptItems(0 .. OuterTTL + 1))
    /\ enricher \in [Enrichers -> Requests]
    /\ DOMAIN fetched = Enrichers /\ \A e \in Enrichers : KeepsIn(fetched[e], Items)

NoRequest == [at |-> "idle", wanted |-> {}, asked |-> {}, waited |-> 0]

MetadataInit ==
    /\ registered = <<>>
    /\ inner = <<>>
    /\ outer = <<>>
    /\ enricher = [e \in Enrichers |-> NoRequest]
    /\ fetched = [e \in Enrichers |-> <<>>]

Without(f, keys) == [k \in DOMAIN f \ keys |-> f[k]]
With(f, k, v) == [x \in DOMAIN f \cup {k} |-> IF x = k THEN v ELSE f[x]]

\* Everybody has left the loop: nothing is in the middle of its keys.
NobodyRuns == \A e \in Enrichers : enricher[e].at # "running"

-----------------------------------------------------------------------------
(* The outer cache.                                                        *)

Expired(cache) == {k \in DOMAIN cache : cache[k].kept > OuterTTL}
Eldest(cache) == {k \in DOMAIN cache : \A m \in DOMAIN cache : cache[k].kept >= cache[m].kept}

\* Mutant: a full cache makes room when it is more than full.
RoomBeyond(cache, k) ==
    IF Cardinality(DOMAIN cache) > MaxCacheSize /\ k \notin DOMAIN cache
    THEN {Without(cache, {m}) : m \in Eldest(cache)} ELSE {cache}

\* What is left of a cache before k is set: what was set first makes room.
RoomFor(cache, k) ==
    IF Cardinality(DOMAIN cache) >= MaxCacheSize /\ k \notin DOMAIN cache
    THEN {Without(cache, {m}) : m \in Eldest(cache)} ELSE {cache}

\* Mutant: what is found is as good as new.
FoundRenewed(batch) == [k \in DOMAIN outer |-> IF k \in batch THEN [outer[k] EXCEPT !.kept = 0] ELSE outer[k]]

\* What get leaves when it has looked for a batch.
Found(batch) == Without(outer, Expired(outer) \cap batch)

ClearMetadata ==
    /\ NobodyRuns
    /\ outer' = <<>>
    /\ UNCHANGED <<registered, inner, enricher, fetched>>

-----------------------------------------------------------------------------
(* A request.                                                              *)

Proceeds(e, wanted, got) ==
    /\ enricher' = [enricher EXCEPT ![e] =
           IF wanted = {} /\ got = <<>> THEN NoRequest
           ELSE [at |-> "running", wanted |-> wanted, asked |-> {}, waited |-> 0]]
    /\ fetched' = [fetched EXCEPT ![e] = got]

EnrichResponse(e, batch) ==
    /\ NobodyRuns /\ enricher[e].at = "idle"
    /\ outer' = Found(batch)
    /\ Proceeds(e, batch \ DOMAIN Found(batch), <<>>)
    /\ UNCHANGED <<registered, inner>>

\* The request is given item for k; the SDK's client keeps metadata only.
Brings(e, k, item) ==
    /\ inner' = IF item.what = "metadata" THEN With(inner, k, [item |-> item, kept |-> 0]) ELSE inner
    /\ Proceeds(e, enricher[e].wanted \ {k}, With(fetched[e], k, item))
    /\ UNCHANGED outer

InnerKnows(e, k) ==
    /\ enricher[e].at = "running" /\ k \in enricher[e].wanted
    /\ k \in DOMAIN inner
    /\ Proceeds(e, enricher[e].wanted \ {k}, With(fetched[e], k, inner[k].item))
    /\ UNCHANGED <<registered, inner, outer>>

\* Mutant: what the registry's client knows is as good as new.
RegistryKnowsRenewed(e, k) ==
    /\ enricher[e].at = "running" /\ k \in enricher[e].wanted
    /\ k \in DOMAIN registered \ DOMAIN inner
    /\ Brings(e, k, registered[k].item)
    /\ registered' = [registered EXCEPT ![k].kept = 0]

RegistryKnows(e, k) ==
    /\ enricher[e].at = "running" /\ k \in enricher[e].wanted
    /\ k \in DOMAIN registered \ DOMAIN inner
    /\ Brings(e, k, registered[k].item)
    /\ UNCHANGED registered

AsksRegistry(e, k) ==
    /\ enricher[e].at = "running" /\ k \in enricher[e].wanted
    /\ k \notin DOMAIN registered \cup DOMAIN inner
    /\ enricher' = [enricher EXCEPT ![e] =
           [at |-> "waiting", wanted |-> @.wanted, asked |-> {k}, waited |-> 0]]
    /\ UNCHANGED <<registered, inner, outer, fetched>>

Waits(e, k) == NobodyRuns /\ enricher[e].at = "waiting" /\ k \in enricher[e].asked

RegistryAnswers(e, k) ==
    /\ Waits(e, k)
    /\ \E what \in {"metadata", "unknown"} :
          LET item == [what |-> what, age |-> enricher[e].waited]
          IN  /\ registered' = With(registered, k, [item |-> item, kept |-> 0])
              /\ Brings(e, k, item)

RegistryFails(e, k) ==
    /\ Waits(e, k)
    /\ Brings(e, k, [what |-> "failed", age |-> 0])
    /\ UNCHANGED registered

\* The call raised, and another request has brought an answer meanwhile.
FallsBack(e, k) ==
    /\ Waits(e, k)
    /\ k \in DOMAIN registered
    /\ Brings(e, k, registered[k].item)
    /\ UNCHANGED registered

SetsFetched(e, k) ==
    /\ enricher[e].at = "running" /\ enricher[e].wanted = {} /\ k \in DOMAIN fetched[e]
    /\ \E room \in RoomFor(outer, k) :
          outer' = With(room, k, [item |-> fetched[e][k], kept |-> 0])
    /\ Proceeds(e, {}, Without(fetched[e], {k}))
    /\ UNCHANGED <<registered, inner>>

OlderItem(item) == [item EXCEPT !.age = IF @ <= Oldest THEN @ + 1 ELSE @]
OlderEntry(entry) == [item |-> OlderItem(entry.item), kept |-> entry.kept + 1]

\* An entry of a client's that has expired is as good as none.
OlderThan(cache, ttl) ==
    [k \in {i \in DOMAIN cache : cache[i].kept + 1 < ttl} |-> OlderEntry(cache[k])]

MetadataTick ==
    /\ NobodyRuns
    /\ \A e \in Enrichers : enricher[e].waited < RegistryTime
    /\ registered' = OlderThan(registered, RegistryTTL)
    /\ inner' = OlderThan(inner, InnerTTL)
    /\ outer' = [k \in DOMAIN outer |->
                    IF outer[k].kept <= OuterTTL THEN OlderEntry(outer[k]) ELSE outer[k]]
    /\ enricher' = [e \in Enrichers |->
                       IF enricher[e].at = "idle" THEN enricher[e]
                       ELSE [enricher[e] EXCEPT !.waited = @ + 1]]
    /\ fetched' = [e \in Enrichers |-> [k \in DOMAIN fetched[e] |-> OlderItem(fetched[e][k])]]

MetadataNext ==
    \/ \E e \in Enrichers :
          \/ \E batch \in SUBSET Enrichable : EnrichResponse(e, batch)
          \/ \E k \in Enrichable :
                \/ InnerKnows(e, k) \/ RegistryKnows(e, k) \/ AsksRegistry(e, k)
                \/ RegistryAnswers(e, k) \/ RegistryFails(e, k) \/ FallsBack(e, k)
                \/ SetsFetched(e, k)
    \/ ClearMetadata
    \/ MetadataTick

MetadataSpec == MetadataInit /\ [][MetadataNext]_metadataVars

-----------------------------------------------------------------------------
(* Properties.                                                             *)

\* What the next response is given.
Given == {outer[k].item : k \in {i \in DOMAIN outer : outer[i].kept <= OuterTTL}}

\* The ages of three caches add up, with the waits of the requests of a batch: what the
\* registry said is given out no longer than that after it said it.
StaleMetadataIsBounded == \A item \in Given : item.what # "failed" => item.age <= Oldest

\* A stand-in is given out no longer than the outer cache keeps it and the rest of its
\* batch waits after the failure, although it may have overwritten a good answer.
StandInIsShort ==
    \A item \in Given :
        item.what = "failed" => item.age <= OuterTTL + (Cardinality(Enrichable) - 1) * RegistryTime

\* Requests that set what they fetched in any order do not outgrow the cache.
CacheInBounds == Cardinality(DOMAIN outer) <= MaxCacheSize

\* What the caches promise a response: neither old metadata nor a stand-in outlives the
\* sum of what may delay it, and the memory is bounded.
MetadataPromise ==
    /\ MetadataTypeOK
    /\ StaleMetadataIsBounded
    /\ StandInIsShort
    /\ CacheInBounds
=============================================================================
