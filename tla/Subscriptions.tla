------------------------------ MODULE Subscriptions ------------------------------
(* The subscription registry of data_services/subscription: the storage with its *)
(* two indexes (models.py), the manager in front of it (subscription_manager.py) *)
(* and the utility that carries legacy tokens over (migration_utils.py).  The     *)
(* only await that suspends is the request for an instrument's metadata: what a   *)
(* call has checked before it may no longer hold when it stores a subscription.   *)
EXTENDS Integers, FiniteSets

CONSTANTS Users,
          Topics,        \* an instrument and a subscription type
          NoTopic,
          InstrumentOf,  \* the instrument_key of each topic
          Subs,          \* bound: subscription ids, never used twice
          Calls,         \* bound: calls of the registry under way together
          Tokens,        \* legacy tokens
          StorageMap, UtilityMap,  \* the topics of the tokens either part knows
          HardLimit,     \* the storage's 100 subscriptions per user
          Limits         \* what max_subscriptions may be set to

Instruments == {InstrumentOf[t] : t \in Topics}
MaxLimit == CHOOSE m \in Limits : \A n \in Limits : n <= m

ASSUME SubscriptionsAssumption ==
    /\ Users # {} /\ NoTopic \notin Topics
    /\ InstrumentOf \in [Topics -> Instruments]
    /\ IsFiniteSet(Subs) /\ IsFiniteSet(Calls) /\ Calls # {}
    /\ DOMAIN StorageMap \subseteq Tokens /\ DOMAIN UtilityMap \subseteq Tokens
    /\ \A k \in DOMAIN StorageMap : StorageMap[k] \in Topics
    /\ \A k \in DOMAIN UtilityMap : UtilityMap[k] \in Topics
    /\ HardLimit \in Nat
    /\ Limits \subseteq Nat /\ Limits # {}
    /\ \E m \in Limits : \A n \in Limits : n <= m

VARIABLES
    status,     \* of each subscription; "unused" before it is created
    owner,      \* its user_id
    topic,      \* its instrument_key and subscription_type
    migrated,   \* migrated_from_token is set
    byUser,     \* _user_subscriptions
    byInstrument, \* _instrument_subscriptions
    limit,      \* max_subscriptions of each user's preferences
    kind,       \* what each call does
    user,       \* for whom
    wanted,     \* the topic whose metadata it waits for
    todo        \* the tokens it has still to carry over

registry == <<status, owner, topic, migrated, byUser, byInstrument>>
call == <<kind, user, wanted, todo>>
vars == <<registry, limit, call>>

TypeOK ==
    /\ status \in [Subs -> {"unused", "active", "cancelled"}]
    /\ owner \in [Subs -> Users]
    /\ topic \in [Subs -> Topics]
    /\ migrated \in [Subs -> BOOLEAN]
    /\ byUser \in [Users -> SUBSET Subs]
    /\ byInstrument \in [Instruments -> SUBSET Subs]
    /\ limit \in [Users -> Limits]
    /\ kind \in [Calls -> {"idle", "subscribe", "bulk", "utility"}]
    /\ user \in [Calls -> Users]
    /\ wanted \in [Calls -> Topics \cup {NoTopic}]
    /\ todo \in [Calls -> SUBSET Tokens]

Init ==
    /\ status = [s \in Subs |-> "unused"]
    /\ owner \in [Subs -> Users] /\ \A s, r \in Subs : owner[s] = owner[r]
    /\ topic \in [Subs -> Topics] /\ \A s, r \in Subs : topic[s] = topic[r]
    /\ migrated = [s \in Subs |-> FALSE]
    /\ byUser = [u \in Users |-> {}]
    /\ byInstrument = [i \in Instruments |-> {}]
    /\ limit = [u \in Users |-> MaxLimit]
    /\ kind = [c \in Calls |-> "idle"]
    /\ user \in [Calls -> Users] /\ \A c, d \in Calls : user[c] = user[d]
    /\ wanted = [c \in Calls |-> NoTopic]
    /\ todo = [c \in Calls |-> {}]
-------------------------------------------------------------------------------
Active(u) == {s \in byUser[u] : status[s] = "active"}
AtLimit(u) == Cardinality(Active(u)) >= limit[u]

\* _find_existing_subscription and _check_existing_subscription look in the
\* user's index only, whatever the status.
Existing(u, t) == {s \in byUser[u] : topic[s] = t}
HasInstrument(u, t) == \E s \in byUser[u] : InstrumentOf[topic[s]] = InstrumentOf[t]

\* Mutant: the user's limit is not looked at.
AdmitUnlimited(c, u, t) ==
    \/ /\ \E s \in Existing(u, t) : status' = [status EXCEPT ![s] = "active"]
       /\ UNCHANGED <<owner, topic, migrated, byUser, byInstrument, wanted>>
    \/ /\ Existing(u, t) = {}
       /\ wanted' = [wanted EXCEPT ![c] = t]
       /\ UNCHANGED registry

\* Mutant: an existing subscription is not looked for.
AdmitAgain(c, u, t) ==
    \/ AtLimit(u) /\ UNCHANGED <<registry, wanted>>
    \/ /\ ~AtLimit(u)
       /\ wanted' = [wanted EXCEPT ![c] = t]
       /\ UNCHANGED registry

\* subscribe(u, t) on behalf of c up to the metadata request: at the limit it
\* raises, an existing subscription is returned and made active.
Admit(c, u, t) ==
    \/ AtLimit(u) /\ UNCHANGED <<registry, wanted>>
    \/ /\ ~AtLimit(u)
       /\ \E s \in Existing(u, t) : status' = [status EXCEPT ![s] = "active"]
       /\ UNCHANGED <<owner, topic, migrated, byUser, byInstrument, wanted>>
    \/ /\ ~AtLimit(u)
       /\ Existing(u, t) = {}
       /\ wanted' = [wanted EXCEPT ![c] = t]
       /\ UNCHANGED registry

Subscribe(c, u, t) ==
    /\ kind[c] = "idle"
    /\ Admit(c, u, t)
    /\ kind' = [kind EXCEPT ![c] = IF wanted'[c] = t THEN "subscribe" ELSE "idle"]
    /\ user' = [user EXCEPT ![c] = u]
    /\ UNCHANGED <<limit, todo>>

\* migrate_user_subscriptions of the manager ("bulk") or of the utility.
Migrate(c, u, k, tokens) ==
    /\ kind[c] = "idle"
    /\ kind' = [kind EXCEPT ![c] = k]
    /\ user' = [user EXCEPT ![c] = u]
    /\ todo' = [todo EXCEPT ![c] = tokens]
    /\ UNCHANGED <<registry, limit, wanted>>

NextToken(c, k) ==
    /\ wanted[c] = NoTopic
    /\ k \in todo[c]
    /\ todo' = [todo EXCEPT ![c] = @ \ {k}]
    /\ UNCHANGED <<limit, kind, user>>

\* The storage creates what it can resolve, without the manager's checks.
BulkNext(c, k) ==
    /\ kind[c] = "bulk"
    /\ NextToken(c, k)
    /\ wanted' = IF k \in DOMAIN StorageMap
                 THEN [wanted EXCEPT ![c] = StorageMap[k]] ELSE wanted
    /\ UNCHANGED registry

\* The utility skips an instrument the user has, and else subscribes.
UtilityNext(c, k) ==
    /\ kind[c] = "utility"
    /\ NextToken(c, k)
    /\ IF k \in DOMAIN UtilityMap /\ ~HasInstrument(user[c], UtilityMap[k])
       THEN Admit(c, user[c], UtilityMap[k])
       ELSE UNCHANGED <<registry, wanted>>

MigrateEnd(c) ==
    /\ kind[c] \in {"bulk", "utility"}
    /\ wanted[c] = NoTopic
    /\ todo[c] = {}
    /\ kind' = [kind EXCEPT ![c] = "idle"]
    /\ UNCHANGED <<registry, limit, user, wanted, todo>>

\* A subscribe call returns or raises, a migration goes on with the next token.
Resume(c) ==
    /\ wanted' = [wanted EXCEPT ![c] = NoTopic]
    /\ kind' = IF kind[c] = "subscribe" THEN [kind EXCEPT ![c] = "idle"] ELSE kind
    /\ UNCHANGED <<limit, user, todo>>

\* Mutant: the storage compares with the limit before it asks for the metadata.
StoreUnchecked(c, s) ==
    /\ wanted[c] # NoTopic
    /\ status[s] = "unused"
    /\ status' = [status EXCEPT ![s] = "active"]
    /\ owner' = [owner EXCEPT ![s] = user[c]]
    /\ topic' = [topic EXCEPT ![s] = wanted[c]]
    /\ migrated' = [migrated EXCEPT ![s] = kind[c] = "bulk"]
    /\ byUser' = [byUser EXCEPT ![user[c]] = @ \cup {s}]
    /\ byInstrument' = [byInstrument EXCEPT ![InstrumentOf[wanted[c]]] = @ \cup {s}]
    /\ Resume(c)

\* The metadata has arrived: create_subscription stores under both indexes.
Store(c, s) ==
    /\ wanted[c] # NoTopic
    /\ Cardinality(byUser[user[c]]) < HardLimit
    /\ status[s] = "unused"
    /\ status' = [status EXCEPT ![s] = "active"]
    /\ owner' = [owner EXCEPT ![s] = user[c]]
    /\ topic' = [topic EXCEPT ![s] = wanted[c]]
    /\ migrated' = [migrated EXCEPT ![s] = kind[c] = "bulk"]
    /\ byUser' = [byUser EXCEPT ![user[c]] = @ \cup {s}]
    /\ byInstrument' = [byInstrument EXCEPT ![InstrumentOf[wanted[c]]] = @ \cup {s}]
    /\ Resume(c)

\* The metadata request failed, or the user is at the hard limit.
StoreFails(c) ==
    /\ wanted[c] # NoTopic
    /\ Resume(c)
    /\ UNCHANGED registry

\* Mutant: only the instrument's index is cleaned.
UnsubscribeHalf(s) ==
    /\ status[s] # "unused"
    /\ status' = [status EXCEPT ![s] = "cancelled"]
    /\ byInstrument' = [byInstrument EXCEPT ![InstrumentOf[topic[s]]] = @ \ {s}]
    /\ UNCHANGED <<owner, topic, migrated, byUser, limit, call>>

\* cancel_subscription by the owner, once or again; by others it raises.
Unsubscribe(s) ==
    /\ status[s] # "unused"
    /\ status' = [status EXCEPT ![s] = "cancelled"]
    /\ byUser' = [byUser EXCEPT ![owner[s]] = @ \ {s}]
    /\ byInstrument' = [byInstrument EXCEPT ![InstrumentOf[topic[s]]] = @ \ {s}]
    /\ UNCHANGED <<owner, topic, migrated, limit, call>>

\* Mutant: the new limit is added to the old one.
UpdatePreferencesAdding(u, n) ==
    /\ limit' = [limit EXCEPT ![u] = @ + n]
    /\ UNCHANGED <<registry, call>>

UpdatePreferences(u, n) ==
    /\ limit' = [limit EXCEPT ![u] = n]
    /\ UNCHANGED <<registry, call>>

Next ==
    \/ \E c \in Calls :
        \/ \E u \in Users, t \in Topics : Subscribe(c, u, t)
        \/ \E u \in Users, k \in {"bulk", "utility"}, tokens \in SUBSET Tokens :
            Migrate(c, u, k, tokens)
        \/ \E k \in Tokens : BulkNext(c, k) \/ UtilityNext(c, k)
        \/ MigrateEnd(c)
        \/ \E s \in Subs : Store(c, s)
        \/ StoreFails(c)
    \/ \E s \in Subs : Unsubscribe(s)
    \/ \E u \in Users, n \in Limits : UpdatePreferences(u, n)

Spec == Init /\ [][Next]_vars
-------------------------------------------------------------------------------
(* Properties.                                                                    *)

\* A subscription is in its user's index and in its instrument's index exactly
\* while it is active, and in no other index: creations that were under way
\* during cancellations, repeated cancellations and the reactivation in subscribe
\* never make the three disagree.
IndexesAgree ==
    \A s \in Subs :
        /\ \A u \in Users : s \in byUser[u] <=> (status[s] = "active" /\ owner[s] = u)
        /\ \A i \in Instruments :
            s \in byInstrument[i] <=> (status[s] = "active" /\ InstrumentOf[topic[s]] = i)

\* No user has more than the hard limit, however many calls were admitted below
\* it before they waited for metadata.
WithinHardLimit == \A u \in Users : Cardinality(byUser[u]) <= HardLimit

\* The user's own limit is checked before the wait and may be passed, but by no more
\* subscriptions than there are other calls under way: whatever adds to what a user
\* holds or waits for, it leaves that within this bound over the limit the user has
\* then, also one that was lowered while calls waited or below what is held already.
\* Only the bulk migration ignores the limit altogether.
InFlight(u) == {c \in Calls : wanted[c] # NoTopic /\ user[c] = u /\ kind[c] # "bulk"}
Subscribed(u) == {s \in byUser[u] : ~migrated[s]}
Held(u) == Cardinality(Subscribed(u)) + Cardinality(InFlight(u))
OvershootBounded ==
    [][\A u \in Users :
        Held(u)' > Held(u) => Held(u)' <= limit[u] - 1 + Cardinality(Calls)]_vars

\* The two limits: whatever overlaps, the hard one holds, and the user's own is passed
\* by no more than the calls under way.
LimitsBounded == []WithinHardLimit /\ OvershootBounded

\* A user has the same topic twice only through calls that overlapped or through
\* the bulk migration: subscribing again after a call has ended adds none.
InFlightFor(u, t) == {c \in InFlight(u) : wanted[c] = t}
SubscribedTo(u, t) == {s \in Subscribed(u) : topic[s] = t}
DuplicatesBounded ==
    \A u \in Users, t \in Topics :
        Cardinality(SubscribedTo(u, t)) + Cardinality(InFlightFor(u, t))
            <= Cardinality(Calls)
===============================================================================
