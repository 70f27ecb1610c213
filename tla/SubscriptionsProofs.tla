--------------------------- MODULE SubscriptionsProofs ---------------------------
(* Proofs about Subscriptions, for any users, topics, tokens, limits and number   *)
(* of calls under way together.  The agreement of the indexes is inductive with   *)
(* the types; the bounds on overlapping calls follow from it, because it makes    *)
(* what a user is subscribed to the same as what the limit counts.                *)
EXTENDS Subscriptions, FiniteSetTheorems, TLAPS

LEMMA MaxLimitIsMax == MaxLimit \in Limits /\ \A n \in Limits : n <= MaxLimit
BY SubscriptionsAssumption DEF MaxLimit

LEMMA InstrumentOfType == \A t \in Topics : InstrumentOf[t] \in Instruments
BY DEF Instruments

\* A call that is idle waits for no metadata.
IdleWaitsForNothing == \A c \in Calls : kind[c] = "idle" => wanted[c] = NoTopic

Inv == TypeOK /\ IndexesAgree /\ IdleWaitsForNothing

LEMMA InitInv == Init => Inv
<1>1. SUFFICES ASSUME Init PROVE Inv
    OBVIOUS
<1>2. TypeOK
    BY <1>1, MaxLimitIsMax DEF Init, TypeOK
<1>3. IndexesAgree
    BY <1>1 DEF Init, IndexesAgree
<1>4. IdleWaitsForNothing
    BY <1>1 DEF Init, IdleWaitsForNothing
<1>5. QED  BY <1>2, <1>3, <1>4 DEF Inv

\* What subscribe finds is active already: the reactivation changes nothing.
LEMMA AdmitOnlyWaits ==
    ASSUME Inv, NEW c \in Calls, NEW u \in Users, NEW t \in Topics, Admit(c, u, t)
    PROVE  /\ UNCHANGED registry
           /\ wanted' \in {wanted, [wanted EXCEPT ![c] = t]}
<1>1. CASE AtLimit(u) /\ UNCHANGED <<registry, wanted>>
    BY <1>1
<1>2. CASE /\ \E s \in Existing(u, t) : status' = [status EXCEPT ![s] = "active"]
           /\ UNCHANGED <<owner, topic, migrated, byUser, byInstrument, wanted>>
    <2>1. PICK s \in Existing(u, t) : status' = [status EXCEPT ![s] = "active"]
        BY <1>2
    <2>2. s \in Subs /\ status[s] = "active"
        BY <2>1 DEF Inv, TypeOK, IndexesAgree, Existing
    <2>3. status' = status
        BY <2>1, <2>2 DEF Inv, TypeOK
    <2>4. QED  BY <1>2, <2>3 DEF registry
<1>3. CASE wanted' = [wanted EXCEPT ![c] = t] /\ UNCHANGED registry
    BY <1>3
<1>4. QED  BY <1>1, <1>2, <1>3 DEF Admit

\* A step that leaves the registry alone keeps the agreement.
LEMMA SameRegistry ==
    ASSUME IndexesAgree, UNCHANGED registry PROVE IndexesAgree'
BY DEF IndexesAgree, registry

LEMMA SubscribeInv ==
    ASSUME Inv, NEW c \in Calls, NEW u \in Users, NEW t \in Topics, Subscribe(c, u, t)
    PROVE  Inv'
<1>1. UNCHANGED registry /\ wanted' \in {wanted, [wanted EXCEPT ![c] = t]}
    BY AdmitOnlyWaits DEF Subscribe
<1>2. kind' = [kind EXCEPT ![c] = IF wanted'[c] = t THEN "subscribe" ELSE "idle"]
    BY DEF Subscribe
<1>3. TypeOK'
    BY <1>1, <1>2 DEF Subscribe, Inv, TypeOK, registry
<1>4. IndexesAgree'
    BY <1>1, SameRegistry DEF Inv
<1>5. IdleWaitsForNothing'
    BY <1>1, <1>2 DEF Subscribe, Inv, TypeOK, IdleWaitsForNothing
<1>6. QED  BY <1>3, <1>4, <1>5 DEF Inv

LEMMA UtilityInv ==
    ASSUME Inv, NEW c \in Calls, NEW k \in Tokens, UtilityNext(c, k)
    PROVE  /\ Inv'
           /\ UNCHANGED <<registry, kind, user>>
           /\ \/ wanted' = wanted
              \/ /\ k \in DOMAIN UtilityMap
                 /\ Admit(c, user[c], UtilityMap[k])
                 /\ wanted' = [wanted EXCEPT ![c] = UtilityMap[k]]
<1>1. UNCHANGED <<limit, kind, user>> /\ todo' = [todo EXCEPT ![c] = @ \ {k}]
    BY DEF UtilityNext, NextToken
<1>2. /\ UNCHANGED registry
      /\ \/ wanted' = wanted
         \/ /\ k \in DOMAIN UtilityMap
            /\ Admit(c, user[c], UtilityMap[k])
            /\ wanted' = [wanted EXCEPT ![c] = UtilityMap[k]]
    <2>1. CASE k \in DOMAIN UtilityMap /\ Admit(c, user[c], UtilityMap[k])
        <3>1. user[c] \in Users /\ UtilityMap[k] \in Topics
            BY <2>1, SubscriptionsAssumption DEF Inv, TypeOK
        <3>2. QED  BY <2>1, <3>1, AdmitOnlyWaits
    <2>2. CASE UNCHANGED <<registry, wanted>>
        BY <2>2
    <2>3. QED  BY <2>1, <2>2 DEF UtilityNext
<1>3. kind[c] = "utility"
    BY DEF UtilityNext
<1>4. wanted' \in [Calls -> Topics \cup {NoTopic}]
    BY <1>2, SubscriptionsAssumption DEF Inv, TypeOK
<1>5. TypeOK'
    BY <1>1, <1>2, <1>4 DEF Inv, TypeOK, registry
<1>6. IndexesAgree'
    BY <1>2, SameRegistry DEF Inv
<1>7. IdleWaitsForNothing'
    BY <1>1, <1>2, <1>3 DEF Inv, TypeOK, IdleWaitsForNothing
<1>8. QED  BY <1>1, <1>2, <1>5, <1>6, <1>7 DEF Inv

LEMMA BulkInv ==
    ASSUME Inv, NEW c \in Calls, NEW k \in Tokens, BulkNext(c, k)
    PROVE  /\ Inv'
           /\ UNCHANGED <<registry, kind, user>>
           /\ kind[c] = "bulk"
           /\ \A d \in Calls \ {c} : wanted'[d] = wanted[d]
<1>1. /\ UNCHANGED <<registry, limit, kind, user>>
      /\ todo' = [todo EXCEPT ![c] = @ \ {k}]
      /\ kind[c] = "bulk"
    BY DEF BulkNext, NextToken
<1>2. /\ wanted' \in [Calls -> Topics \cup {NoTopic}]
      /\ \A d \in Calls \ {c} : wanted'[d] = wanted[d]
    <2>1. CASE k \in DOMAIN StorageMap
        <3>1. StorageMap[k] \in Topics
            BY <2>1, SubscriptionsAssumption
        <3>2. wanted' = [wanted EXCEPT ![c] = StorageMap[k]]
            BY <2>1 DEF BulkNext
        <3>3. QED  BY <3>1, <3>2 DEF Inv, TypeOK
    <2>2. CASE k \notin DOMAIN StorageMap
        BY <2>2 DEF BulkNext, Inv, TypeOK
    <2>3. QED  BY <2>1, <2>2
<1>3. TypeOK'
    BY <1>1, <1>2 DEF Inv, TypeOK, registry
<1>4. IndexesAgree'
    BY <1>1, SameRegistry DEF Inv
<1>5. IdleWaitsForNothing'
    BY <1>1, <1>2 DEF Inv, TypeOK, IdleWaitsForNothing
<1>6. QED  BY <1>1, <1>2, <1>3, <1>4, <1>5 DEF Inv

LEMMA MigrateInv ==
    ASSUME Inv, NEW c \in Calls, NEW u \in Users, NEW k \in {"bulk", "utility"},
           NEW tokens \in SUBSET Tokens, Migrate(c, u, k, tokens)
    PROVE  Inv'
<1>1. TypeOK'
    BY DEF Migrate, Inv, TypeOK, registry
<1>2. IndexesAgree'
    BY SameRegistry DEF Inv, Migrate
<1>3. IdleWaitsForNothing'
    BY DEF Migrate, Inv, TypeOK, IdleWaitsForNothing
<1>4. QED  BY <1>1, <1>2, <1>3 DEF Inv

LEMMA MigrateEndInv ==
    ASSUME Inv, NEW c \in Calls, MigrateEnd(c) PROVE Inv'
<1>1. TypeOK'
    BY DEF MigrateEnd, Inv, TypeOK, registry
<1>2. IndexesAgree'
    BY SameRegistry DEF Inv, MigrateEnd
<1>3. IdleWaitsForNothing'
    BY DEF MigrateEnd, Inv, TypeOK, IdleWaitsForNothing
<1>4. QED  BY <1>1, <1>2, <1>3 DEF Inv

\* A call that resumes waits for nothing and keeps its user.
LEMMA ResumeInv ==
    ASSUME TypeOK, IdleWaitsForNothing, NEW c \in Calls, Resume(c)
    PROVE  /\ kind' \in [Calls -> {"idle", "subscribe", "bulk", "utility"}]
           /\ wanted' \in [Calls -> Topics \cup {NoTopic}]
           /\ IdleWaitsForNothing'
BY DEF Resume, TypeOK, IdleWaitsForNothing

LEMMA StoreInv ==
    ASSUME Inv, NEW c \in Calls, NEW s \in Subs, Store(c, s) PROVE Inv'
<1>1. /\ kind' \in [Calls -> {"idle", "subscribe", "bulk", "utility"}]
      /\ wanted' \in [Calls -> Topics \cup {NoTopic}]
      /\ IdleWaitsForNothing'
    BY ResumeInv DEF Inv, Store
<1>2. user[c] \in Users /\ wanted[c] \in Topics /\ InstrumentOf[wanted[c]] \in Instruments
    BY InstrumentOfType DEF Inv, TypeOK, Store
<1>3. /\ status' = [status EXCEPT ![s] = "active"]
      /\ owner' = [owner EXCEPT ![s] = user[c]]
      /\ topic' = [topic EXCEPT ![s] = wanted[c]]
      /\ migrated' \in [Subs -> BOOLEAN]
      /\ byUser' = [byUser EXCEPT ![user[c]] = @ \cup {s}]
      /\ byInstrument' = [byInstrument EXCEPT ![InstrumentOf[wanted[c]]] = @ \cup {s}]
      /\ UNCHANGED <<limit, user, todo>>
      /\ status[s] = "unused"
    BY DEF Store, Resume, Inv, TypeOK
<1>4. TypeOK'
    BY <1>1, <1>2, <1>3 DEF Inv, TypeOK
<1>5. IndexesAgree'
    <2>1. SUFFICES ASSUME NEW r \in Subs
                   PROVE  /\ \A u \in Users : r \in byUser'[u]
                                <=> (status'[r] = "active" /\ owner'[r] = u)
                          /\ \A i \in Instruments : r \in byInstrument'[i]
                                <=> (status'[r] = "active" /\ InstrumentOf[topic'[r]] = i)
        BY DEF IndexesAgree
    <2>2. CASE r = s
        <3>1. /\ \A u \in Users : s \notin byUser[u]
              /\ \A i \in Instruments : s \notin byInstrument[i]
            BY <1>3 DEF Inv, IndexesAgree
        <3>2. status'[s] = "active" /\ owner'[s] = user[c] /\ topic'[s] = wanted[c]
            BY <1>3 DEF Inv, TypeOK
        <3>3. QED  BY <1>2, <1>3, <2>2, <3>1, <3>2 DEF Inv, TypeOK
    <2>3. CASE r # s
        <3>1. status'[r] = status[r] /\ owner'[r] = owner[r] /\ topic'[r] = topic[r]
            BY <1>3, <2>3 DEF Inv, TypeOK
        <3>2. /\ \A u \in Users : r \in byUser'[u] <=> r \in byUser[u]
              /\ \A i \in Instruments : r \in byInstrument'[i] <=> r \in byInstrument[i]
            BY <1>2, <1>3, <2>3 DEF Inv, TypeOK
        <3>3. QED  BY <3>1, <3>2 DEF Inv, IndexesAgree
    <2>4. QED  BY <2>2, <2>3
<1>6. QED  BY <1>1, <1>4, <1>5 DEF Inv

LEMMA StoreFailsInv ==
    ASSUME Inv, NEW c \in Calls, StoreFails(c) PROVE Inv'
<1>1. /\ kind' \in [Calls -> {"idle", "subscribe", "bulk", "utility"}]
      /\ wanted' \in [Calls -> Topics \cup {NoTopic}]
      /\ IdleWaitsForNothing'
    BY ResumeInv DEF Inv, StoreFails
<1>2. TypeOK'
    BY <1>1 DEF StoreFails, Resume, Inv, TypeOK, registry
<1>3. IndexesAgree'
    BY SameRegistry DEF Inv, StoreFails
<1>4. QED  BY <1>1, <1>2, <1>3 DEF Inv

LEMMA UnsubscribeInv ==
    ASSUME Inv, NEW s \in Subs, Unsubscribe(s) PROVE Inv'
<1>1. owner[s] \in Users /\ InstrumentOf[topic[s]] \in Instruments
    BY InstrumentOfType DEF Inv, TypeOK
<1>2. /\ status' = [status EXCEPT ![s] = "cancelled"]
      /\ byUser' = [byUser EXCEPT ![owner[s]] = @ \ {s}]
      /\ byInstrument' = [byInstrument EXCEPT ![InstrumentOf[topic[s]]] = @ \ {s}]
      /\ UNCHANGED <<owner, topic, migrated, limit, kind, user, wanted, todo>>
    BY DEF Unsubscribe, call
<1>3. TypeOK'
    BY <1>1, <1>2 DEF Inv, TypeOK
<1>4. IndexesAgree'
    <2>1. SUFFICES ASSUME NEW r \in Subs
                   PROVE  /\ \A u \in Users : r \in byUser'[u]
                                <=> (status'[r] = "active" /\ owner'[r] = u)
                          /\ \A i \in Instruments : r \in byInstrument'[i]
                                <=> (status'[r] = "active" /\ InstrumentOf[topic'[r]] = i)
        BY DEF IndexesAgree
    <2>2. CASE r = s
        <3>1. /\ \A u \in Users : s \in byUser[u] => owner[s] = u
              /\ \A i \in Instruments : s \in byInstrument[i] => InstrumentOf[topic[s]] = i
            BY DEF Inv, IndexesAgree
        <3>2. status'[s] # "active"
            BY <1>2 DEF Inv, TypeOK
        <3>3. QED  BY <1>1, <1>2, <2>2, <3>1, <3>2 DEF Inv, TypeOK
    <2>3. CASE r # s
        <3>1. status'[r] = status[r] /\ owner'[r] = owner[r] /\ topic'[r] = topic[r]
            BY <1>2, <2>3 DEF Inv, TypeOK
        <3>2. /\ \A u \in Users : r \in byUser'[u] <=> r \in byUser[u]
              /\ \A i \in Instruments : r \in byInstrument'[i] <=> r \in byInstrument[i]
            BY <1>1, <1>2, <2>3 DEF Inv, TypeOK
        <3>3. QED  BY <3>1, <3>2 DEF Inv, IndexesAgree
    <2>4. QED  BY <2>2, <2>3
<1>5. IdleWaitsForNothing'
    BY <1>2 DEF Inv, IdleWaitsForNothing
<1>6. QED  BY <1>3, <1>4, <1>5 DEF Inv

LEMMA NextInv ==
    ASSUME Inv, [Next]_vars PROVE Inv'
<1>1. ASSUME NEW c \in Calls, NEW u \in Users, NEW t \in Topics, Subscribe(c, u, t)
      PROVE  Inv'
    BY <1>1, SubscribeInv
<1>2. ASSUME NEW c \in Calls, NEW u \in Users, NEW k \in {"bulk", "utility"},
             NEW tokens \in SUBSET Tokens, Migrate(c, u, k, tokens)
      PROVE  Inv'
    BY <1>2, MigrateInv
<1>3. ASSUME NEW c \in Calls, NEW k \in Tokens, BulkNext(c, k) PROVE Inv'
    BY <1>3, BulkInv
<1>4. ASSUME NEW c \in Calls, NEW k \in Tokens, UtilityNext(c, k) PROVE Inv'
    BY <1>4, UtilityInv
<1>5. ASSUME NEW c \in Calls, MigrateEnd(c) PROVE Inv'
    BY <1>5, MigrateEndInv
<1>6. ASSUME NEW c \in Calls, NEW s \in Subs, Store(c, s) PROVE Inv'
    BY <1>6, StoreInv
<1>7. ASSUME NEW c \in Calls, StoreFails(c) PROVE Inv'
    BY <1>7, StoreFailsInv
<1>8. ASSUME NEW s \in Subs, Unsubscribe(s) PROVE Inv'
    BY <1>8, UnsubscribeInv
<1>9. ASSUME NEW u \in Users, NEW n \in Limits, UpdatePreferences(u, n) PROVE Inv'
    <2>1. TypeOK'
        BY <1>9 DEF UpdatePreferences, Inv, TypeOK, registry, call
    <2>2. IndexesAgree'
        BY <1>9, SameRegistry DEF UpdatePreferences, Inv
    <2>3. IdleWaitsForNothing'
        BY <1>9 DEF UpdatePreferences, Inv, IdleWaitsForNothing, call
    <2>4. QED  BY <2>1, <2>2, <2>3 DEF Inv
<1>10. CASE UNCHANGED vars
    BY <1>10 DEF vars, registry, call, Inv, TypeOK, IndexesAgree, IdleWaitsForNothing
<1>11. QED
    BY <1>1, <1>2, <1>3, <1>4, <1>5, <1>6, <1>7, <1>8, <1>9, <1>10 DEF Next

THEOREM Inductive == Spec => []Inv
<1>1. Inv /\ [Next]_vars => Inv'
    BY NextInv
<1>2. QED  BY InitInv, <1>1, PTL DEF Spec

\* Every reachable state of the registry is well typed.
THEOREM TypeCorrect == Spec => []TypeOK
<1>1. Inv => TypeOK
    BY DEF Inv
<1>2. QED  BY Inductive, <1>1, PTL

\* The two indexes and the statuses agree in every reachable state.
THEOREM TheIndexesAgree == Spec => []IndexesAgree
<1>1. Inv => IndexesAgree
    BY DEF Inv
<1>2. QED  BY Inductive, <1>1, PTL
-------------------------------------------------------------------------------
(* The limits.                                                                    *)

LEMMA IndexIsFinite ==
    ASSUME TypeOK, NEW u \in Users
    PROVE  IsFiniteSet(byUser[u]) /\ Cardinality(byUser[u]) \in Nat
<1>1. byUser[u] \subseteq Subs /\ IsFiniteSet(Subs)
    BY SubscriptionsAssumption DEF TypeOK
<1>2. QED  BY <1>1, FS_Subset, FS_CardinalityType

\* Only a creation and a cancellation change the registry.
LEMMA RegistrySteps ==
    ASSUME Inv, [Next]_vars
    PROVE  \/ UNCHANGED registry
           \/ \E c \in Calls, s \in Subs : Store(c, s)
           \/ \E s \in Subs : Unsubscribe(s)
<1>1. ASSUME NEW c \in Calls, NEW u \in Users, NEW t \in Topics, Subscribe(c, u, t)
      PROVE  UNCHANGED registry
    BY <1>1, AdmitOnlyWaits DEF Subscribe
<1>2. ASSUME NEW c \in Calls, NEW k \in Tokens, BulkNext(c, k)
      PROVE  UNCHANGED registry
    BY <1>2 DEF BulkNext
<1>3. ASSUME NEW c \in Calls, NEW k \in Tokens, UtilityNext(c, k)
      PROVE  UNCHANGED registry
    BY <1>3, UtilityInv
<1>4. ASSUME NEW c \in Calls, StoreFails(c) PROVE UNCHANGED registry
    BY <1>4 DEF StoreFails
<1>5. ASSUME NEW c \in Calls, MigrateEnd(c) PROVE UNCHANGED registry
    BY <1>5 DEF MigrateEnd
<1>6. ASSUME NEW c \in Calls, NEW u \in Users, NEW k \in {"bulk", "utility"},
             NEW tokens \in SUBSET Tokens, Migrate(c, u, k, tokens)
      PROVE  UNCHANGED registry
    BY <1>6 DEF Migrate
<1>7. ASSUME NEW u \in Users, NEW n \in Limits, UpdatePreferences(u, n)
      PROVE  UNCHANGED registry
    BY <1>7 DEF UpdatePreferences
<1>8. UNCHANGED vars => UNCHANGED registry
    BY DEF vars
<1>9. QED
    BY <1>1, <1>2, <1>3, <1>4, <1>5, <1>6, <1>7, <1>8 DEF Next

LEMMA StoreAdds ==
    ASSUME Inv, NEW c \in Calls, NEW s \in Subs, Store(c, s)
    PROVE  /\ Cardinality(byUser[user[c]]) < HardLimit
           /\ byUser' = [byUser EXCEPT ![user[c]] = @ \cup {s}]
           /\ \A u \in Users : s \notin byUser[u]
BY DEF Store, Inv, IndexesAgree

\* No user ever has more than the hard limit, because create_subscription
\* compares with it after the only wait.
THEOREM HardLimitHolds == Spec => []WithinHardLimit
<1>1. Init => WithinHardLimit
    BY SubscriptionsAssumption, FS_EmptySet DEF Init, WithinHardLimit
<1>2. ASSUME Inv, WithinHardLimit, [Next]_vars PROVE WithinHardLimit'
    <2>1. SUFFICES ASSUME NEW u \in Users PROVE Cardinality(byUser'[u]) <= HardLimit
        BY DEF WithinHardLimit
    <2>2. /\ Cardinality(byUser[u]) <= HardLimit
          /\ IsFiniteSet(byUser[u]) /\ Cardinality(byUser[u]) \in Nat
        BY <1>2, IndexIsFinite DEF WithinHardLimit, Inv
    <2>3. CASE UNCHANGED registry
        BY <2>2, <2>3 DEF registry
    <2>4. ASSUME NEW c \in Calls, NEW s \in Subs, Store(c, s)
          PROVE  Cardinality(byUser'[u]) <= HardLimit
        <3>1. /\ Cardinality(byUser[user[c]]) < HardLimit
              /\ byUser' = [byUser EXCEPT ![user[c]] = @ \cup {s}]
              /\ s \notin byUser[u]
            BY <1>2, <2>4, StoreAdds
        <3>2. CASE u = user[c]
            <4>1. byUser'[u] = byUser[u] \cup {s}
                BY <3>1, <3>2, <1>2 DEF Inv, TypeOK
            <4>2. Cardinality(byUser[u] \cup {s}) = Cardinality(byUser[u]) + 1
                BY <2>2, <3>1, FS_AddElement
            <4>3. Cardinality(byUser[u]) < HardLimit
                BY <3>1, <3>2
            <4>4. Cardinality(byUser[u]) + 1 <= HardLimit
                BY <2>2, <4>3, SubscriptionsAssumption
            <4>5. QED  BY <4>1, <4>2, <4>4
        <3>3. CASE u # user[c]
            BY <2>2, <3>1, <3>3, <1>2 DEF Inv, TypeOK
        <3>4. QED  BY <3>2, <3>3
    <2>5. ASSUME NEW s \in Subs, Unsubscribe(s)
          PROVE  Cardinality(byUser'[u]) <= HardLimit
        <3>1. byUser'[u] \in SUBSET byUser[u]
            BY <1>2, <2>5 DEF Unsubscribe, Inv, TypeOK
        <3>2. Cardinality(byUser'[u]) <= Cardinality(byUser[u]) /\ IsFiniteSet(byUser'[u])
            BY <2>2, <3>1, FS_Subset
        <3>3. Cardinality(byUser'[u]) \in Nat
            BY <3>2, FS_CardinalityType
        <3>4. QED  BY <2>2, <3>2, <3>3, SubscriptionsAssumption
    <2>6. QED  BY <1>2, <2>3, <2>4, <2>5, RegistrySteps
<1>3. QED  BY Inductive, <1>1, <1>2, PTL DEF Spec

\* No step makes a cancelled subscription active.
CancelledIsFinal ==
    [][\A s \in Subs : status[s] = "cancelled" => status'[s] = "cancelled"]_vars

\* The reactivation that subscribe documents is out of reach, since subscribe does not
\* find a cancelled subscription: in this program nothing is ever reactivated.
THEOREM NothingIsReactivated == Spec => CancelledIsFinal
<1>1. ASSUME Inv, [Next]_vars, NEW s \in Subs, status[s] = "cancelled"
      PROVE  status'[s] = "cancelled"
    <2>1. CASE UNCHANGED registry
        BY <1>1, <2>1 DEF registry
    <2>2. ASSUME NEW c \in Calls, NEW r \in Subs, Store(c, r)
          PROVE  status'[s] = "cancelled"
        BY <1>1, <2>2 DEF Store, Inv, TypeOK
    <2>3. ASSUME NEW r \in Subs, Unsubscribe(r) PROVE status'[s] = "cancelled"
        BY <1>1, <2>3 DEF Unsubscribe, Inv, TypeOK
    <2>4. QED  BY <1>1, <2>1, <2>2, <2>3, RegistrySteps
<1>2. Inv /\ [Next]_vars
        => [\A s \in Subs : status[s] = "cancelled" => status'[s] = "cancelled"]_vars
    BY <1>1
<1>3. QED  BY Inductive, <1>2, PTL DEF Spec, CancelledIsFinal
-------------------------------------------------------------------------------
(* What overlapping calls can add.  A step does one of three things to a user's   *)
(* subscriptions and to the calls that wait on that user's behalf.                *)

Quiet(u) ==
    /\ Subscribed(u)' \subseteq Subscribed(u)
    /\ InFlight(u)' \subseteq InFlight(u)
    /\ \A s \in Subscribed(u)' : topic'[s] = topic[s]
    /\ \A c \in InFlight(u)' : wanted'[c] = wanted[c]

Admitted(u) == \E t \in Topics :
    /\ ~AtLimit(u) /\ Existing(u, t) = {}
    /\ Subscribed(u)' = Subscribed(u) /\ topic' = topic
    /\ \A c \in InFlight(u)' : wanted'[c] # t => c \in InFlight(u) /\ wanted'[c] = wanted[c]

Stored(u) == \E c \in InFlight(u), s \in Subs \ Subscribed(u) :
    /\ Subscribed(u)' = Subscribed(u) \cup {s}
    /\ InFlight(u)' = InFlight(u) \ {c}
    /\ topic' = [topic EXCEPT ![s] = wanted[c]]
    /\ \A d \in InFlight(u)' : wanted'[d] = wanted[d]

LEMMA RegistryKept ==
    ASSUME UNCHANGED registry, NEW u \in Users
    PROVE  Subscribed(u)' = Subscribed(u) /\ topic' = topic
BY DEF registry, Subscribed

LEMMA WaitsKept ==
    ASSUME Inv, UNCHANGED registry, NEW u \in Users,
           \A c \in Calls : \/ wanted'[c] = NoTopic
                            \/ kind'[c] = "bulk"
                            \/ wanted'[c] = wanted[c] /\ kind'[c] = kind[c] /\ user'[c] = user[c]
    PROVE  Quiet(u)
<1>1. Subscribed(u)' = Subscribed(u) /\ topic' = topic
    BY RegistryKept
<1>2. InFlight(u)' \subseteq InFlight(u) /\ \A c \in InFlight(u)' : wanted'[c] = wanted[c]
    BY DEF InFlight
<1>3. QED  BY <1>1, <1>2 DEF Quiet

\* A call that starts to wait has been admitted.
LEMMA AdmitCounts ==
    ASSUME Inv, NEW c \in Calls, NEW v \in Users, NEW t \in Topics, NEW u \in Users,
           Admit(c, v, t), wanted[c] = NoTopic, user'[c] = v,
           \A d \in Calls \ {c} : user'[d] = user[d] /\ kind'[d] = kind[d]
    PROVE  Quiet(u) \/ Admitted(u)
<1>1. UNCHANGED registry /\ wanted' \in {wanted, [wanted EXCEPT ![c] = t]}
    BY AdmitOnlyWaits
<1>2. CASE wanted' = wanted
    <2>1. \A d \in Calls : \/ wanted'[d] = NoTopic
                           \/ kind'[d] = "bulk"
                           \/ wanted'[d] = wanted[d] /\ kind'[d] = kind[d] /\ user'[d] = user[d]
        BY <1>2
    <2>2. QED  BY <1>1, <2>1, WaitsKept
<1>3. CASE wanted' # wanted
    <2>1. ~AtLimit(v) /\ Existing(v, t) = {}
        BY <1>3 DEF Admit
    <2>2. wanted' = [wanted EXCEPT ![c] = t]
        BY <1>1, <1>3
    <2>3. \A d \in Calls \ {c} : wanted'[d] = wanted[d]
        BY <2>2 DEF Inv, TypeOK
    <2>4. wanted'[c] = t
        BY <2>2 DEF Inv, TypeOK
    <2>5. Subscribed(u)' = Subscribed(u) /\ topic' = topic
        BY <1>1, RegistryKept
    <2>6. CASE u = v
        <3>1. \A d \in InFlight(u)' :
                wanted'[d] # t => d \in InFlight(u) /\ wanted'[d] = wanted[d]
            BY <2>3, <2>4 DEF InFlight
        <3>2. QED  BY <2>1, <2>5, <2>6, <3>1 DEF Admitted
    <2>7. CASE u # v
        <3>1. InFlight(u)' \subseteq InFlight(u) /\ \A d \in InFlight(u)' : wanted'[d] = wanted[d]
            BY <2>3, <2>7 DEF InFlight
        <3>2. QED  BY <2>5, <3>1 DEF Quiet
    <2>8. QED  BY <2>6, <2>7
<1>4. QED  BY <1>2, <1>3

LEMMA StoreCounts ==
    ASSUME Inv, NEW c \in Calls, NEW s \in Subs, NEW u \in Users, Store(c, s)
    PROVE  Quiet(u) \/ Stored(u)
<1>1. /\ wanted[c] \in Topics /\ user[c] \in Users
      /\ topic' = [topic EXCEPT ![s] = wanted[c]]
      /\ migrated' = [migrated EXCEPT ![s] = kind[c] = "bulk"]
      /\ byUser' = [byUser EXCEPT ![user[c]] = @ \cup {s}]
      /\ wanted' = [wanted EXCEPT ![c] = NoTopic]
      /\ user' = user
      /\ \A d \in Calls \ {c} : kind'[d] = kind[d]
      /\ s \notin byUser[u]
    BY StoreAdds DEF Store, Resume, Inv, TypeOK
<1>2. \A r \in Subs \ {s} : topic'[r] = topic[r] /\ migrated'[r] = migrated[r]
    BY <1>1 DEF Inv, TypeOK
<1>3. migrated'[s] = (kind[c] = "bulk")
    BY <1>1 DEF Inv, TypeOK
<1>4. wanted'[c] = NoTopic /\ \A d \in Calls \ {c} : wanted'[d] = wanted[d]
    BY <1>1 DEF Inv, TypeOK
<1>5. byUser[u] \subseteq Subs \ {s}
    BY <1>1 DEF Inv, TypeOK
<1>6. InFlight(u)' = InFlight(u) \ {c}
    BY <1>1, <1>4 DEF InFlight
<1>7. \A d \in InFlight(u)' : wanted'[d] = wanted[d]
    BY <1>4, <1>6 DEF InFlight
<1>8. CASE u = user[c] /\ kind[c] # "bulk"
    <2>1. byUser'[u] = byUser[u] \cup {s}
        BY <1>1, <1>8 DEF Inv, TypeOK
    <2>2. \A r \in byUser[u] : r \in Subs /\ r # s /\ migrated'[r] = migrated[r]
        BY <1>2, <1>5
    <2>3. Subscribed(u)' = Subscribed(u) \cup {s} /\ s \notin Subscribed(u)
        BY <1>3, <1>8, <2>1, <2>2 DEF Subscribed
    <2>4. c \in InFlight(u)
        BY <1>1, <1>8, SubscriptionsAssumption DEF InFlight
    <2>5. topic' = [topic EXCEPT ![s] = wanted[c]] /\ s \in Subs \ Subscribed(u)
        BY <1>1, <2>3
    <2>6. Stored(u)
        BY <1>6, <1>7, <2>3, <2>4, <2>5, Zenon DEF Stored
    <2>7. QED  BY <2>6
<1>9. CASE ~(u = user[c] /\ kind[c] # "bulk")
    <2>1. \/ byUser'[u] = byUser[u]
          \/ byUser'[u] = byUser[u] \cup {s} /\ kind[c] = "bulk"
        BY <1>1, <1>9 DEF Inv, TypeOK
    <2>2. Subscribed(u)' = Subscribed(u)
        BY <1>2, <1>3, <1>5, <2>1 DEF Subscribed
    <2>3. \A r \in Subscribed(u)' : topic'[r] = topic[r]
        BY <1>2, <1>5, <2>2 DEF Subscribed
    <2>4. QED  BY <1>6, <1>7, <2>2, <2>3 DEF Quiet
<1>10. QED  BY <1>8, <1>9
LEMMA StepCounts ==
    ASSUME Inv, [Next]_vars, NEW u \in Users
    PROVE  Quiet(u) \/ Admitted(u) \/ Stored(u)
<1>1. ASSUME NEW c \in Calls, NEW v \in Users, NEW t \in Topics, Subscribe(c, v, t)
      PROVE  Quiet(u) \/ Admitted(u)
    <2>1. /\ Admit(c, v, t) /\ wanted[c] = NoTopic /\ user'[c] = v
          /\ \A d \in Calls \ {c} : user'[d] = user[d] /\ kind'[d] = kind[d]
        BY <1>1 DEF Subscribe, Inv, TypeOK, IdleWaitsForNothing
    <2>2. QED  BY <2>1, AdmitCounts
<1>2. ASSUME NEW c \in Calls, NEW k \in Tokens, UtilityNext(c, k)
      PROVE  Quiet(u) \/ Admitted(u)
    <2>1. wanted[c] = NoTopic /\ user[c] \in Users
        BY <1>2 DEF UtilityNext, NextToken, Inv, TypeOK
    <2>2. UNCHANGED <<registry, kind, user>>
        BY <1>2, UtilityInv
    <2>3. CASE wanted' = wanted
        BY <2>2, <2>3, WaitsKept
    <2>4. CASE k \in DOMAIN UtilityMap /\ Admit(c, user[c], UtilityMap[k])
        <3>1. UtilityMap[k] \in Topics
            BY <2>4, SubscriptionsAssumption
        <3>2. QED  BY <2>1, <2>2, <2>4, <3>1, AdmitCounts
    <2>5. QED  BY <1>2, <2>3, <2>4, UtilityInv
<1>3. ASSUME NEW c \in Calls, NEW k \in Tokens, BulkNext(c, k) PROVE Quiet(u)
    <2>1. /\ UNCHANGED <<registry, kind, user>> /\ kind[c] = "bulk"
          /\ \A d \in Calls \ {c} : wanted'[d] = wanted[d]
        BY <1>3, BulkInv
    <2>2. QED  BY <2>1, WaitsKept
<1>4. ASSUME NEW c \in Calls, NEW v \in Users, NEW k \in {"bulk", "utility"},
             NEW tokens \in SUBSET Tokens, Migrate(c, v, k, tokens)
      PROVE  Quiet(u)
    <2>1. /\ UNCHANGED registry /\ wanted' = wanted /\ wanted[c] = NoTopic
          /\ \A d \in Calls \ {c} : user'[d] = user[d] /\ kind'[d] = kind[d]
        BY <1>4 DEF Migrate, Inv, TypeOK, IdleWaitsForNothing
    <2>2. QED  BY <2>1, WaitsKept
<1>5. ASSUME NEW c \in Calls, MigrateEnd(c) PROVE Quiet(u)
    <2>1. /\ UNCHANGED <<registry, user, wanted>> /\ wanted[c] = NoTopic
          /\ \A d \in Calls \ {c} : kind'[d] = kind[d]
        BY <1>5 DEF MigrateEnd, Inv, TypeOK
    <2>2. QED  BY <2>1, WaitsKept
<1>6. ASSUME NEW c \in Calls, NEW s \in Subs, Store(c, s) PROVE Quiet(u) \/ Stored(u)
    BY <1>6, StoreCounts
<1>7. ASSUME NEW c \in Calls, StoreFails(c) PROVE Quiet(u)
    <2>1. /\ UNCHANGED <<registry, user>> /\ wanted'[c] = NoTopic
          /\ \A d \in Calls \ {c} : kind'[d] = kind[d] /\ wanted'[d] = wanted[d]
        BY <1>7 DEF StoreFails, Resume, Inv, TypeOK
    <2>2. QED  BY <2>1, WaitsKept
<1>8. ASSUME NEW s \in Subs, Unsubscribe(s) PROVE Quiet(u)
    <2>1. UNCHANGED <<topic, migrated, kind, user, wanted>> /\ byUser'[u] \subseteq byUser[u]
        BY <1>8 DEF Unsubscribe, call, Inv, TypeOK
    <2>2. Subscribed(u)' \subseteq Subscribed(u)
        BY <2>1 DEF Subscribed
    <2>3. InFlight(u)' = InFlight(u)
        BY <2>1 DEF InFlight
    <2>4. QED  BY <2>1, <2>2, <2>3 DEF Quiet
<1>9. ASSUME NEW v \in Users, NEW n \in Limits, UpdatePreferences(v, n) PROVE Quiet(u)
    BY <1>9, WaitsKept DEF UpdatePreferences, call
<1>10. UNCHANGED vars => Quiet(u)
    BY WaitsKept DEF vars, call
<1>11. QED
    BY <1>1, <1>2, <1>3, <1>4, <1>5, <1>6, <1>7, <1>8, <1>9, <1>10 DEF Next

\* The sets that the bounds count are finite, and a subset counts no more.
LEMMA Counted ==
    ASSUME TypeOK, NEW u \in Users, NEW A \in SUBSET Subscribed(u),
           NEW B \in SUBSET InFlight(u)
    PROVE  /\ IsFiniteSet(A) /\ Cardinality(A) \in Nat
           /\ IsFiniteSet(B) /\ Cardinality(B) \in Nat
           /\ Cardinality(B) <= Cardinality(Calls)
           /\ Cardinality(Calls) \in Nat /\ Cardinality(Calls) >= 1
<1>1. A \in SUBSET Subs /\ B \in SUBSET Calls
    BY DEF Subscribed, InFlight, TypeOK
<1>2. IsFiniteSet(A) /\ IsFiniteSet(B) /\ Cardinality(B) <= Cardinality(Calls)
    BY <1>1, FS_Subset, SubscriptionsAssumption
<1>3. Cardinality(A) \in Nat /\ Cardinality(B) \in Nat /\ Cardinality(Calls) \in Nat
    BY <1>2, FS_CardinalityType, SubscriptionsAssumption
<1>4. Cardinality(Calls) # 0
    BY FS_EmptySet, SubscriptionsAssumption
<1>5. QED  BY <1>2, <1>3, <1>4

LEMMA FewerCount ==
    ASSUME NEW A, NEW B, NEW C \in SUBSET A, NEW D \in SUBSET B, NEW n \in Int,
           IsFiniteSet(A), IsFiniteSet(B), Cardinality(A) + Cardinality(B) <= n
    PROVE  Cardinality(C) + Cardinality(D) <= n
<1>1. Cardinality(C) <= Cardinality(A) /\ Cardinality(D) <= Cardinality(B)
      /\ IsFiniteSet(C) /\ IsFiniteSet(D)
    BY FS_Subset
<1>2. /\ Cardinality(A) \in Nat /\ Cardinality(B) \in Nat
      /\ Cardinality(C) \in Nat /\ Cardinality(D) \in Nat
    BY <1>1, FS_CardinalityType
<1>3. QED  BY <1>1, <1>2

LEMMA MovedCount ==
    ASSUME NEW A, NEW B, NEW x, NEW y \in B, x \notin A, NEW n \in Int,
           IsFiniteSet(A), IsFiniteSet(B), Cardinality(A) + Cardinality(B) <= n
    PROVE  Cardinality(A \cup {x}) + Cardinality(B \ {y}) <= n
<1>1. Cardinality(A \cup {x}) = Cardinality(A) + 1
    BY FS_AddElement
<1>2. Cardinality(B \ {y}) = Cardinality(B) - 1
    BY FS_RemoveElement
<1>3. Cardinality(A) \in Nat /\ Cardinality(B) \in Nat
    BY FS_CardinalityType
<1>4. QED  BY <1>1, <1>2, <1>3
\* The user's own limit is overshot by no more than the other calls under way:
\* a call is admitted below it, and from then on only moves from waiting to stored.
THEOREM OvershootHolds == Spec => OvershootBounded
<1>1. ASSUME Inv, [Next]_vars, NEW u \in Users, Held(u)' > Held(u)
      PROVE  Held(u)' <= limit[u] - 1 + Cardinality(Calls)
    <2>1. /\ IsFiniteSet(Subscribed(u)) /\ IsFiniteSet(InFlight(u))
          /\ Cardinality(Subscribed(u)) \in Nat /\ Cardinality(InFlight(u)) \in Nat
        BY <1>1, Counted DEF Inv
    <2>2. Held(u) \in Nat /\ Held(u) = Cardinality(Subscribed(u)) + Cardinality(InFlight(u))
        BY <2>1 DEF Held
    <2>3. /\ InFlight(u)' \in SUBSET Calls /\ IsFiniteSet(InFlight(u)')
          /\ Cardinality(InFlight(u)') <= Cardinality(Calls)
          /\ Cardinality(InFlight(u)') \in Nat /\ Cardinality(Calls) \in Nat
        <3>1. InFlight(u)' \in SUBSET Calls
            BY DEF InFlight
        <3>2. IsFiniteSet(InFlight(u)') /\ Cardinality(InFlight(u)') <= Cardinality(Calls)
            BY <3>1, FS_Subset, SubscriptionsAssumption
        <3>3. QED  BY <3>1, <3>2, FS_CardinalityType, SubscriptionsAssumption
    <2>4. ASSUME Cardinality(Subscribed(u)') + Cardinality(InFlight(u)') <= Held(u)
          PROVE  FALSE
        <3>1. Held(u)' <= Held(u)
            BY <2>4 DEF Held
        <3>2. Held(u)' \in Int
            <4>1. Held(u)' = Cardinality(Subscribed(u)') + Cardinality(InFlight(u)')
                BY DEF Held
            <4>2. IsFiniteSet(Subscribed(u)')
                BY <1>1, <2>1, StepCounts, FS_AddElement, FS_Subset DEF Quiet, Admitted, Stored
            <4>3. QED  BY <2>3, <4>1, <4>2, FS_CardinalityType
        <3>3. QED  BY <1>1, <2>2, <3>1, <3>2
    <2>5. CASE Quiet(u)
        <3>1. Subscribed(u)' \in SUBSET Subscribed(u) /\ InFlight(u)' \in SUBSET InFlight(u)
            BY <2>5 DEF Quiet
        <3>2. Cardinality(Subscribed(u)') + Cardinality(InFlight(u)') <= Held(u)
            BY <2>1, <2>2, <3>1, FewerCount
        <3>3. QED  BY <2>4, <3>2
    <2>6. CASE Admitted(u)
        <3>1. ~AtLimit(u) /\ Subscribed(u)' = Subscribed(u)
            BY <2>6 DEF Admitted
        <3>2. Subscribed(u) \in SUBSET Active(u) /\ IsFiniteSet(Active(u))
            <4>1. Subscribed(u) \subseteq Active(u) /\ Active(u) \in SUBSET byUser[u]
                BY <1>1 DEF Inv, IndexesAgree, TypeOK, Subscribed, Active
            <4>2. IsFiniteSet(byUser[u])
                BY <1>1, IndexIsFinite DEF Inv
            <4>3. QED  BY <4>1, <4>2, FS_Subset
        <3>3. Cardinality(Active(u)) < limit[u] /\ limit[u] \in Nat
              /\ Cardinality(Active(u)) \in Nat
            <4>1. Cardinality(Active(u)) \in Nat
                BY <3>2, FS_CardinalityType
            <4>2. limit[u] \in Nat
                BY <1>1, SubscriptionsAssumption DEF Inv, TypeOK
            <4>3. QED  BY <3>1, <4>1, <4>2 DEF AtLimit
        <3>4. Cardinality(Subscribed(u)) <= Cardinality(Active(u))
            BY <3>2, FS_Subset
        <3>5. Held(u)' = Cardinality(Subscribed(u)) + Cardinality(InFlight(u)')
            BY <3>1 DEF Held
        <3>6. QED  BY <2>1, <2>3, <3>3, <3>4, <3>5
    <2>7. CASE Stored(u)
        <3>1. PICK c \in InFlight(u), s \in Subs \ Subscribed(u) :
                /\ Subscribed(u)' = Subscribed(u) \cup {s}
                /\ InFlight(u)' = InFlight(u) \ {c}
            BY <2>7 DEF Stored
        <3>2. Cardinality(Subscribed(u) \cup {s}) + Cardinality(InFlight(u) \ {c}) <= Held(u)
            BY <2>1, <2>2, <3>1, MovedCount
        <3>3. QED  BY <2>4, <3>1, <3>2
    <2>8. QED  BY <1>1, <2>5, <2>6, <2>7, StepCounts
<1>2. Inv /\ [Next]_vars =>
        [\A u \in Users :
            Held(u)' > Held(u) => Held(u)' <= limit[u] - 1 + Cardinality(Calls)]_vars
    BY <1>1
<1>3. QED  BY Inductive, <1>2, PTL DEF Spec, OvershootBounded

\* Both limits of a user hold together.
THEOREM LimitsHold == Spec => LimitsBounded
BY HardLimitHolds, OvershootHolds, PTL DEF LimitsBounded

\* A topic is duplicated by no more calls than are under way together: a call
\* that finds a subscription in the index is not admitted.
THEOREM DuplicatesHold == Spec => []DuplicatesBounded
<1>1. Cardinality(Calls) \in Int
    BY FS_CardinalityType, SubscriptionsAssumption
<1>2. Init => DuplicatesBounded
    <2>1. SUFFICES ASSUME Init, NEW u \in Users, NEW t \in Topics
                   PROVE  Cardinality(SubscribedTo(u, t)) + Cardinality(InFlightFor(u, t))
                            <= Cardinality(Calls)
        BY DEF DuplicatesBounded
    <2>2. SubscribedTo(u, t) = {} /\ InFlightFor(u, t) = {}
        BY <2>1 DEF Init, Subscribed, InFlight, SubscribedTo, InFlightFor
    <2>3. Cardinality(Calls) \in Nat
        BY FS_CardinalityType, SubscriptionsAssumption
    <2>4. QED  BY <2>2, <2>3, FS_EmptySet
<1>3. ASSUME Inv, DuplicatesBounded, [Next]_vars PROVE DuplicatesBounded'
    <2>1. SUFFICES ASSUME NEW u \in Users, NEW t \in Topics
                   PROVE  Cardinality(SubscribedTo(u, t)') + Cardinality(InFlightFor(u, t)')
                            <= Cardinality(Calls)
        BY DEF DuplicatesBounded
    <2>2. Cardinality(SubscribedTo(u, t)) + Cardinality(InFlightFor(u, t))
            <= Cardinality(Calls)
        BY <1>3 DEF DuplicatesBounded
    <2>3. IsFiniteSet(SubscribedTo(u, t)) /\ IsFiniteSet(InFlightFor(u, t))
        <3>1. SubscribedTo(u, t) \in SUBSET Subscribed(u)
              /\ InFlightFor(u, t) \in SUBSET InFlight(u)
            BY DEF SubscribedTo, InFlightFor
        <3>2. QED  BY <1>3, <3>1, Counted DEF Inv
    <2>4. ASSUME SubscribedTo(u, t)' \in SUBSET SubscribedTo(u, t),
                 InFlightFor(u, t)' \in SUBSET InFlightFor(u, t)
          PROVE  Cardinality(SubscribedTo(u, t)') + Cardinality(InFlightFor(u, t)')
                    <= Cardinality(Calls)
        BY <1>1, <2>2, <2>3, <2>4, FewerCount
    <2>5. CASE Quiet(u)
        <3>1. SubscribedTo(u, t)' \in SUBSET SubscribedTo(u, t)
            BY <2>5 DEF Quiet, SubscribedTo
        <3>2. InFlightFor(u, t)' \in SUBSET InFlightFor(u, t)
            BY <2>5 DEF Quiet, InFlightFor
        <3>3. QED  BY <2>4, <3>1, <3>2
    <2>6. CASE Admitted(u)
        <3>1. PICK a \in Topics :
                /\ Existing(u, a) = {}
                /\ Subscribed(u)' = Subscribed(u) /\ topic' = topic
                /\ \A c \in InFlight(u)' :
                     wanted'[c] # a => c \in InFlight(u) /\ wanted'[c] = wanted[c]
            BY <2>6 DEF Admitted
        <3>2. SubscribedTo(u, t)' = SubscribedTo(u, t)
            BY <3>1 DEF SubscribedTo
        <3>3. CASE a = t
            <4>1. SubscribedTo(u, t)' = {}
                BY <3>1, <3>2, <3>3 DEF SubscribedTo, Subscribed, Existing
            <4>2. InFlightFor(u, t)' \in SUBSET Calls
                BY DEF InFlightFor, InFlight
            <4>3. IsFiniteSet(InFlightFor(u, t)')
                  /\ Cardinality(InFlightFor(u, t)') <= Cardinality(Calls)
                BY <4>2, FS_Subset, SubscriptionsAssumption
            <4>4. Cardinality(InFlightFor(u, t)') \in Nat
                BY <4>3, FS_CardinalityType
            <4>5. QED  BY <1>1, <4>1, <4>3, <4>4, FS_EmptySet
        <3>4. CASE a # t
            <4>1. InFlightFor(u, t)' \in SUBSET InFlightFor(u, t)
                BY <3>1, <3>4 DEF InFlightFor
            <4>2. QED  BY <2>4, <3>2, <4>1
        <3>5. QED  BY <3>3, <3>4
    <2>7. CASE Stored(u)
        <3>1. PICK c \in InFlight(u), s \in Subs \ Subscribed(u) :
                /\ Subscribed(u)' = Subscribed(u) \cup {s}
                /\ InFlight(u)' = InFlight(u) \ {c}
                /\ topic' = [topic EXCEPT ![s] = wanted[c]]
                /\ \A d \in InFlight(u)' : wanted'[d] = wanted[d]
            BY <2>7 DEF Stored
        <3>2. topic'[s] = wanted[c] /\ \A r \in Subscribed(u) : topic'[r] = topic[r]
            BY <1>3, <3>1 DEF Inv, TypeOK, Subscribed
        <3>3. InFlightFor(u, t)' = InFlightFor(u, t) \ {c}
            BY <3>1 DEF InFlightFor
        <3>4. CASE wanted[c] = t
            <4>1. SubscribedTo(u, t)' = SubscribedTo(u, t) \cup {s}
                BY <3>1, <3>2, <3>4 DEF SubscribedTo
            <4>2. s \notin SubscribedTo(u, t) /\ c \in InFlightFor(u, t)
                BY <3>1, <3>4 DEF SubscribedTo, InFlightFor
            <4>3. Cardinality(SubscribedTo(u, t) \cup {s})
                    + Cardinality(InFlightFor(u, t) \ {c}) <= Cardinality(Calls)
                BY <1>1, <2>2, <2>3, <4>2, MovedCount
            <4>4. QED  BY <3>3, <4>1, <4>3
        <3>5. CASE wanted[c] # t
            <4>1. SubscribedTo(u, t)' \in SUBSET SubscribedTo(u, t)
                BY <3>1, <3>2, <3>5 DEF SubscribedTo
            <4>2. QED  BY <2>4, <3>3, <4>1
        <3>6. QED  BY <3>4, <3>5
    <2>8. QED  BY <1>3, <2>5, <2>6, <2>7, StepCounts
<1>4. Inv /\ DuplicatesBounded /\ [Next]_vars => DuplicatesBounded'
    BY <1>3
<1>5. QED  BY Inductive, <1>2, <1>4, PTL DEF Spec
===============================================================================
