---------------------------- MODULE DeliveryProofs ----------------------------
(* What the components between the streams and their clients promise, each for *)
(* itself: the connection tables, the feeds, the readers of the ticks, the     *)
(* caches of Greeks, the configurations and the events of the registry.        *)
EXTENDS Connections, FrequencyFeed, TickStreams, GreeksCache, SignalConfigs, RegistryEvents,
        FiniteSetTheorems, FunctionTheorems, TLAPS
-------------------------------------------------------------------------------
(* The tables of the connections and the work done for their clients.          *)

USE ConnectionsAssumption DEF ConnectionsAssumption, Awaiting

LEMMA OwnersAreClients ==
    ASSUME NEW s \in Sockets
    PROVE  Owner[s] \in Clients /\ {Owner[s]} \in SUBSET Clients
  <1>1. Owner[s] \in Clients
    OBVIOUS
  <1> QED BY <1>1

\* A task that waits for Redis waits for a key.
WaitsForKey ==
    \A s \in Sockets : endpoint[s].stage \in {"subscribing", "unsubscribing"} =>
        endpoint[s].key \in SubKeys

ConnectionsInv == ConnectionsPromise /\ WaitsForKey

\* What a task is doing is what it was set to.
LEMMA AtIs ==
    ASSUME NEW stage, NEW k
    PROVE  At(stage, k).stage = stage /\ At(stage, k).key = k
  BY DEF At

LEMMA EndpointMoves ==
    ASSUME ConnectionsTypeOK, NEW s \in Sockets, NEW stage \in Stages,
           NEW k \in SubKeys \cup {NoKey}, endpoint' = [endpoint EXCEPT ![s] = At(stage, k)]
    PROVE  /\ endpoint' \in [Sockets -> [stage : Stages, key : SubKeys \cup {NoKey}]]
           /\ endpoint'[s] = At(stage, k)
           /\ endpoint'[s].stage = stage /\ endpoint'[s].key = k
           /\ \A r \in Sockets : r # s => endpoint'[r] = endpoint[r]
  <1>1. At(stage, k) \in [stage : Stages, key : SubKeys \cup {NoKey}]
    BY DEF At
  <1> QED BY <1>1, AtIs DEF ConnectionsTypeOK

LEMMA ConnectionsInitially == ConnectionsInit => ConnectionsInv
  <1> SUFFICES ASSUME ConnectionsInit PROVE ConnectionsInv
    OBVIOUS
  <1>1. At("new", NoKey) \in [stage : Stages, key : SubKeys \cup {NoKey}]
    BY DEF At, Stages
  <1>2. ConnectionsTypeOK
    BY <1>1 DEF ConnectionsInit, ConnectionsTypeOK
  <1>3. WaitsForKey
    BY AtIs DEF ConnectionsInit, WaitsForKey
  <1>4. AskedIsListed /\ ListedIsHeard
    BY DEF ConnectionsInit, AskedIsListed, ListedIsHeard
  <1> QED BY <1>2, <1>3, <1>4 DEF ConnectionsInv, ConnectionsPromise

\* Whoever leaves takes his name, and nobody else's, from the tables; an entry that
\* somebody is left in stays, and no entry is made.
TablesForget(gone) ==
    /\ activeConnections' \in [Clients -> Sockets \cup {NoSocket}]
    /\ connectionSubscriptions' \in [Clients -> SUBSET SubKeys]
    /\ \A c \in Clients : activeConnections'[c] = NoSocket => connectionSubscriptions'[c] = {}
    /\ subscriptionEntries' \subseteq subscriptionEntries
    /\ subscribersOf' \in [SubKeys -> SUBSET Clients]
    /\ \A k \in SubKeys \ subscriptionEntries' : subscribersOf'[k] = {}
    /\ \A c \in Clients : \A k \in connectionSubscriptions'[c] :
          /\ c \notin gone
          /\ k \in connectionSubscriptions[c]
          /\ c \in subscribersOf[k] => c \in subscribersOf'[k]

LEMMA DisconnectForgets ==
    ASSUME ConnectionsTypeOK, NEW gone \in SUBSET Clients, Disconnect(gone)
    PROVE  TablesForget(gone)
  <1> USE DEF Disconnect, DropEntries
  <1>1. /\ activeConnections' \in [Clients -> Sockets \cup {NoSocket}]
        /\ connectionSubscriptions' \in [Clients -> SUBSET SubKeys]
        /\ \A c \in Clients : activeConnections'[c] = NoSocket => connectionSubscriptions'[c] = {}
    BY DEF ConnectionsTypeOK
  <1>2. /\ subscriptionEntries' \subseteq subscriptionEntries
        /\ subscribersOf' \in [SubKeys -> SUBSET Clients]
    BY DEF ConnectionsTypeOK
  <1>3. \A k \in SubKeys \ subscriptionEntries' : subscribersOf'[k] = {}
    <2> SUFFICES ASSUME NEW k \in SubKeys \ subscriptionEntries'
                 PROVE  subscribersOf'[k] = {}
      OBVIOUS
    <2>1. CASE k \in subscriptionEntries
      BY <2>1
    <2>2. CASE k \notin subscriptionEntries
      BY <2>2 DEF ConnectionsTypeOK
    <2> QED BY <2>1, <2>2
  <1>4. \A c \in Clients : \A k \in connectionSubscriptions'[c] :
                 /\ c \notin gone
                 /\ k \in connectionSubscriptions[c]
                 /\ c \in subscribersOf[k] => c \in subscribersOf'[k]
    BY <1>1 DEF ConnectionsTypeOK
  <1> QED BY <1>1, <1>2, <1>3, <1>4 DEF TablesForget

\* The end of an endpoint: its client leaves, and what the others wait for stays.
LEMMA EndEndpointKeeps ==
    ASSUME ConnectionsInv, NEW s \in Sockets, EndEndpoint(s), doomed' = doomed,
           channels \subseteq channels', channels' \subseteq SubKeys,
           unheard' \in [SubKeys -> SUBSET {"not subscribed", "unsubscribed late"}],
           \A k \in SubKeys : unheard[k] # {} => unheard'[k] # {},
           \A k \in SubKeys : endpoint[s] = At("subscribing", k) /\ k \in subscriptionEntries
              => k \in channels' \/ unheard'[k] # {}
    PROVE  ConnectionsInv'
  <1>1. TablesForget({Owner[s]})
    <2>1. {Owner[s]} \in SUBSET Clients
      BY OwnersAreClients
    <2>2. Disconnect({Owner[s]})
      BY DEF EndEndpoint
    <2> QED BY <2>1, <2>2, DisconnectForgets DEF ConnectionsInv, ConnectionsPromise
  <1>2. /\ endpoint' \in [Sockets -> [stage : Stages, key : SubKeys \cup {NoKey}]]
        /\ endpoint'[s].stage = "gone"
        /\ \A r \in Sockets : r # s => endpoint'[r] = endpoint[r]
    <2>1. "gone" \in Stages
      BY DEF Stages
    <2> QED BY <2>1, EndpointMoves DEF EndEndpoint, ConnectionsInv, ConnectionsPromise
  <1>3. ConnectionsTypeOK'
    BY <1>1, <1>2 DEF TablesForget, ConnectionsInv, ConnectionsPromise, ConnectionsTypeOK
  <1>5. WaitsForKey'
    BY <1>2 DEF ConnectionsInv, WaitsForKey
  <1>6. AskedIsListed'
    <2> SUFFICES ASSUME NEW c \in Clients, NEW k \in connectionSubscriptions'[c],
                        c \notin subscribersOf'[k]
                 PROVE  \E r \in Sockets : Owner[r] = c /\ endpoint'[r] = At("subscribing", k)
      BY DEF AskedIsListed
    <2>1. c # Owner[s] /\ k \in connectionSubscriptions[c] /\ c \notin subscribersOf[k]
      BY <1>1 DEF TablesForget
    <2>2. PICK r \in Sockets : Owner[r] = c /\ endpoint[r] = At("subscribing", k)
      BY <2>1 DEF ConnectionsInv, ConnectionsPromise, AskedIsListed
    <2> QED BY <2>1, <2>2, <1>2
  <1>7. ListedIsHeard'
    <2> SUFFICES ASSUME NEW k \in subscriptionEntries', k \notin channels', unheard'[k] = {}
                 PROVE  Pending(k, "subscribing")'
      BY DEF ListedIsHeard
    <2>1. k \in subscriptionEntries /\ k \in SubKeys
      BY <1>1 DEF TablesForget, ConnectionsInv, ConnectionsPromise, ConnectionsTypeOK
    <2>2. k \notin channels /\ unheard[k] = {}
      BY <2>1
    <2>3. PICK r \in Sockets : endpoint[r] = At("subscribing", k)
      BY <2>1, <2>2 DEF ConnectionsInv, ConnectionsPromise, ListedIsHeard, Pending
    <2>4. r # s
      BY <2>1, <2>3
    <2> QED BY <2>3, <2>4, <1>2 DEF Pending
  <1> QED BY <1>3, <1>5, <1>6, <1>7 DEF ConnectionsInv, ConnectionsPromise

\* A task that reads, or has been answered, waits for nothing.
LEMMA NotPending ==
    ASSUME NEW s \in Sockets, endpoint[s].stage # "subscribing", NEW k
    PROVE  endpoint[s] # At("subscribing", k)
  BY AtIs

\* What was asked stays listed or pending as long as nobody loses either.
LEMMA AskedStays ==
    ASSUME AskedIsListed, NEW s \in Sockets,
           \A r \in Sockets : r # s => endpoint'[r] = endpoint[r],
           \A c \in Clients : \A k \in connectionSubscriptions'[c] :
              \/ c \in subscribersOf'[k]
              \/ Owner[s] = c /\ endpoint'[s] = At("subscribing", k)
              \/ /\ k \in connectionSubscriptions[c] /\ c \notin subscribersOf[k]
                 /\ endpoint[s] # At("subscribing", k)
    PROVE  AskedIsListed'
  BY DEF AskedIsListed

LEMMA HeardStays ==
    ASSUME ListedIsHeard, NEW s \in Sockets,
           \A r \in Sockets : r # s => endpoint'[r] = endpoint[r],
           \A k \in subscriptionEntries' :
              \/ k \in channels' \/ unheard'[k] # {}
              \/ endpoint'[s] = At("subscribing", k)
              \/ /\ k \in subscriptionEntries /\ k \notin channels /\ unheard[k] = {}
                 /\ endpoint[s] # At("subscribing", k)
    PROVE  ListedIsHeard'
  BY DEF ListedIsHeard, Pending

LEMMA WaitsStay ==
    ASSUME WaitsForKey, NEW s \in Sockets,
           \A r \in Sockets : r # s => endpoint'[r] = endpoint[r],
           \/ endpoint'[s].stage \notin {"subscribing", "unsubscribing"}
           \/ endpoint'[s].key \in SubKeys
    PROVE  WaitsForKey'
  BY DEF WaitsForKey

LEMMA ConnectKeeps ==
    ASSUME ConnectionsInv, NEW s \in Sockets, Connect(s)
    PROVE  ConnectionsInv'
  <1>0. ConnectionsTypeOK /\ AskedIsListed /\ ListedIsHeard /\ WaitsForKey
    BY DEF ConnectionsInv, ConnectionsPromise
  <1>1. /\ endpoint' \in [Sockets -> [stage : Stages, key : SubKeys \cup {NoKey}]]
        /\ endpoint'[s].stage = "reading"
        /\ \A r \in Sockets : r # s => endpoint'[r] = endpoint[r]
    BY <1>0, EndpointMoves DEF Stages, Connect
  <1>2. /\ connectionSubscriptions' \in [Clients -> SUBSET SubKeys]
        /\ connectionSubscriptions'[Owner[s]] = {}
        /\ \A c \in Clients : c # Owner[s] =>
              connectionSubscriptions'[c] = connectionSubscriptions[c]
    BY <1>0, OwnersAreClients DEF ConnectionsTypeOK, Connect
  <1>3. /\ activeConnections' \in [Clients -> Sockets \cup {NoSocket}]
        /\ \A c \in Clients : c # Owner[s] => activeConnections'[c] = activeConnections[c]
    BY <1>0 DEF ConnectionsTypeOK, Connect
  <1>4. ConnectionsTypeOK'
    BY <1>0, <1>1, <1>2, <1>3 DEF ConnectionsTypeOK, Connect
  <1>5. endpoint[s].stage = "new" /\ UNCHANGED <<subscriptionEntries, subscribersOf, channels, unheard>>
    BY DEF Connect
  <1>6. \A k : endpoint[s] # At("subscribing", k)
    BY <1>5, NotPending
  <1>7. WaitsForKey'
    BY <1>0, <1>1, WaitsStay
  <1>8. AskedIsListed'
    BY <1>0, <1>1, <1>2, <1>5, <1>6, AskedStays
  <1>9. ListedIsHeard'
    BY <1>0, <1>1, <1>5, <1>6, HeardStays
  <1> QED BY <1>4, <1>7, <1>8, <1>9 DEF ConnectionsInv, ConnectionsPromise

LEMMA SubscribeKeyKeeps ==
    ASSUME ConnectionsInv, NEW s \in Sockets, NEW k \in SubKeys, SubscribeKey(s, k)
    PROVE  ConnectionsInv'
  <1>0. ConnectionsTypeOK /\ AskedIsListed /\ ListedIsHeard /\ WaitsForKey
    BY DEF ConnectionsInv, ConnectionsPromise
  <1>1. endpoint[s].stage = "reading" /\ UNCHANGED <<activeConnections, channels, doomed, unheard>>
    BY DEF SubscribeKey
  <1>2. \A j : endpoint[s] # At("subscribing", j)
    BY <1>1, NotPending
  <1>3. /\ connectionSubscriptions' \in [Clients -> SUBSET SubKeys]
        /\ connectionSubscriptions'[Owner[s]] = connectionSubscriptions[Owner[s]] \cup {k}
        /\ \A c \in Clients : c # Owner[s] =>
              connectionSubscriptions'[c] = connectionSubscriptions[c]
        /\ activeConnections[Owner[s]] # NoSocket
    BY <1>0, OwnersAreClients DEF ConnectionsTypeOK, SubscribeKey
  <1>4. CASE k \in subscriptionEntries
    <2>0. /\ subscribersOf' = [subscribersOf EXCEPT ![k] = @ \cup {Owner[s]}]
          /\ UNCHANGED <<subscriptionEntries, endpoint>>
      BY <1>4 DEF SubscribeKey
    <2>1. /\ subscribersOf' \in [SubKeys -> SUBSET Clients]
          /\ subscribersOf'[k] = subscribersOf[k] \cup {Owner[s]}
          /\ \A j \in SubKeys : j # k => subscribersOf'[j] = subscribersOf[j]
          /\ UNCHANGED <<subscriptionEntries, endpoint>>
      BY <1>0, <2>0, OwnersAreClients DEF ConnectionsTypeOK
    <2>2. ConnectionsTypeOK'
      BY <1>0, <1>1, <1>3, <1>4, <2>1 DEF ConnectionsTypeOK
    <2>3. WaitsForKey'
      BY <1>0, <2>1 DEF WaitsForKey
    <2>4. AskedIsListed'
      <3>1. \A c \in Clients : connectionSubscriptions'[c] \subseteq SubKeys
        BY <1>3
      <3> QED BY <1>0, <1>2, <1>3, <2>1, <3>1, AskedStays
    <2>5. ListedIsHeard'
      BY <1>0, <1>1, <1>2, <2>1, HeardStays
    <2> QED BY <2>2, <2>3, <2>4, <2>5 DEF ConnectionsInv, ConnectionsPromise
  <1>5. CASE k \notin subscriptionEntries
    <2>1. /\ subscriptionEntries' = subscriptionEntries \cup {k}
          /\ endpoint' = [endpoint EXCEPT ![s] = At("subscribing", k)]
          /\ subscribersOf' = subscribersOf
      BY <1>5 DEF SubscribeKey
    <2>2. /\ endpoint' \in [Sockets -> [stage : Stages, key : SubKeys \cup {NoKey}]]
          /\ endpoint'[s] = At("subscribing", k) /\ endpoint'[s].key = k
          /\ \A r \in Sockets : r # s => endpoint'[r] = endpoint[r]
      BY <1>0, <2>1, EndpointMoves DEF Stages
    <2>3. ConnectionsTypeOK'
      BY <1>0, <1>1, <1>3, <2>1, <2>2 DEF ConnectionsTypeOK
    <2>4. WaitsForKey'
      BY <1>0, <2>2, WaitsStay
    <2>5. AskedIsListed'
      BY <1>0, <1>2, <1>3, <2>1, <2>2, AskedStays
    <2>6. ListedIsHeard'
      BY <1>0, <1>1, <1>2, <2>1, <2>2, HeardStays
    <2> QED BY <2>3, <2>4, <2>5, <2>6 DEF ConnectionsInv, ConnectionsPromise
  <1> QED BY <1>4, <1>5

\* The entry is still there: the client is listed, and the channel is open.
LEMMA SubscribeReturnsKeeps ==
    ASSUME ConnectionsInv, NEW s \in Sockets, SubscribeReturns(s)
    PROVE  ConnectionsInv'
  <1> DEFINE k == endpoint[s].key
  <1>0. ConnectionsTypeOK /\ AskedIsListed /\ ListedIsHeard /\ WaitsForKey
    BY DEF ConnectionsInv, ConnectionsPromise
  <1>1. k \in SubKeys
    BY <1>0 DEF SubscribeReturns, WaitsForKey
  <1>2. \A j : endpoint[s] = At("subscribing", j) => j = k
    BY AtIs
  <1>3. channels' = channels \cup {k} /\ UNCHANGED <<doomed, unheard>>
    BY DEF SubscribeReturns
  <1>4. channels' \subseteq SubKeys
    BY <1>0, <1>1, <1>3 DEF ConnectionsTypeOK
  <1>5. CASE k \notin subscriptionEntries
    <2>1. EndEndpoint(s)
      BY <1>5 DEF SubscribeReturns
    <2>2. unheard' \in [SubKeys -> SUBSET {"not subscribed", "unsubscribed late"}]
      BY <1>0, <1>3 DEF ConnectionsTypeOK
    <2> QED BY <1>2, <1>3, <1>4, <1>5, <2>1, <2>2, EndEndpointKeeps
  <1>6. CASE k \in subscriptionEntries
    <2>1. /\ subscribersOf' = [subscribersOf EXCEPT ![k] = @ \cup {Owner[s]}]
          /\ endpoint' = [endpoint EXCEPT ![s] = At("reading", NoKey)]
          /\ UNCHANGED <<activeConnections, connectionSubscriptions, subscriptionEntries>>
      BY <1>6 DEF SubscribeReturns
    <2>2. /\ endpoint' \in [Sockets -> [stage : Stages, key : SubKeys \cup {NoKey}]]
          /\ endpoint'[s].stage = "reading"
          /\ \A r \in Sockets : r # s => endpoint'[r] = endpoint[r]
      BY <1>0, <2>1, EndpointMoves DEF Stages
    <2>3. /\ subscribersOf' \in [SubKeys -> SUBSET Clients]
          /\ subscribersOf'[k] = subscribersOf[k] \cup {Owner[s]}
          /\ \A j \in SubKeys : j # k => subscribersOf'[j] = subscribersOf[j]
      BY <1>0, <1>1, <2>1, OwnersAreClients DEF ConnectionsTypeOK
    <2>4. ConnectionsTypeOK'
      BY <1>0, <1>3, <1>4, <1>6, <2>1, <2>2, <2>3 DEF ConnectionsTypeOK
    <2>5. WaitsForKey'
      BY <1>0, <2>2, WaitsStay
    <2>6. AskedIsListed'
      <3> SUFFICES ASSUME NEW c \in Clients, NEW j \in connectionSubscriptions[c],
                          c \notin subscribersOf'[j]
                   PROVE  \E r \in Sockets : Owner[r] = c /\ endpoint'[r] = At("subscribing", j)
        BY <2>1 DEF AskedIsListed
      <3>1. j \in SubKeys
        BY <1>0 DEF ConnectionsTypeOK
      <3>2. c \notin subscribersOf[j] /\ ~(j = k /\ c = Owner[s])
        BY <3>1, <2>3
      <3>3. PICK r \in Sockets : Owner[r] = c /\ endpoint[r] = At("subscribing", j)
        BY <1>0, <3>2 DEF AskedIsListed
      <3>4. r # s
        BY <3>2, <3>3, <1>2
      <3> QED BY <3>3, <3>4, <2>2
    <2>7. ListedIsHeard'
      BY <1>0, <1>2, <1>3, <2>1, <2>2, HeardStays
    <2> QED BY <2>4, <2>5, <2>6, <2>7 DEF ConnectionsInv, ConnectionsPromise
  <1> QED BY <1>5, <1>6

\* The entry goes with its last client only.
LEMMA UnsubscribeKeyKeeps ==
    ASSUME ConnectionsInv, NEW s \in Sockets, NEW k \in SubKeys, UnsubscribeKey(s, k)
    PROVE  ConnectionsInv'
  <1>0. ConnectionsTypeOK /\ AskedIsListed /\ ListedIsHeard /\ WaitsForKey
    BY DEF ConnectionsInv, ConnectionsPromise
  <1>1. endpoint[s].stage = "reading" /\ UNCHANGED <<activeConnections, channels, doomed, unheard>>
    BY DEF UnsubscribeKey
  <1>2. \A j : endpoint[s] # At("subscribing", j)
    BY <1>1, NotPending
  <1>3. /\ connectionSubscriptions' \in [Clients -> SUBSET SubKeys]
        /\ connectionSubscriptions'[Owner[s]] = connectionSubscriptions[Owner[s]] \ {k}
        /\ \A c \in Clients : c # Owner[s] =>
              connectionSubscriptions'[c] = connectionSubscriptions[c]
    BY <1>0, OwnersAreClients DEF ConnectionsTypeOK, UnsubscribeKey
  <1>4. /\ subscribersOf' \in [SubKeys -> SUBSET Clients]
        /\ subscribersOf'[k] = subscribersOf[k] \ {Owner[s]}
        /\ \A j \in SubKeys : j # k => subscribersOf'[j] = subscribersOf[j]
    BY <1>0 DEF ConnectionsTypeOK, UnsubscribeKey, LeaveEntry
  <1>5. /\ subscriptionEntries' \subseteq subscriptionEntries
        /\ \A j \in subscriptionEntries \ subscriptionEntries' : subscribersOf'[j] = {}
    BY <1>4 DEF UnsubscribeKey, LeaveEntry
  <1>6. /\ endpoint' \in [Sockets -> [stage : Stages, key : SubKeys \cup {NoKey}]]
        /\ endpoint' = endpoint \/ endpoint'[s].key = k
        /\ \A r \in Sockets : r # s => endpoint'[r] = endpoint[r]
    <2>1. CASE endpoint' = endpoint
      BY <1>0, <2>1 DEF ConnectionsTypeOK
    <2>2. CASE endpoint' = [endpoint EXCEPT ![s] = At("unsubscribing", k)]
      BY <1>0, <2>2, EndpointMoves DEF Stages
    <2> QED BY <2>1, <2>2 DEF UnsubscribeKey, LeaveEntry
  <1>7. ConnectionsTypeOK'
    <2>1. \A c \in Clients : activeConnections'[c] = NoSocket => connectionSubscriptions'[c] = {}
      BY <1>0, <1>1, <1>3 DEF ConnectionsTypeOK
    <2>2. \A j \in SubKeys \ subscriptionEntries' : subscribersOf'[j] = {}
      BY <1>0, <1>4, <1>5 DEF ConnectionsTypeOK
    <2> QED BY <1>0, <1>1, <1>3, <1>4, <1>5, <1>6, <2>1, <2>2 DEF ConnectionsTypeOK
  <1>8. WaitsForKey'
    BY <1>0, <1>1, <1>6, WaitsStay
  <1>9. AskedIsListed'
    <2>1. \A c \in Clients : \A j \in connectionSubscriptions'[c] :
            /\ j \in SubKeys /\ j \in connectionSubscriptions[c] /\ ~(c = Owner[s] /\ j = k)
      BY <1>3
    <2>2. \A c \in Clients : \A j \in connectionSubscriptions'[c] :
            c \in subscribersOf[j] => c \in subscribersOf'[j]
      BY <1>4, <2>1
    <2> QED BY <1>0, <1>2, <1>6, <2>1, <2>2, AskedStays
  <1>10. ListedIsHeard'
    BY <1>0, <1>1, <1>2, <1>5, <1>6, HeardStays
  <1> QED BY <1>7, <1>8, <1>9, <1>10 DEF ConnectionsInv, ConnectionsPromise

LEMMA UnsubscribeReturnsKeeps ==
    ASSUME ConnectionsInv, NEW s \in Sockets, UnsubscribeReturns(s)
    PROVE  ConnectionsInv'
  <1> DEFINE k == endpoint[s].key
  <1>0. ConnectionsTypeOK /\ AskedIsListed /\ ListedIsHeard /\ WaitsForKey
    BY DEF ConnectionsInv, ConnectionsPromise
  <1>1. /\ endpoint[s].stage = "unsubscribing" /\ channels' = channels \ {k}
        /\ UNCHANGED <<activeConnections, connectionSubscriptions, subscriptionEntries,
                       subscribersOf, doomed>>
    BY DEF UnsubscribeReturns
  <1>2. k \in SubKeys /\ \A j : endpoint[s] # At("subscribing", j)
    BY <1>0, <1>1, NotPending DEF WaitsForKey
  <1>3. /\ endpoint' \in [Sockets -> [stage : Stages, key : SubKeys \cup {NoKey}]]
        /\ endpoint'[s].stage = "reading"
        /\ \A r \in Sockets : r # s => endpoint'[r] = endpoint[r]
    BY <1>0, EndpointMoves DEF Stages, UnsubscribeReturns
  <1>4. unheard' \in [SubKeys -> SUBSET {"not subscribed", "unsubscribed late"}]
    BY <1>0 DEF ConnectionsTypeOK, UnsubscribeReturns
  <1>5. /\ k \in subscriptionEntries => unheard'[k] # {}
        /\ \A j \in SubKeys : j # k => unheard'[j] = unheard[j]
    BY <1>0, <1>2 DEF ConnectionsTypeOK, UnsubscribeReturns
  <1>6. ConnectionsTypeOK'
    BY <1>0, <1>1, <1>3, <1>4 DEF ConnectionsTypeOK
  <1>7. WaitsForKey'
    BY <1>0, <1>3, WaitsStay
  <1>8. AskedIsListed'
    BY <1>0, <1>1, <1>2, <1>3, AskedStays
  <1>9. ListedIsHeard'
    <2>1. \A j \in subscriptionEntries : j = k \/ unheard'[j] = unheard[j]
      BY <1>0, <1>5 DEF ConnectionsTypeOK
    <2>2. \A j \in subscriptionEntries :
            \/ j \in channels' \/ unheard'[j] # {}
            \/ j \notin channels /\ unheard[j] = {}
      BY <1>1, <1>5, <2>1
    <2> QED BY <1>0, <1>1, <1>2, <1>3, <2>2, HeardStays
  <1> QED BY <1>6, <1>7, <1>8, <1>9 DEF ConnectionsInv, ConnectionsPromise

LEMMA RedisRaisesKeeps ==
    ASSUME ConnectionsInv, NEW s \in Sockets, RedisRaises(s)
    PROVE  ConnectionsInv'
  <1> DEFINE k == endpoint[s].key
  <1>0. ConnectionsTypeOK /\ k \in SubKeys
    BY DEF ConnectionsInv, ConnectionsPromise, RedisRaises, WaitsForKey
  <1>1. EndEndpoint(s) /\ UNCHANGED <<channels, doomed>> /\ channels \subseteq SubKeys
    BY <1>0 DEF RedisRaises, ConnectionsTypeOK
  <1>2. unheard' \in [SubKeys -> SUBSET {"not subscribed", "unsubscribed late"}]
    BY <1>0 DEF RedisRaises, ConnectionsTypeOK
  <1>3. /\ endpoint[s].stage = "subscribing" => unheard'[k] # {}
        /\ \A j \in SubKeys : j # k => unheard'[j] = unheard[j]
        /\ unheard[k] # {} => unheard'[k] # {}
    BY <1>0 DEF RedisRaises, ConnectionsTypeOK
  <1>4. \A j : endpoint[s] = At("subscribing", j) => j = k /\ endpoint[s].stage = "subscribing"
    BY AtIs
  <1> QED BY <1>1, <1>2, <1>3, <1>4, EndEndpointKeeps

\* The heartbeat disconnects by name, whoever has come back meanwhile.
LEMMA HeartbeatKeeps ==
    ASSUME ConnectionsInv, HeartbeatDisconnects
    PROVE  ConnectionsInv'
  <1>0. ConnectionsTypeOK /\ AskedIsListed /\ ListedIsHeard /\ WaitsForKey
    BY DEF ConnectionsInv, ConnectionsPromise
  <1>1. TablesForget(doomed)
    BY <1>0, DisconnectForgets DEF HeartbeatDisconnects, ConnectionsTypeOK
  <1>2. UNCHANGED <<endpoint, channels, unheard>> /\ doomed' = {}
    BY DEF HeartbeatDisconnects
  <1>3. ConnectionsTypeOK'
    BY <1>0, <1>1, <1>2 DEF TablesForget, ConnectionsTypeOK
  <1>4. WaitsForKey'
    BY <1>0, <1>2 DEF WaitsForKey
  <1>5. AskedIsListed'
    BY <1>0, <1>1, <1>2 DEF TablesForget, AskedIsListed
  <1>6. ListedIsHeard'
    BY <1>0, <1>1, <1>2 DEF TablesForget, ListedIsHeard, Pending
  <1> QED BY <1>3, <1>4, <1>5, <1>6 DEF ConnectionsInv, ConnectionsPromise

\* Until then it only notes whom it could not reach.
LEMMA NotingKeeps ==
    ASSUME ConnectionsInv, doomed' \in SUBSET Clients,
           UNCHANGED <<activeConnections, connectionSubscriptions, subscriptionEntries,
                       subscribersOf, channels, endpoint, unheard>>
    PROVE  ConnectionsInv'
  <1>1. ConnectionsTypeOK /\ AskedIsListed /\ ListedIsHeard /\ WaitsForKey
    BY DEF ConnectionsInv, ConnectionsPromise
  <1>2. ConnectionsTypeOK'
    BY <1>1 DEF ConnectionsTypeOK
  <1>3. WaitsForKey' /\ AskedIsListed'
    BY <1>1 DEF WaitsForKey, AskedIsListed
  <1>4. ListedIsHeard'
    BY <1>1 DEF ListedIsHeard, Pending
  <1> QED BY <1>2, <1>3, <1>4 DEF ConnectionsInv, ConnectionsPromise

\* Whoever asked for a key is listed, and whoever is listed is heard, but for the cases the
\* two properties name (ConnectionManager.subscribe, unsubscribe, disconnect).
THEOREM TablesAgree == ConnectionsSpec => []ConnectionsPromise
  <1>1. ASSUME ConnectionsInv, NEW s \in Sockets, CloseSocket(s) \/ SubscribeForgotten(s)
        PROVE  ConnectionsInv'
    <2>1. EndEndpoint(s) /\ endpoint[s].stage = "reading" /\ UNCHANGED <<channels, doomed, unheard>>
      BY <1>1 DEF CloseSocket, SubscribeForgotten
    <2>2. \A k : endpoint[s] # At("subscribing", k)
      BY <2>1, NotPending
    <2>3. channels \subseteq SubKeys
          /\ unheard \in [SubKeys -> SUBSET {"not subscribed", "unsubscribed late"}]
      BY <1>1 DEF ConnectionsInv, ConnectionsPromise, ConnectionsTypeOK
    <2> QED BY <1>1, <2>1, <2>2, <2>3, EndEndpointKeeps
  <1>2. ASSUME ConnectionsInv,
               HeartbeatAborts \/ (\E c \in Clients : HeartbeatFails(c)) \/ UNCHANGED wsVars
        PROVE  ConnectionsInv'
    <2>1. doomed \in SUBSET Clients
      BY <1>2 DEF ConnectionsInv, ConnectionsPromise, ConnectionsTypeOK
    <2>2. /\ doomed' \in SUBSET Clients
          /\ UNCHANGED <<activeConnections, connectionSubscriptions, subscriptionEntries,
                         subscribersOf, channels, endpoint, unheard>>
      BY <1>2, <2>1 DEF HeartbeatAborts, HeartbeatFails, wsVars
    <2> QED BY <1>2, <2>2, NotingKeeps
  <1>3. ConnectionsInv /\ [ConnectionsNext]_wsVars => ConnectionsInv'
    BY <1>1, <1>2, ConnectKeeps, SubscribeKeyKeeps, SubscribeReturnsKeeps,
       UnsubscribeKeyKeeps, UnsubscribeReturnsKeeps, RedisRaisesKeeps, HeartbeatKeeps
       DEF ConnectionsNext
  <1>4. ConnectionsInv => ConnectionsPromise
    BY DEF ConnectionsInv
  <1> QED BY <1>3, <1>4, ConnectionsInitially, PTL DEF ConnectionsSpec

HIDE ConnectionsAssumption DEF ConnectionsAssumption, Awaiting

-------------------------------------------------------------------------------
(* The feeds at the frequencies of their users.                                *)

USE FeedAssumption DEF FeedAssumption, Unset

FeedsAreFunctions ==
    /\ sinceStart \in [Frequencies -> Nat]
    /\ sinceProcessed \in [Frequencies -> Nat \cup {Unset}]
    /\ batch \in [Frequencies -> SUBSET Users]

\* A result is never late for a user that is subscribed or still has one to come.
NoneIsLateYet ==
    \A u \in Users, f \in Frequencies :
        userFrequency[u] # NoFeed \/ u \in batch[f] => lateCount[u][f] = 0

ComputesInTime == \A f \in Frequencies : feedLoop[f] = "compute" => sinceStart[f] <= ComputeTime

\* How long a user of f may have waited: since the round began, or since the round
\* before it.  In a pause the second means that the next round will not be too soon.
WaitIsBounded(u, f) ==
    \/ waiting[u] <= sinceStart[f]
    \/ /\ feedLoop[f] = "sleep"
       /\ waiting[u] <= Interval[f] + sinceStart[f]
       /\ sinceProcessed[f] # Unset => sinceProcessed[f] >= sinceStart[f]
    \/ /\ feedLoop[f] = "compute" /\ u \in batch[f]
       /\ waiting[u] <= 2 * Interval[f] + sinceStart[f]

WaitsAreBounded ==
    \A u \in Users, f \in Frequencies : userFrequency[u] = f => WaitIsBounded(u, f)

FeedInv ==
    /\ FeedTypeOK
    /\ FeedsAreFunctions
    /\ NoneIsLateYet
    /\ ComputesInTime
    /\ WaitsAreBounded

LEMMA IntervalsAreLong ==
    ASSUME NEW f \in Frequencies
    PROVE  Interval[f] \in Nat /\ Interval[f] > ComputeTime /\ Interval[f] > 0
  OBVIOUS

LEMMA FeedInitially == FeedInit => FeedInv
  <1> SUFFICES ASSUME FeedInit PROVE FeedInv
    OBVIOUS
  <1>1. FeedsAreFunctions /\ FeedTypeOK
    BY IntervalsAreLong DEF FeedInit, FeedTypeOK, FeedsAreFunctions
  <1> QED BY <1>1 DEF FeedInit, FeedInv, NoneIsLateYet, ComputesInTime, WaitsAreBounded

-------------------------------------------------------------------------------
(* Users.                                                                        *)

\* Whoever moves is subscribed where its frequency says, and nowhere else.
LEMMA MoveAgrees ==
    ASSUME FeedTypeOK, NEW u \in Users, NEW to \in Frequencies \cup {NoFeed}, Move(u, to),
           userFrequency' = [userFrequency EXCEPT ![u] = to]
    PROVE  /\ frequencySubscriptions' \in [Frequencies -> SUBSET Users]
           /\ userFrequency' \in [Users -> Frequencies \cup {NoFeed}]
           /\ \A v \in Users, f \in Frequencies :
                 v \in frequencySubscriptions'[f] <=> userFrequency'[v] = f
  <1>1. /\ frequencySubscriptions \in [Frequencies -> SUBSET Users]
        /\ userFrequency \in [Users -> Frequencies \cup {NoFeed}]
        /\ \A v \in Users, f \in Frequencies :
              v \in frequencySubscriptions[f] <=> userFrequency[v] = f
    BY DEF FeedTypeOK
  <1>2. ASSUME NEW f \in Frequencies
        PROVE  frequencySubscriptions'[f] =
                  IF f = to THEN frequencySubscriptions[f] \cup {u}
                  ELSE IF f = userFrequency[u] THEN frequencySubscriptions[f] \ {u}
                  ELSE frequencySubscriptions[f]
    BY DEF Move
  <1>3. frequencySubscriptions' \in [Frequencies -> SUBSET Users]
    BY <1>1 DEF Move
  <1>4. userFrequency' \in [Users -> Frequencies \cup {NoFeed}]
    BY <1>1
  <1>5. ASSUME NEW v \in Users, NEW f \in Frequencies
        PROVE  v \in frequencySubscriptions'[f] <=> userFrequency'[v] = f
    <2>1. v \in frequencySubscriptions[f] <=> userFrequency[v] = f
      BY <1>1
    <2>2. userFrequency'[v] = IF v = u THEN to ELSE userFrequency[v]
      BY <1>1
    <2> QED BY <2>1, <2>2, <1>2
  <1> QED BY <1>3, <1>4, <1>5

LEMMA UpdateKeeps ==
    ASSUME FeedInv, NEW u \in Users, NEW f \in Frequencies, UpdateSubscriptionFrequency(u, f)
    PROVE  FeedInv'
  <1>0. FeedTypeOK /\ FeedsAreFunctions /\ NoneIsLateYet /\ ComputesInTime /\ WaitsAreBounded
    BY DEF FeedInv
  <1>1. UNCHANGED <<feedLoop, sinceStart, sinceProcessed, batch>>
    BY DEF UpdateSubscriptionFrequency
  <1>2. FeedTypeOK'
    <2>1. Move(u, f) /\ userFrequency' = [userFrequency EXCEPT ![u] = f]
      BY DEF UpdateSubscriptionFrequency
    <2>2. waiting' \in [Users -> Nat] /\ lateCount' \in [Users -> [Frequencies -> 0 .. 1]]
      BY <1>0 DEF FeedTypeOK, UpdateSubscriptionFrequency
    <2> QED BY <1>0, <1>1, <2>1, <2>2, MoveAgrees DEF FeedTypeOK
  <1>3. FeedsAreFunctions' /\ ComputesInTime'
    BY <1>0, <1>1 DEF FeedsAreFunctions, ComputesInTime
  <1>4. NoneIsLateYet'
    BY <1>0, <1>1 DEF NoneIsLateYet, FeedTypeOK, UpdateSubscriptionFrequency
  <1>5. WaitsAreBounded'
    <2> SUFFICES ASSUME NEW v \in Users, NEW g \in Frequencies, userFrequency'[v] = g
                 PROVE  WaitIsBounded(v, g)'
      BY DEF WaitsAreBounded
    <2>1. CASE v = u /\ userFrequency[u] # f
      <3>1. waiting'[v] = 0 /\ sinceStart'[g] \in Nat
        BY <2>1, <1>0, <1>1 DEF FeedTypeOK, FeedsAreFunctions, UpdateSubscriptionFrequency
      <3> QED BY <3>1 DEF WaitIsBounded
    <2>2. CASE ~(v = u /\ userFrequency[u] # f)
      <3>1. userFrequency[v] = g /\ waiting'[v] = waiting[v]
        BY <2>2, <1>0 DEF FeedTypeOK, UpdateSubscriptionFrequency
      <3> QED BY <3>1, <1>0, <1>1 DEF WaitsAreBounded, WaitIsBounded
    <2> QED BY <2>1, <2>2
  <1> QED BY <1>2, <1>3, <1>4, <1>5 DEF FeedInv

LEMMA RemoveKeeps ==
    ASSUME FeedInv, NEW u \in Users, RemoveSubscription(u)
    PROVE  FeedInv'
  <1>0. FeedTypeOK /\ FeedsAreFunctions /\ NoneIsLateYet /\ ComputesInTime /\ WaitsAreBounded
    BY DEF FeedInv
  <1>1. UNCHANGED <<feedLoop, sinceStart, sinceProcessed, batch, lateCount>>
    BY DEF RemoveSubscription
  <1>2. FeedTypeOK'
    <2>1. Move(u, NoFeed) /\ userFrequency' = [userFrequency EXCEPT ![u] = NoFeed]
      BY DEF RemoveSubscription
    <2>2. waiting' \in [Users -> Nat]
      BY <1>0 DEF FeedTypeOK, RemoveSubscription
    <2> QED BY <1>0, <1>1, <2>1, <2>2, MoveAgrees DEF FeedTypeOK
  <1>3. FeedsAreFunctions' /\ ComputesInTime'
    BY <1>0, <1>1 DEF FeedsAreFunctions, ComputesInTime
  <1>4. NoneIsLateYet'
    BY <1>0, <1>1 DEF NoneIsLateYet, FeedTypeOK, RemoveSubscription
  <1>5. WaitsAreBounded'
    BY <1>0, <1>1 DEF WaitsAreBounded, WaitIsBounded, FeedTypeOK, RemoveSubscription
  <1> QED BY <1>2, <1>3, <1>4, <1>5 DEF FeedInv

-------------------------------------------------------------------------------
(* The loop of a frequency.                                                      *)

LEMMA StartRoundKeeps ==
    ASSUME FeedInv, NEW f \in Frequencies, StartRound(f)
    PROVE  FeedInv'
  <1>0. FeedTypeOK /\ FeedsAreFunctions /\ NoneIsLateYet /\ ComputesInTime /\ WaitsAreBounded
    BY DEF FeedInv
  <1>1. UNCHANGED <<frequencySubscriptions, userFrequency, sinceProcessed, waiting, lateCount>>
    BY DEF StartRound
  <1>2. feedLoop[f] = "sleep" /\ sinceStart[f] = Interval[f] /\ batch[f] = {}
    BY <1>0 DEF StartRound, Due, FeedTypeOK
  <1>3. sinceStart' = [sinceStart EXCEPT ![f] = 0]
    BY DEF StartRound
  <1>4. FeedsAreFunctions'
    BY <1>0, <1>1, <1>3 DEF FeedsAreFunctions, FeedTypeOK, StartRound
  <1>5. FeedTypeOK'
    <2>1. /\ feedLoop' \in [Frequencies -> {"sleep", "compute", "publish"}]
          /\ \A g \in Frequencies : feedLoop'[g] = "sleep" => batch'[g] = {}
      <3>1. CASE feedLoop' = feedLoop /\ batch' = batch
        BY <3>1, <1>0 DEF FeedTypeOK
      <3>2. CASE /\ feedLoop' = [feedLoop EXCEPT ![f] = "compute"]
                 /\ batch' = [batch EXCEPT ![f] = frequencySubscriptions[f]]
        BY <3>2, <1>0 DEF FeedsAreFunctions, FeedTypeOK
      <3> QED BY <3>1, <3>2 DEF StartRound
    <2>2. \A g \in Frequencies : sinceStart'[g] \in 0 .. Interval[g]
      BY <1>0, <1>3, IntervalsAreLong DEF FeedsAreFunctions, FeedTypeOK
    <2> QED BY <2>1, <2>2, <1>0, <1>1 DEF FeedTypeOK
  <1>6. NoneIsLateYet'
    BY <1>0, <1>1 DEF NoneIsLateYet, FeedTypeOK, FeedsAreFunctions, StartRound
  <1>7. ComputesInTime'
    BY <1>0, <1>3 DEF ComputesInTime, FeedTypeOK, FeedsAreFunctions, StartRound
  <1>8. WaitsAreBounded'
    <2> SUFFICES ASSUME NEW v \in Users, NEW g \in Frequencies, userFrequency[v] = g
                 PROVE  WaitIsBounded(v, g)'
      BY <1>1 DEF WaitsAreBounded
    <2>0. WaitIsBounded(v, g)
      BY <1>0 DEF WaitsAreBounded
    <2>1. CASE g = f
      <3>1. v \in frequencySubscriptions[f] /\ waiting[v] \in Nat
        BY <2>1, <1>0 DEF FeedTypeOK
      <3>2. /\ sinceStart'[f] = 0 /\ waiting'[v] = waiting[v]
            /\ sinceProcessed'[f] = sinceProcessed[f]
            /\ sinceProcessed[f] \in 0 .. Interval[f] \/ sinceProcessed[f] = Unset
        BY <1>0, <1>1, <1>3 DEF FeedsAreFunctions, FeedTypeOK
      <3>3. Interval[f] \in Nat /\ Interval[f] > 0
        BY IntervalsAreLong
      <3>4. CASE TooSoon(f)
        <4>1. feedLoop' = feedLoop
          BY <3>4 DEF StartRound
        <4>2. sinceProcessed[f] \in Nat /\ 10 * sinceProcessed[f] < 9 * Interval[f]
          BY <3>4, <3>2, <3>3 DEF TooSoon
        <4>3. waiting[v] <= Interval[f]
          BY <4>2, <3>1, <3>3, <2>0, <2>1, <1>2 DEF WaitIsBounded
        <4>4. feedLoop'[f] = "sleep" /\ waiting'[v] <= Interval[f] + sinceStart'[f]
          BY <4>1, <4>3, <3>1, <3>2, <3>3, <1>2
        <4>5. sinceProcessed'[f] >= sinceStart'[f]
          BY <4>2, <3>2
        <4> QED BY <4>4, <4>5, <2>1 DEF WaitIsBounded
      <3>5. CASE ~TooSoon(f)
        <4>1. feedLoop'[f] = "compute" /\ v \in batch'[f]
          BY <3>5, <3>1, <1>0 DEF StartRound, FeedTypeOK, FeedsAreFunctions
        <4>2. waiting[v] <= 2 * Interval[f]
          BY <3>1, <3>3, <2>0, <2>1, <1>2 DEF WaitIsBounded
        <4>3. waiting'[v] <= 2 * Interval[f] + sinceStart'[f]
          BY <4>2, <3>1, <3>2, <3>3
        <4> QED BY <4>1, <4>3, <2>1 DEF WaitIsBounded
      <3> QED BY <3>4, <3>5
    <2>2. CASE g # f
      <3>1. feedLoop'[g] = feedLoop[g] /\ batch'[g] = batch[g] /\ sinceStart'[g] = sinceStart[g]
        BY <2>2, <1>0, <1>3 DEF StartRound, FeedTypeOK, FeedsAreFunctions
      <3> QED BY <3>1, <2>0, <1>1 DEF WaitIsBounded
    <2> QED BY <2>1, <2>2
  <1> QED BY <1>4, <1>5, <1>6, <1>7, <1>8 DEF FeedInv

\* What a computation leaves of a user's wait.
LEMMA ServedWaits ==
    ASSUME FeedInv, NEW f \in Frequencies, feedLoop[f] = "compute", waiting' = Served(f),
           UNCHANGED <<userFrequency, sinceStart>>,
           NEW next \in {"sleep", "publish"}, feedLoop' = [feedLoop EXCEPT ![f] = next],
           \A g \in Frequencies \ {f} :
              batch'[g] = batch[g] /\ sinceProcessed'[g] = sinceProcessed[g]
    PROVE  WaitsAreBounded' /\ waiting' \in [Users -> Nat]
  <1>0. FeedTypeOK /\ FeedsAreFunctions /\ WaitsAreBounded
    BY DEF FeedInv
  <1>1. waiting' \in [Users -> Nat]
    BY <1>0 DEF Served, FeedTypeOK
  <1>2. ASSUME NEW v \in Users, NEW g \in Frequencies, userFrequency[v] = g
        PROVE  WaitIsBounded(v, g)'
    <2>0. WaitIsBounded(v, g) /\ waiting[v] \in Nat /\ sinceStart[g] \in Nat
      BY <1>0, <1>2 DEF WaitsAreBounded, FeedTypeOK, FeedsAreFunctions
    <2>1. CASE g = f
      <3>1. waiting'[v] <= sinceStart[f]
        BY <2>0, <2>1, <1>2 DEF Served, WaitIsBounded
      <3> QED BY <3>1, <2>1 DEF WaitIsBounded
    <2>2. CASE g # f
      <3>1. waiting'[v] = waiting[v]
        BY <2>2, <1>0, <1>2 DEF Served
      <3>2. /\ feedLoop'[g] = feedLoop[g] /\ batch'[g] = batch[g]
            /\ sinceStart'[g] = sinceStart[g] /\ sinceProcessed'[g] = sinceProcessed[g]
        BY <2>2, <1>0 DEF FeedTypeOK
      <3> QED BY <3>1, <3>2, <2>0 DEF WaitIsBounded
    <2> QED BY <2>1, <2>2
  <1> QED BY <1>1, <1>2 DEF WaitsAreBounded

LEMMA ComputationSucceedsKeeps ==
    ASSUME FeedInv, NEW f \in Frequencies, ComputationSucceeds(f)
    PROVE  FeedInv'
  <1>0. FeedTypeOK /\ FeedsAreFunctions /\ NoneIsLateYet /\ ComputesInTime
    BY DEF FeedInv
  <1>1. WaitsAreBounded' /\ waiting' \in [Users -> Nat]
    BY <1>0, ServedWaits DEF ComputationSucceeds, FeedsAreFunctions
  <1>2. FeedTypeOK'
    BY <1>0, <1>1, IntervalsAreLong DEF ComputationSucceeds, FeedTypeOK, FeedsAreFunctions
  <1>3. FeedsAreFunctions'
    BY <1>0 DEF ComputationSucceeds, FeedsAreFunctions
  <1>4. NoneIsLateYet' /\ ComputesInTime'
    BY <1>0 DEF ComputationSucceeds, NoneIsLateYet, ComputesInTime, FeedTypeOK
  <1> QED BY <1>1, <1>2, <1>3, <1>4 DEF FeedInv

LEMMA ComputationFailsKeeps ==
    ASSUME FeedInv, NEW f \in Frequencies, ComputationFails(f)
    PROVE  FeedInv'
  <1>0. FeedTypeOK /\ FeedsAreFunctions /\ NoneIsLateYet /\ ComputesInTime
    BY DEF FeedInv
  <1>1. WaitsAreBounded' /\ waiting' \in [Users -> Nat]
    BY <1>0, ServedWaits DEF ComputationFails, FeedsAreFunctions
  <1>2. FeedTypeOK'
    BY <1>0, <1>1 DEF ComputationFails, FeedTypeOK, FeedsAreFunctions
  <1>3. FeedsAreFunctions'
    BY <1>0 DEF ComputationFails, FeedsAreFunctions
  <1>4. NoneIsLateYet' /\ ComputesInTime'
    BY <1>0 DEF ComputationFails, NoneIsLateYet, ComputesInTime, FeedTypeOK, FeedsAreFunctions
  <1> QED BY <1>1, <1>2, <1>3, <1>4 DEF FeedInv

LEMMA PublishKeeps ==
    ASSUME FeedInv, NEW f \in Frequencies, NEW u \in Users, PublishTo(f, u)
    PROVE  FeedInv'
  <1>0. FeedTypeOK /\ FeedsAreFunctions /\ NoneIsLateYet /\ ComputesInTime /\ WaitsAreBounded
    BY DEF FeedInv
  <1>1. UNCHANGED <<frequencySubscriptions, userFrequency, feedLoop, sinceStart,
                    sinceProcessed, waiting>>
    BY DEF PublishTo
  <1>2. batch' = [batch EXCEPT ![f] = @ \ {u}] /\ feedLoop[f] = "publish" /\ u \in batch[f]
    BY DEF PublishTo
  <1>3. lateCount[u][f] = 0
    BY <1>0, <1>2 DEF NoneIsLateYet
  <1>4. lateCount' \in [Users -> [Frequencies -> 0 .. 1]]
    <2>1. lateCount[u] \in [Frequencies -> 0 .. 1]
      BY <1>0 DEF FeedTypeOK
    <2>2. [lateCount[u] EXCEPT ![f] = @ + 1] \in [Frequencies -> 0 .. 1]
      BY <2>1, <1>3
    <2> QED BY <2>2, <1>0 DEF PublishTo, FeedTypeOK
  <1>5. FeedTypeOK' /\ FeedsAreFunctions'
    BY <1>0, <1>1, <1>2, <1>4 DEF FeedTypeOK, FeedsAreFunctions
  <1>6. NoneIsLateYet'
    <2> SUFFICES ASSUME NEW v \in Users, NEW g \in Frequencies,
                        userFrequency[v] # NoFeed \/ v \in batch'[g]
                 PROVE  lateCount'[v][g] = 0
      BY <1>1 DEF NoneIsLateYet
    <2>1. batch'[g] \subseteq batch[g]
      BY <1>0, <1>2 DEF FeedsAreFunctions
    <2>2. lateCount[v][g] = 0
      BY <2>1, <1>0 DEF NoneIsLateYet
    <2>3. ~(v = u /\ g = f /\ userFrequency[u] = NoFeed)
      BY <1>0, <1>2 DEF FeedsAreFunctions
    <2> QED BY <2>2, <2>3, <1>0 DEF PublishTo, FeedTypeOK
  <1>7. ComputesInTime'
    BY <1>0, <1>1 DEF ComputesInTime
  <1>8. WaitsAreBounded'
    BY <1>0, <1>1, <1>2 DEF WaitsAreBounded, WaitIsBounded, FeedTypeOK, FeedsAreFunctions
  <1> QED BY <1>5, <1>6, <1>7, <1>8 DEF FeedInv

LEMMA EndRoundKeeps ==
    ASSUME FeedInv, NEW f \in Frequencies, EndRound(f)
    PROVE  FeedInv'
  <1>0. FeedTypeOK /\ FeedsAreFunctions /\ NoneIsLateYet /\ ComputesInTime /\ WaitsAreBounded
    BY DEF FeedInv
  <1>1. FeedTypeOK' /\ FeedsAreFunctions'
    BY <1>0 DEF EndRound, FeedTypeOK, FeedsAreFunctions
  <1>2. NoneIsLateYet' /\ ComputesInTime'
    BY <1>0 DEF EndRound, NoneIsLateYet, ComputesInTime, FeedTypeOK, FeedsAreFunctions
  <1>3. WaitsAreBounded'
    BY <1>0 DEF EndRound, WaitsAreBounded, WaitIsBounded, FeedTypeOK, FeedsAreFunctions
  <1> QED BY <1>1, <1>2, <1>3 DEF FeedInv

LEMMA TickKeeps ==
    ASSUME FeedInv, FeedTick
    PROVE  FeedInv'
  <1>0. FeedTypeOK /\ FeedsAreFunctions /\ NoneIsLateYet /\ ComputesInTime /\ WaitsAreBounded
    BY DEF FeedInv
  <1>1. UNCHANGED <<frequencySubscriptions, userFrequency, feedLoop, batch, lateCount>>
    BY DEF FeedTick
  <1>2. ASSUME NEW f \in Frequencies
        PROVE  /\ sinceStart[f] \in Nat /\ sinceStart'[f] = sinceStart[f] + 1
               /\ sinceStart'[f] <= Interval[f]
               /\ feedLoop[f] = "compute" => sinceStart'[f] <= ComputeTime
               /\ feedLoop[f] # "publish"
    BY <1>0, IntervalsAreLong DEF FeedTick, FeedsAreFunctions
  <1>3. ASSUME NEW f \in Frequencies
        PROVE  /\ sinceProcessed'[f] \in {Unset} \cup (0 .. Interval[f])
               /\ sinceProcessed'[f] # Unset =>
                     /\ sinceProcessed[f] # Unset
                     /\ \/ sinceProcessed'[f] = Interval[f]
                        \/ sinceProcessed'[f] = sinceProcessed[f] + 1
    <2>1. sinceProcessed[f] \in {Unset} \cup (0 .. Interval[f]) /\ Interval[f] \in Nat
      BY <1>0, IntervalsAreLong DEF FeedTypeOK
    <2>2. sinceProcessed'[f] = IF sinceProcessed[f] \in {Unset, Interval[f]}
                               THEN sinceProcessed[f] ELSE sinceProcessed[f] + 1
      BY DEF FeedTick
    <2> QED BY <2>1, <2>2
  <1>4. FeedsAreFunctions'
    <2>1. sinceStart' \in [Frequencies -> Nat]
      BY <1>0 DEF FeedTick, FeedsAreFunctions
    <2>2. sinceProcessed' \in [Frequencies -> Nat \cup {Unset}]
      BY <1>0 DEF FeedTick, FeedsAreFunctions
    <2> QED BY <2>1, <2>2, <1>0, <1>1 DEF FeedsAreFunctions
  <1>5. FeedTypeOK'
    <2>1. waiting' \in [Users -> Nat]
      BY <1>0 DEF FeedTick, FeedTypeOK
    <2>2. \A f \in Frequencies : sinceStart'[f] \in 0 .. Interval[f]
      BY <1>2, IntervalsAreLong
    <2> QED BY <2>1, <2>2, <1>0, <1>1, <1>3 DEF FeedTypeOK
  <1>6. NoneIsLateYet' /\ ComputesInTime'
    BY <1>0, <1>1, <1>2 DEF NoneIsLateYet, ComputesInTime
  <1>7. WaitsAreBounded'
    <2> SUFFICES ASSUME NEW v \in Users, NEW g \in Frequencies, userFrequency[v] = g
                 PROVE  WaitIsBounded(v, g)'
      BY <1>1 DEF WaitsAreBounded
    <2>1. waiting[v] \in Nat /\ waiting'[v] = waiting[v] + 1 /\ WaitIsBounded(v, g)
      BY <1>0 DEF FeedTypeOK, FeedTick, WaitsAreBounded
    <2>2. /\ Interval[g] \in Nat /\ sinceStart[g] \in Nat
          /\ sinceProcessed[g] \in Nat \cup {Unset}
      BY <1>0, IntervalsAreLong DEF FeedsAreFunctions
    <2>3. sinceStart'[g] = sinceStart[g] + 1 /\ sinceStart'[g] <= Interval[g]
      BY <1>2
    <2>4. CASE waiting[v] <= sinceStart[g]
      BY <2>1, <2>2, <2>3, <2>4 DEF WaitIsBounded
    <2>5. CASE /\ feedLoop[g] = "sleep"
               /\ waiting[v] <= Interval[g] + sinceStart[g]
               /\ sinceProcessed[g] # Unset => sinceProcessed[g] >= sinceStart[g]
      <3>1. sinceProcessed'[g] # Unset => sinceProcessed'[g] >= sinceStart'[g]
        BY <2>2, <2>3, <2>5, <1>3
      <3>2. feedLoop'[g] = "sleep" /\ waiting'[v] <= Interval[g] + sinceStart'[g]
        BY <2>1, <2>2, <2>3, <2>5, <1>1
      <3> QED BY <3>1, <3>2 DEF WaitIsBounded
    <2>6. CASE /\ feedLoop[g] = "compute" /\ v \in batch[g]
               /\ waiting[v] <= 2 * Interval[g] + sinceStart[g]
      <3>1. waiting'[v] <= 2 * Interval[g] + sinceStart'[g]
        BY <2>1, <2>2, <2>3, <2>6
      <3> QED BY <3>1, <2>6, <1>1 DEF WaitIsBounded
    <2> QED BY <2>1, <2>4, <2>5, <2>6 DEF WaitIsBounded
  <1> QED BY <1>4, <1>5, <1>6, <1>7 DEF FeedInv

-------------------------------------------------------------------------------
LEMMA FeedInvIsInductive == FeedSpec => []FeedInv
  <1>1. FeedInv /\ [FeedNext]_feedVars => FeedInv'
    <2> SUFFICES ASSUME FeedInv, [FeedNext]_feedVars PROVE FeedInv'
      OBVIOUS
    <2>1. CASE UNCHANGED feedVars
      BY <2>1 DEF feedVars, FeedInv, FeedTypeOK, FeedsAreFunctions, NoneIsLateYet,
                  ComputesInTime, WaitsAreBounded, WaitIsBounded
    <2>2. CASE FeedNext
      BY <2>2, UpdateKeeps, RemoveKeeps, StartRoundKeeps, ComputationSucceedsKeeps,
         ComputationFailsKeeps, PublishKeeps, EndRoundKeeps, TickKeeps DEF FeedNext
    <2> QED BY <2>1, <2>2
  <1> QED BY FeedInitially, <1>1, PTL DEF FeedSpec

LEMMA InvServesInTime == FeedInv => ServedInTime
  <1> SUFFICES ASSUME FeedInv, NEW u \in Users, userFrequency[u] # NoFeed
               PROVE  waiting[u] <= Longest(userFrequency[u])
    BY DEF ServedInTime
  <1> DEFINE f == userFrequency[u]
  <1>1. /\ f \in Frequencies /\ WaitIsBounded(u, f) /\ waiting[u] \in Nat
        /\ sinceStart[f] \in 0 .. Interval[f]
        /\ feedLoop[f] = "compute" => sinceStart[f] <= ComputeTime
    BY DEF FeedInv, FeedTypeOK, WaitsAreBounded, ComputesInTime
  <1>2. Interval[f] \in Nat /\ ComputeTime \in Nat
    BY <1>1, IntervalsAreLong
  <1> HIDE DEF f
  <1>3. waiting[u] <= 2 * Interval[f] + ComputeTime
    BY <1>1, <1>2 DEF WaitIsBounded
  <1> QED BY <1>3 DEF f, Longest

\* A subscribed user waits two intervals and a computation at most, and whoever left
\* gets one more result of a frequency at most, whatever users and computations do
\* (_process_frequency, _process_batch, update_subscription_frequency).
THEOREM FeedsKeepTheirPromise == FeedSpec => []FeedPromise
  <1>1. FeedInv => FeedPromise
    <2> SUFFICES ASSUME FeedInv PROVE FeedPromise
      OBVIOUS
    <2>1. StopsAfterLeaving
      BY DEF FeedInv, FeedTypeOK, StopsAfterLeaving
    <2> QED BY <2>1, InvServesInTime DEF FeedInv, FeedPromise
  <1> QED BY <1>1, FeedInvIsInductive, PTL

HIDE FeedAssumption DEF FeedAssumption, Unset

-------------------------------------------------------------------------------
(* The readers of the stream of ticks.                                         *)

\* Entry j is the copy of what entry i holds.
CopyOf(i, j) == stream[j].tick = stream[i].tick /\ stream[j].state = "P"

\* No tick is twice in the stream as it came, nor twice as a copy.
EntriesDiffer ==
    \A i, j \in Entries :
        stream[i].tick = stream[j].tick /\ stream[i].state = stream[j].state => i = j

\* The ticks are numbered as they came.
TicksNumbered == \A i \in Entries : stream[i].tick \in 1 .. Ticks

\* Work is on entries that were delivered, and a tick that is not computed yet is in one
\* processor's hands, without a copy.
WorkWasRead == \A p \in Processors : \A w \in working[p] : w[1] <= groupAt
NewIsOwn ==
    \A p, q \in Processors : \A i \in Entries :
        <<i, "new">> \in working[p] /\ <<i, "new">> \in working[q] => p = q
NewHasNoCopy ==
    \A i, j \in Entries :
        Original(i) /\ (i > groupAt \/ \E p \in Processors : <<i, "new">> \in working[p])
            => ~CopyOf(i, j)

\* The tick that is to be acknowledged was copied.
CopiedHasCopy ==
    \A p \in Processors : \A i \in Entries :
        <<i, "copied">> \in working[p] => \E j \in Entries : j > i /\ CopyOf(i, j)

TicksInv ==
    /\ TicksTypeOK
    /\ EntriesDiffer
    /\ TicksNumbered
    /\ WorkWasRead
    /\ NewIsOwn
    /\ NewHasNoCopy
    /\ CopiedHasCopy
    /\ AckedIsDone
    /\ AckedIsStored

USE TickAssumption DEF TickAssumption, NoGroup

EntryType == [tick : 1 .. MaxTicks, instrument : Instruments, state : {"U", "P"}]

\* What the type of the state says of each variable.
LEMMA TicksTypes ==
    TicksTypeOK =>
        /\ stream \in Seq(EntryType) /\ Len(stream) \in Nat
        /\ \A i \in Entries : stream[i] \in EntryType /\ i \in 1 .. Len(stream)
        /\ groupAt \in Int /\ groupAt <= Len(stream) /\ groupAt >= -1
        /\ acked \subseteq 1 .. groupAt /\ acked \subseteq Entries
        /\ reader \in [Processors -> {"down", "idle", "reading", "working"}]
        /\ watchedInst \in [Processors -> SUBSET Instruments]
        /\ working \in [Processors -> SUBSET (Entries \X {"new", "copied"})]
        /\ \A p \in Processors : reader[p] = "working" <=> working[p] # {}
        /\ \A p \in Processors : reader[p] \in {"reading", "working"} => p \in joined
        /\ joined \subseteq Processors /\ (joined # {} => groupAt # NoGroup)
  <1> SUFFICES ASSUME TicksTypeOK PROVE
        /\ stream \in Seq(EntryType) /\ Len(stream) \in Nat
        /\ \A i \in Entries : stream[i] \in EntryType /\ i \in 1 .. Len(stream)
        /\ groupAt \in Int /\ groupAt <= Len(stream) /\ groupAt >= -1
        /\ acked \subseteq 1 .. groupAt /\ acked \subseteq Entries
        /\ reader \in [Processors -> {"down", "idle", "reading", "working"}]
        /\ watchedInst \in [Processors -> SUBSET Instruments]
        /\ working \in [Processors -> SUBSET (Entries \X {"new", "copied"})]
        /\ \A p \in Processors : reader[p] = "working" <=> working[p] # {}
        /\ \A p \in Processors : reader[p] \in {"reading", "working"} => p \in joined
        /\ joined \subseteq Processors /\ (joined # {} => groupAt # NoGroup)
    OBVIOUS
  <1>1. stream \in Seq(EntryType)
    BY DEF TicksTypeOK, EntryType
  <1>2. Len(stream) \in Nat /\ \A i \in Entries : stream[i] \in EntryType /\ i \in 1 .. Len(stream)
    BY <1>1 DEF Entries
  <1>3. groupAt \in Int /\ groupAt <= Len(stream) /\ groupAt >= -1
    BY <1>2 DEF TicksTypeOK
  <1>4. acked \subseteq 1 .. groupAt
    BY DEF TicksTypeOK
  <1>5. acked \subseteq Entries
    BY <1>2, <1>3, <1>4 DEF Entries
  <1> QED BY <1>1, <1>2, <1>3, <1>4, <1>5 DEF TicksTypeOK

\* Two entries that hold the same tick differ in their state, so the ticks bound the stream.
LEMMA StreamIsBounded ==
    ASSUME NEW s \in Seq(EntryType),
           \A i, j \in 1 .. Len(s) : s[i].tick = s[j].tick /\ s[i].state = s[j].state => i = j
    PROVE  Len(s) <= 2 * MaxTicks
  <1> DEFINE n == Len(s)
             M == MaxTicks
             T == (1 .. M) \X {"U", "P"}
             f == [i \in 1 .. n |-> <<s[i].tick, s[i].state>>]
  <1>1. n \in Nat /\ M \in Nat /\ 1 \in Int
    OBVIOUS
  <1>2. \A i \in 1 .. n : s[i].tick \in 1 .. M /\ s[i].state \in {"U", "P"}
    <2>1. \A i \in 1 .. n : s[i] \in EntryType
      OBVIOUS
    <2>2. \A e \in EntryType : e.tick \in 1 .. M /\ e.state \in {"U", "P"}
      BY DEF EntryType
    <2> QED BY <2>1, <2>2
  <1>3. f \in [1 .. n -> T]
    BY <1>2
  <1>4. \A i, j \in 1 .. n : f[i] = f[j] => i = j
    OBVIOUS
  <1>5. f \in Injection(1 .. n, T)
    BY <1>3, <1>4, Fun_IsInj
  <1> HIDE DEF f, n, M
  <1>6. IsFiniteSet(1 .. M)
    BY <1>1, FS_Interval
  <1>6a. Cardinality(1 .. M) = M
    BY <1>1, FS_Interval
  <1>7. IsFiniteSet({"U", "P"}) /\ Cardinality({"U", "P"}) = 2
    <2>1. IsFiniteSet({"U"}) /\ Cardinality({"U"}) = 1
      BY FS_Singleton
    <2>2. {"U", "P"} = {"U"} \cup {"P"} /\ "P" \notin {"U"}
      OBVIOUS
    <2>3. IsFiniteSet({"U"} \cup {"P"})
      BY <2>1, FS_AddElement
    <2>4. Cardinality({"U"} \cup {"P"}) = Cardinality({"U"}) + 1
      BY <2>1, <2>2, FS_AddElement
    <2> QED BY <2>1, <2>2, <2>3, <2>4
  <1>8. IsFiniteSet(T) /\ Cardinality(T) = Cardinality(1 .. M) * Cardinality({"U", "P"})
    BY <1>6, <1>7, FS_Product
  <1>9. Cardinality(1 .. n) = n
    BY <1>1, FS_Interval
  <1> HIDE DEF T
  <1>10. Cardinality(1 .. n) <= Cardinality(T)
    BY <1>5, <1>8, FS_Injection
  <1> QED BY <1>1, <1>6a, <1>7, <1>8, <1>9, <1>10 DEF n, M

\* One entry more.
LEMMA StreamGrows ==
    ASSUME stream \in Seq(EntryType), NEW e \in EntryType, stream' = Append(stream, e)
    PROVE  /\ stream' \in Seq(EntryType)
           /\ Len(stream') = Len(stream) + 1
           /\ Entries' = Entries \cup {Len(stream) + 1} /\ Len(stream) + 1 \notin Entries
           /\ stream'[Len(stream) + 1] = e
           /\ \A i \in Entries : stream'[i] = stream[i] /\ i < Len(stream) + 1
           /\ Ticks \in Nat /\ Ticks' = IF e.state = "U" THEN Ticks + 1 ELSE Ticks
  <1> DEFINE new == Len(stream) + 1
             Us == {i \in Entries : Original(i)}
  <1>1. /\ stream' \in Seq(EntryType) /\ Len(stream') = new /\ Len(stream) \in Nat
        /\ stream'[new] = e
        /\ \A i \in 1 .. Len(stream) : stream'[i] = stream[i]
    OBVIOUS
  <1>2. Entries' = 1 .. new /\ Entries = 1 .. Len(stream)
    BY <1>1 DEF Entries
  <1>3. Entries' = Entries \cup {new} /\ new \notin Entries /\ \A i \in Entries : i < new
    BY <1>1, <1>2
  <1>4. IsFiniteSet(Entries)
    BY <1>1, <1>2, FS_Interval
  <1>5. IsFiniteSet(Us) /\ Cardinality(Us) \in Nat
    <2>1. Us \in SUBSET Entries
      OBVIOUS
    <2> QED BY <2>1, <1>4, FS_Subset, FS_CardinalityType
  <1>6. Ticks = Cardinality(Us) /\ Ticks' = Cardinality({i \in Entries' : stream'[i].state = "U"})
    BY DEF Ticks, Original
  <1>7. {i \in Entries' : stream'[i].state = "U"} = IF e.state = "U" THEN Us \cup {new} ELSE Us
    BY <1>1, <1>2, <1>3 DEF Original
  <1>8. new \notin Us
    BY <1>3
  <1>9. Cardinality(Us \cup {new}) = Cardinality(Us) + 1
    BY <1>5, <1>8, FS_AddElement
  <1> HIDE DEF Us, new
  <1>10. Ticks' = IF e.state = "U" THEN Ticks + 1 ELSE Ticks
    BY <1>6, <1>7, <1>9
  <1> QED BY <1>1, <1>2, <1>3, <1>5, <1>6, <1>10 DEF new

LEMMA TicksInitially == TicksInit => TicksInv
  <1> SUFFICES ASSUME TicksInit PROVE TicksInv
    OBVIOUS
  <1>1. stream = <<>> /\ Entries = {} /\ Len(stream) = 0
    BY DEF TicksInit, Entries
  <1>2. TicksTypeOK
    BY <1>1 DEF TicksInit, TicksTypeOK
  <1>3. EntriesDiffer /\ TicksNumbered
    BY <1>1 DEF EntriesDiffer, TicksNumbered
  <1>4. WorkWasRead /\ NewIsOwn /\ NewHasNoCopy /\ CopiedHasCopy
    BY <1>1 DEF TicksInit, WorkWasRead, NewIsOwn, NewHasNoCopy, CopiedHasCopy
  <1>5. AckedIsDone /\ AckedIsStored
    BY DEF TicksInit, AckedIsDone, AckedIsStored
  <1> QED BY <1>2, <1>3, <1>4, <1>5 DEF TicksInv

\* A step that leaves the stream alone and gives nobody a tick it did not have.
LEMMA LessWork ==
    ASSUME TicksInv, stream' = stream, groupAt <= groupAt', groupAt' \in Int,
           \A p \in Processors : working'[p] \subseteq working[p]
    PROVE  /\ Entries' = Entries /\ EntriesDiffer' /\ TicksNumbered'
           /\ WorkWasRead' /\ NewIsOwn' /\ NewHasNoCopy' /\ CopiedHasCopy'
           /\ \A i, j : (Original(i)' <=> Original(i)) /\ (CopyOf(i, j)' <=> CopyOf(i, j))
  <1>0. /\ TicksTypeOK /\ EntriesDiffer /\ TicksNumbered /\ WorkWasRead /\ NewIsOwn
        /\ NewHasNoCopy /\ CopiedHasCopy
    BY DEF TicksInv
  <1>1. /\ Entries' = Entries /\ Ticks' = Ticks
        /\ \A i, j : (Original(i)' <=> Original(i)) /\ (CopyOf(i, j)' <=> CopyOf(i, j))
    BY DEF Entries, Ticks, Original, CopyOf
  <1>2. EntriesDiffer' /\ TicksNumbered'
    BY <1>0, <1>1 DEF EntriesDiffer, TicksNumbered
  <1>3. WorkWasRead'
    <2> SUFFICES ASSUME NEW p \in Processors, NEW w \in working'[p] PROVE w[1] <= groupAt'
      BY DEF WorkWasRead
    <2>1. w \in working[p] /\ w[1] <= groupAt
      BY <1>0 DEF WorkWasRead
    <2>2. w[1] \in Int /\ groupAt \in Int
      BY <1>0, <2>1, TicksTypes DEF Entries
    <2> QED BY <2>1, <2>2
  <1>4. NewIsOwn' /\ CopiedHasCopy'
    BY <1>0, <1>1 DEF NewIsOwn, CopiedHasCopy
  <1>5. NewHasNoCopy'
    <2> SUFFICES ASSUME NEW i \in Entries, NEW j \in Entries, Original(i),
                        i > groupAt' \/ \E p \in Processors : <<i, "new">> \in working'[p]
                 PROVE  ~CopyOf(i, j)
      BY <1>1 DEF NewHasNoCopy
    <2>1. i \in Int /\ groupAt \in Int
      BY <1>0, TicksTypes
    <2>2. i > groupAt \/ \E p \in Processors : <<i, "new">> \in working[p]
      BY <2>1
    <2> QED BY <1>0, <2>2 DEF NewHasNoCopy
  <1> QED BY <1>1, <1>2, <1>3, <1>4, <1>5

\* Acknowledging, to what was acknowledged already, an entry that is a copy or has one.
LEMMA AckedStays ==
    ASSUME TicksInv, stream' = stream,
           \A i \in acked' \ acked : Original(i) => \E j \in Entries : j > i /\ CopyOf(i, j)
    PROVE  AckedIsDone'
  <1>1. /\ Entries' = Entries
        /\ \A i : Original(i)' <=> Original(i)
    BY DEF Entries, Original
  <1>2. \A i \in acked : Original(i) => \E j \in Entries : j > i /\ CopyOf(i, j)
    BY DEF TicksInv, AckedIsDone, CopyOf
  <1>3. \A i \in acked' : Original(i) => \E j \in Entries : j > i /\ CopyOf(i, j)
    BY <1>2
  <1> QED BY <1>1, <1>3 DEF AckedIsDone, CopyOf

\* The consumer keeps what it has while entries are appended behind it.
LEMMA StoredStays ==
    ASSUME TicksInv, UNCHANGED consumerVars, \A i \in Entries : stream'[i] = stream[i]
    PROVE  AckedIsStored'
  <1>1. /\ consumerAt' = consumerAt /\ consumerAcked' = consumerAcked /\ latest' = latest
        /\ consumerAt \in 0 .. Len(stream) /\ consumerAcked \subseteq 1 .. consumerAt
        /\ Len(stream) \in Nat
    BY TicksTypes DEF TicksInv, TicksTypeOK, consumerVars
  <1>2. \A i \in 1 .. consumerAt : stream'[i] = stream[i]
    BY <1>1 DEF Entries
  <1>3. \A n \in Assigned : \A i \in consumerAcked :
            stream[i].instrument = n =>
                \E j \in i .. consumerAt : stream[j].instrument = n /\ latest[n] = stream[j].tick
    BY DEF TicksInv, AckedIsStored
  <1>4. \A i \in consumerAcked : \A j \in i .. consumerAt :
            stream'[i] = stream[i] /\ stream'[j] = stream[j]
    BY <1>1, <1>2
  <1> QED BY <1>1, <1>3, <1>4 DEF AckedIsStored

LEMMA StillDone ==
    ASSUME TicksInv, stream' = stream, acked' = acked, UNCHANGED consumerVars
    PROVE  AckedIsDone' /\ AckedIsStored'
  <1>1. AckedIsDone'
    BY AckedStays
  <1>2. AckedIsStored'
    BY StoredStays
  <1> QED BY <1>1, <1>2

\* A processor is done with one of its ticks for now.
LEMMA FinishTypes ==
    ASSUME TicksTypeOK, NEW p \in Processors, NEW w \in working[p], NEW more,
           more \subseteq Entries' \X {"new", "copied"}, Entries \subseteq Entries',
           Finish(p, w, more), joined' = joined
    PROVE  /\ working' \in [Processors -> SUBSET (Entries' \X {"new", "copied"})]
           /\ reader' \in [Processors -> {"down", "idle", "reading", "working"}]
           /\ \A q \in Processors : reader'[q] = "working" <=> working'[q] # {}
           /\ \A q \in Processors : reader'[q] \in {"reading", "working"} => q \in joined'
           /\ working'[p] = (working[p] \ {w}) \cup more
           /\ \A q \in Processors \ {p} : working'[q] = working[q]
  <1>1. /\ working \in [Processors -> SUBSET (Entries \X {"new", "copied"})]
        /\ reader \in [Processors -> {"down", "idle", "reading", "working"}]
        /\ \A q \in Processors : reader[q] = "working" <=> working[q] # {}
        /\ \A q \in Processors : reader[q] \in {"reading", "working"} => q \in joined
    BY TicksTypes
  <1>2. /\ working' = [working EXCEPT ![p] = (@ \ {w}) \cup more]
        /\ reader' = [reader EXCEPT ![p] = IF working'[p] = {} THEN "idle" ELSE "working"]
    BY DEF Finish
  <1>3. reader[p] = "working" /\ p \in joined
    BY <1>1
  <1>4. /\ working'[p] = (working[p] \ {w}) \cup more
        /\ \A q \in Processors \ {p} : working'[q] = working[q]
    BY <1>1, <1>2
  <1>5. \A q \in Processors : working[q] \subseteq Entries' \X {"new", "copied"}
    <2>1. \A q \in Processors : working[q] \subseteq Entries \X {"new", "copied"}
      BY <1>1
    <2>2. Entries \X {"new", "copied"} \subseteq Entries' \X {"new", "copied"}
      OBVIOUS
    <2> QED BY <2>1, <2>2
  <1>6. \A q \in Processors : working'[q] \subseteq Entries' \X {"new", "copied"}
    BY <1>4, <1>5
  <1>7. working' \in [Processors -> SUBSET (Entries' \X {"new", "copied"})]
    BY <1>1, <1>2, <1>6
  <1>8. /\ reader'[p] = IF working'[p] = {} THEN "idle" ELSE "working"
        /\ \A q \in Processors \ {p} : reader'[q] = reader[q]
        /\ reader' \in [Processors -> {"down", "idle", "reading", "working"}]
    BY <1>1, <1>2
  <1>9. \A q \in Processors : reader'[q] = "working" <=> working'[q] # {}
    BY <1>1, <1>4, <1>8
  <1>10. \A q \in Processors : reader'[q] \in {"reading", "working"} => q \in joined'
    BY <1>1, <1>3, <1>8
  <1> QED BY <1>4, <1>7, <1>8, <1>9, <1>10

LEMMA TickArrivesKeeps ==
    ASSUME TicksInv, NEW n \in Instruments, TickArrives(n)
    PROVE  TicksInv'
  <1> DEFINE e == [tick |-> Ticks + 1, instrument |-> n, state |-> "U"]
  <1> PICK new : new = Len(stream) + 1
    OBVIOUS
  <1>0. /\ TicksTypeOK /\ EntriesDiffer /\ TicksNumbered /\ WorkWasRead /\ NewIsOwn
        /\ NewHasNoCopy /\ CopiedHasCopy /\ AckedIsDone
    BY DEF TicksInv
  <1>1. /\ Ticks < MaxTicks /\ stream' = Append(stream, e)
        /\ UNCHANGED <<configured, groupAt, acked, joined, watchedInst, reader, working,
                       consumerVars, crashes>>
    BY DEF TickArrives
  <1>2. Ticks \in Nat
    <2>1. IsFiniteSet(Entries)
      BY <1>0, TicksTypes, FS_Interval DEF Entries
    <2>2. {i \in Entries : Original(i)} \in SUBSET Entries
      OBVIOUS
    <2> QED BY <2>1, <2>2, FS_Subset, FS_CardinalityType DEF Ticks
  <1>3. e \in EntryType /\ e.state = "U" /\ e.tick = Ticks + 1
    BY <1>1, <1>2 DEF EntryType
  <1> HIDE DEF e
  <1>4. /\ stream' \in Seq(EntryType) /\ Len(stream') = new
        /\ Entries' = Entries \cup {new} /\ new \notin Entries
        /\ stream'[new] = e
        /\ \A i \in Entries : stream'[i] = stream[i] /\ i < new
        /\ Ticks' = Ticks + 1
    BY <1>0, <1>1, <1>3, TicksTypes, StreamGrows
  <1>5. /\ Len(stream) \in Nat /\ groupAt \in Int /\ groupAt <= Len(stream) /\ new > groupAt
        /\ working \in [Processors -> SUBSET (Entries \X {"new", "copied"})]
        /\ acked \subseteq Entries
    BY <1>0, TicksTypes
  <1>6. \A i \in Entries : stream[i].tick \in 1 .. Ticks /\ stream[i].tick # e.tick
    BY <1>0, <1>2, <1>3 DEF TicksNumbered
  <1>7. EntriesDiffer'
    BY <1>0, <1>4, <1>6 DEF EntriesDiffer
  <1>8. TicksNumbered'
    BY <1>2, <1>3, <1>4, <1>6 DEF TicksNumbered
  <1>9. /\ \A i \in Entries : Original(i)' <=> Original(i)
        /\ \A i, j \in Entries : CopyOf(i, j)' <=> CopyOf(i, j)
        /\ \A i \in Entries' : ~CopyOf(i, new)'
        /\ \A j \in Entries' : ~CopyOf(new, j)'
    <2>1. /\ stream'[new].tick = e.tick /\ stream'[new].state = "U"
          /\ \A i \in Entries : stream'[i] = stream[i] /\ stream[i].tick # e.tick
      BY <1>3, <1>4, <1>6
    <2>2. \A i, j \in Entries : (Original(i)' <=> Original(i)) /\ (CopyOf(i, j)' <=> CopyOf(i, j))
      BY <2>1 DEF Original, CopyOf
    <2>3. \A i \in Entries' : ~CopyOf(i, new)'
      BY <2>1 DEF CopyOf
    <2>4. ASSUME NEW j \in Entries' PROVE ~CopyOf(new, j)'
      <3>1. CASE j = new
        BY <3>1, <2>3, <1>4
      <3>2. CASE j \in Entries
        BY <3>2, <2>1 DEF CopyOf
      <3> QED BY <3>1, <3>2, <1>4
    <2> QED BY <2>2, <2>3, <2>4
  <1>10. WorkWasRead'
    BY <1>0, <1>1 DEF WorkWasRead
  <1>11. \A p \in Processors : \A s \in {"new", "copied"} : <<new, s>> \notin working[p]
    BY <1>4, <1>5
  <1>12. NewIsOwn'
    BY <1>0, <1>1, <1>4, <1>11 DEF NewIsOwn
  <1>13. CopiedHasCopy'
    BY <1>0, <1>1, <1>4, <1>9, <1>11 DEF CopiedHasCopy
  <1>14. NewHasNoCopy'
    <2> SUFFICES ASSUME NEW i \in Entries', NEW j \in Entries', Original(i)',
                        i > groupAt \/ \E p \in Processors : <<i, "new">> \in working[p]
                 PROVE  ~CopyOf(i, j)'
      BY <1>1 DEF NewHasNoCopy
    <2>1. CASE i = new \/ j = new
      BY <2>1, <1>9
    <2>2. CASE i \in Entries /\ j \in Entries
      BY <2>2, <1>0, <1>9 DEF NewHasNoCopy
    <2> QED BY <2>1, <2>2, <1>4
  <1>15. AckedIsDone'
    <2> SUFFICES ASSUME NEW i \in acked, Original(i)'
                 PROVE  \E j \in Entries' : j > i /\ CopyOf(i, j)'
      BY <1>1 DEF AckedIsDone, CopyOf
    <2>1. i \in Entries /\ Original(i)
      BY <1>5, <1>9
    <2>2. PICK j \in Entries : j > i /\ CopyOf(i, j)
      BY <2>1, <1>0 DEF AckedIsDone, CopyOf
    <2> QED BY <2>1, <2>2, <1>4, <1>9
  <1>16. AckedIsStored'
    BY <1>1, <1>4, StoredStays
  <1>17. TicksTypeOK'
    <2>1. Len(stream') <= 2 * MaxTicks
      BY <1>4, <1>7, StreamIsBounded DEF EntriesDiffer, Entries
    <2>2. working' \in [Processors -> SUBSET (Entries' \X {"new", "copied"})]
      BY <1>1, <1>4, <1>5
    <2>3. /\ groupAt' \in {NoGroup} \cup (0 .. Len(stream'))
          /\ consumerAt' \in 0 .. Len(stream')
      BY <1>0, <1>1, <1>4, <1>5 DEF TicksTypeOK, consumerVars
    <2> QED BY <1>0, <1>1, <1>4, <2>1, <2>2, <2>3 DEF TicksTypeOK, consumerVars, EntryType
  <1> QED BY <1>7, <1>8, <1>10, <1>12, <1>13, <1>14, <1>15, <1>16, <1>17 DEF TicksInv

LEMMA ConfigurationsChangeKeeps ==
    ASSUME TicksInv, NEW set \in SUBSET Configurable, ConfigurationsChange(set)
    PROVE  TicksInv'
  <1>1. /\ configured' = set
        /\ UNCHANGED <<stream, groupAt, acked, joined, watchedInst, reader, working,
                       consumerVars, crashes>>
    BY DEF ConfigurationsChange
  <1>2. TicksTypeOK /\ groupAt \in Int
    BY TicksTypes DEF TicksInv
  <1>3. /\ Entries' = Entries /\ EntriesDiffer' /\ TicksNumbered'
        /\ WorkWasRead' /\ NewIsOwn' /\ NewHasNoCopy' /\ CopiedHasCopy'
    BY <1>1, <1>2, LessWork
  <1>4. AckedIsDone' /\ AckedIsStored'
    BY <1>1, StillDone
  <1>5. TicksTypeOK'
    BY <1>1, <1>2, <1>3 DEF TicksTypeOK, consumerVars
  <1> QED BY <1>3, <1>4, <1>5 DEF TicksInv

LEMMA CrashKeeps ==
    ASSUME TicksInv, NEW p \in Processors, Crash(p)
    PROVE  TicksInv'
  <1>1. /\ crashes < MaxCrashes /\ crashes' = crashes + 1
        /\ reader' = [reader EXCEPT ![p] = "down"] /\ joined' = joined \ {p}
        /\ watchedInst' = [watchedInst EXCEPT ![p] = {}]
        /\ working' = [working EXCEPT ![p] = {}]
        /\ UNCHANGED <<stream, configured, groupAt, acked, consumerVars>>
    BY DEF Crash
  <1>2. /\ TicksTypeOK /\ groupAt \in Int
        /\ reader \in [Processors -> {"down", "idle", "reading", "working"}]
        /\ watchedInst \in [Processors -> SUBSET Instruments]
        /\ working \in [Processors -> SUBSET (Entries \X {"new", "copied"})]
        /\ \A q \in Processors : reader[q] = "working" <=> working[q] # {}
        /\ \A q \in Processors : reader[q] \in {"reading", "working"} => q \in joined
    BY TicksTypes DEF TicksInv
  <1>3. /\ working'[p] = {} /\ reader'[p] = "down"
        /\ \A q \in Processors \ {p} : working'[q] = working[q] /\ reader'[q] = reader[q]
    BY <1>1, <1>2
  <1>4. /\ Entries' = Entries /\ EntriesDiffer' /\ TicksNumbered'
        /\ WorkWasRead' /\ NewIsOwn' /\ NewHasNoCopy' /\ CopiedHasCopy'
    BY <1>1, <1>2, <1>3, LessWork
  <1>5. AckedIsDone' /\ AckedIsStored'
    BY <1>1, StillDone
  <1>6. /\ reader' \in [Processors -> {"down", "idle", "reading", "working"}]
        /\ watchedInst' \in [Processors -> SUBSET Instruments]
        /\ working' \in [Processors -> SUBSET (Entries' \X {"new", "copied"})]
        /\ \A q \in Processors : reader'[q] = "working" <=> working'[q] # {}
        /\ \A q \in Processors : reader'[q] \in {"reading", "working"} => q \in joined'
    BY <1>1, <1>2, <1>3, <1>4
  <1>7. joined' \subseteq Processors /\ (joined' # {} => groupAt' # NoGroup)
        /\ crashes' \in 0 .. MaxCrashes
    BY <1>1, <1>2 DEF TicksTypeOK
  <1>8. TicksTypeOK'
    BY <1>1, <1>2, <1>6, <1>7 DEF TicksTypeOK, consumerVars
  <1> QED BY <1>4, <1>5, <1>8 DEF TicksInv

LEMMA RestartKeeps ==
    ASSUME TicksInv, NEW p \in Processors, Restart(p)
    PROVE  TicksInv'
  <1>1. /\ reader[p] = "down" /\ reader' = [reader EXCEPT ![p] = "idle"]
        /\ UNCHANGED <<stream, configured, groupAt, acked, joined, watchedInst, working,
                       consumerVars, crashes>>
    BY DEF Restart
  <1>2. /\ TicksTypeOK /\ groupAt \in Int
        /\ reader \in [Processors -> {"down", "idle", "reading", "working"}]
        /\ \A q \in Processors : reader[q] = "working" <=> working[q] # {}
        /\ \A q \in Processors : reader[q] \in {"reading", "working"} => q \in joined
    BY TicksTypes DEF TicksInv
  <1>3. /\ Entries' = Entries /\ EntriesDiffer' /\ TicksNumbered'
        /\ WorkWasRead' /\ NewIsOwn' /\ NewHasNoCopy' /\ CopiedHasCopy'
    BY <1>1, <1>2, LessWork
  <1>4. AckedIsDone' /\ AckedIsStored'
    BY <1>1, StillDone
  <1>5. /\ reader' \in [Processors -> {"down", "idle", "reading", "working"}]
        /\ \A q \in Processors : reader'[q] = "working" <=> working'[q] # {}
        /\ \A q \in Processors : reader'[q] \in {"reading", "working"} => q \in joined'
    BY <1>1, <1>2
  <1>6. TicksTypeOK'
    BY <1>1, <1>2, <1>3, <1>5 DEF TicksTypeOK, consumerVars
  <1> QED BY <1>3, <1>4, <1>6 DEF TicksInv

LEMMA LookAtConfigurationsKeeps ==
    ASSUME TicksInv, NEW p \in Processors, LookAtConfigurations(p)
    PROVE  TicksInv'
  <1>1. /\ reader[p] = "idle" /\ watchedInst' = [watchedInst EXCEPT ![p] = configured]
        /\ \/ groupAt = NoGroup /\ joined' = joined \cup {p} /\ groupAt' = 0
           \/ joined' = joined /\ groupAt' = groupAt
        /\ reader' = [reader EXCEPT ![p] = IF p \in joined' THEN "reading" ELSE "idle"]
        /\ UNCHANGED <<stream, configured, acked, working, consumerVars, crashes>>
    BY DEF LookAtConfigurations
  <1>2. /\ TicksTypeOK /\ groupAt \in Int /\ groupAt >= -1 /\ Len(stream) \in Nat
        /\ acked \subseteq 1 .. groupAt
        /\ configured \subseteq Instruments
        /\ joined \subseteq Processors /\ (joined # {} => groupAt # NoGroup)
        /\ watchedInst \in [Processors -> SUBSET Instruments]
        /\ reader \in [Processors -> {"down", "idle", "reading", "working"}]
        /\ \A q \in Processors : reader[q] = "working" <=> working[q] # {}
        /\ \A q \in Processors : reader[q] \in {"reading", "working"} => q \in joined
    <2>1. configured \subseteq Instruments
      BY DEF TicksInv, TicksTypeOK
    <2> QED BY <2>1, TicksTypes DEF TicksInv
  <1>3. groupAt <= groupAt' /\ groupAt' \in Int
    BY <1>1, <1>2
  <1>4. /\ Entries' = Entries /\ EntriesDiffer' /\ TicksNumbered'
        /\ WorkWasRead' /\ NewIsOwn' /\ NewHasNoCopy' /\ CopiedHasCopy'
    BY <1>1, <1>3, LessWork
  <1>5. AckedIsDone' /\ AckedIsStored'
    BY <1>1, StillDone
  <1>6. /\ watchedInst' \in [Processors -> SUBSET Instruments]
        /\ reader' \in [Processors -> {"down", "idle", "reading", "working"}]
    BY <1>1, <1>2
  <1>7. /\ \A q \in Processors : reader'[q] = "working" <=> working'[q] # {}
        /\ \A q \in Processors : reader'[q] \in {"reading", "working"} => q \in joined'
    BY <1>1, <1>2
  <1>8. /\ joined' \subseteq Processors /\ (joined' # {} => groupAt' # NoGroup)
        /\ groupAt' \in {NoGroup} \cup (0 .. Len(stream'))
        /\ acked' \subseteq 1 .. groupAt'
    <2>1. groupAt \in {NoGroup} \cup (0 .. Len(stream))
      BY DEF TicksInv, TicksTypeOK
    <2> QED BY <2>1, <1>1, <1>2
  <1>9. TicksTypeOK'
    BY <1>1, <1>2, <1>4, <1>6, <1>7, <1>8 DEF TicksTypeOK, consumerVars
  <1> QED BY <1>4, <1>5, <1>9 DEF TicksInv

LEMMA ReadStreamKeeps ==
    ASSUME TicksInv, NEW p \in Processors, ReadStream(p)
    PROVE  TicksInv'
  <1> DEFINE upto == IF groupAt + ReadCount < Len(stream) THEN groupAt + ReadCount
                     ELSE Len(stream)
             mine == {i \in (groupAt + 1) .. upto : stream[i].instrument \in watchedInst[p]}
  <1>0. /\ TicksTypeOK /\ EntriesDiffer /\ TicksNumbered /\ WorkWasRead /\ NewIsOwn
        /\ NewHasNoCopy /\ CopiedHasCopy
    BY DEF TicksInv
  <1>1. /\ reader[p] = "reading" /\ groupAt' = upto
        /\ working' = [working EXCEPT ![p] = {<<i, "new">> : i \in mine}]
        /\ reader' = [reader EXCEPT ![p] = IF mine = {} THEN "idle" ELSE "working"]
        /\ UNCHANGED <<stream, configured, acked, joined, watchedInst, consumerVars, crashes>>
    BY DEF ReadStream
  <1>2. /\ Len(stream) \in Nat /\ groupAt \in Int /\ groupAt <= Len(stream) /\ groupAt >= -1
        /\ acked \subseteq 1 .. groupAt
        /\ \A i \in Entries : i \in Int
        /\ reader \in [Processors -> {"down", "idle", "reading", "working"}]
        /\ working \in [Processors -> SUBSET (Entries \X {"new", "copied"})]
        /\ \A q \in Processors : reader[q] = "working" <=> working[q] # {}
        /\ \A q \in Processors : reader[q] \in {"reading", "working"} => q \in joined
        /\ joined # {} => groupAt # NoGroup
    BY <1>0, TicksTypes
  <1>3. p \in joined /\ groupAt >= 0
    BY <1>1, <1>2
  <1>4. upto \in Int /\ groupAt <= upto /\ upto <= Len(stream)
    BY <1>2
  <1>5. \A i \in mine : i \in Entries /\ i > groupAt /\ i <= upto
    BY <1>2, <1>3, <1>4 DEF Entries
  <1> HIDE DEF upto, mine
  <1>6. /\ Entries' = Entries /\ Ticks' = Ticks
        /\ \A i, j : (Original(i)' <=> Original(i)) /\ (CopyOf(i, j)' <=> CopyOf(i, j))
    BY <1>1 DEF Entries, Ticks, Original, CopyOf
  <1>7. EntriesDiffer' /\ TicksNumbered'
    BY <1>0, <1>1, <1>6 DEF EntriesDiffer, TicksNumbered
  <1>8. /\ working'[p] = {<<i, "new">> : i \in mine}
        /\ \A q \in Processors \ {p} : working'[q] = working[q]
        /\ working' \in [Processors -> SUBSET (Entries \X {"new", "copied"})]
    <2>1. {<<i, "new">> : i \in mine} \in SUBSET (Entries \X {"new", "copied"})
      BY <1>5
    <2> QED BY <2>1, <1>1, <1>2
  <1>9. \A q \in Processors : \A w \in working[q] : w[1] \in Int /\ w[1] <= groupAt
    <2>1. \A q \in Processors : \A w \in working[q] : w[1] \in Entries
      BY <1>2
    <2> QED BY <2>1, <1>0, <1>2 DEF WorkWasRead
  <1>10. WorkWasRead'
    <2> SUFFICES ASSUME NEW q \in Processors, NEW w \in working'[q] PROVE w[1] <= groupAt'
      BY DEF WorkWasRead
    <2>1. CASE q = p
      BY <2>1, <1>1, <1>5, <1>8
    <2>2. CASE q # p
      BY <2>2, <1>1, <1>2, <1>4, <1>8, <1>9
    <2> QED BY <2>1, <2>2
  <1>11. ASSUME NEW q \in Processors, NEW i \in Entries, <<i, "new">> \in working'[q]
         PROVE  \/ q = p /\ i > groupAt
                \/ q # p /\ i <= groupAt /\ <<i, "new">> \in working[q]
    <2>1. CASE q = p
      BY <2>1, <1>5, <1>8, <1>11
    <2>2. CASE q # p
      BY <2>2, <1>8, <1>9, <1>11
    <2> QED BY <2>1, <2>2
  <1>12. NewIsOwn'
    <2> SUFFICES ASSUME NEW q \in Processors, NEW r \in Processors, NEW i \in Entries,
                        <<i, "new">> \in working'[q], <<i, "new">> \in working'[r]
                 PROVE  q = r
      BY <1>6 DEF NewIsOwn
    <2>1. i \in Int
      BY <1>2
    <2> QED BY <2>1, <1>0, <1>2, <1>11 DEF NewIsOwn
  <1>13. NewHasNoCopy'
    <2> SUFFICES ASSUME NEW i \in Entries, NEW j \in Entries, Original(i),
                        i > groupAt' \/ \E q \in Processors : <<i, "new">> \in working'[q]
                 PROVE  ~CopyOf(i, j)
      BY <1>6 DEF NewHasNoCopy
    <2>1. i \in Int /\ (i > groupAt' => i > groupAt)
      BY <1>1, <1>2, <1>4
    <2>2. i > groupAt \/ \E q \in Processors : <<i, "new">> \in working[q]
      BY <2>1, <1>11
    <2> QED BY <2>2, <1>0 DEF NewHasNoCopy
  <1>14. CopiedHasCopy'
    <2> SUFFICES ASSUME NEW q \in Processors, NEW i \in Entries, <<i, "copied">> \in working'[q]
                 PROVE  \E j \in Entries : j > i /\ CopyOf(i, j)
      BY <1>6 DEF CopiedHasCopy
    <2>1. q # p /\ <<i, "copied">> \in working[q]
      BY <1>8
    <2> QED BY <2>1, <1>0 DEF CopiedHasCopy
  <1>15. AckedIsDone' /\ AckedIsStored'
    BY <1>1, StillDone
  <1>16. /\ reader' \in [Processors -> {"down", "idle", "reading", "working"}]
         /\ \A q \in Processors : reader'[q] = "working" <=> working'[q] # {}
         /\ \A q \in Processors : reader'[q] \in {"reading", "working"} => q \in joined'
    <2>1. working'[p] = {} <=> mine = {}
      <3>1. \A i \in mine : <<i, "new">> \in working'[p]
        BY <1>8
      <3>2. mine = {} => working'[p] = {}
        BY <1>8
      <3> QED BY <3>1, <3>2
    <2> QED BY <2>1, <1>1, <1>2, <1>3, <1>8
  <1>17. /\ groupAt' \in {NoGroup} \cup (0 .. Len(stream'))
         /\ joined' # {} => groupAt' # NoGroup
         /\ acked' \subseteq 1 .. groupAt'
    BY <1>1, <1>2, <1>3, <1>4
  <1>18. TicksTypeOK'
    BY <1>0, <1>1, <1>6, <1>8, <1>16, <1>17 DEF TicksTypeOK, consumerVars
  <1> QED BY <1>7, <1>10, <1>12, <1>13, <1>14, <1>15, <1>18 DEF TicksInv

\* An entry of the work in hand is acknowledged, or given up.
LEMMA DroppingKeeps ==
    ASSUME TicksInv, NEW p \in Processors, NEW i \in Entries, NEW stage \in {"new", "copied"},
           <<i, stage>> \in working[p], Finish(p, <<i, stage>>, {}),
           acked' = acked \/ (acked' = acked \cup {i} /\ (stage = "new" => ~Original(i))),
           UNCHANGED <<stream, configured, groupAt, joined, watchedInst, consumerVars, crashes>>
    PROVE  TicksInv'
  <1>0. TicksTypeOK /\ groupAt \in Int /\ WorkWasRead /\ CopiedHasCopy
    BY TicksTypes DEF TicksInv
  <1>1. Entries \subseteq Entries' /\ {} \subseteq Entries' \X {"new", "copied"}
    BY DEF Entries
  <1>2. /\ working' \in [Processors -> SUBSET (Entries' \X {"new", "copied"})]
        /\ reader' \in [Processors -> {"down", "idle", "reading", "working"}]
        /\ \A q \in Processors : reader'[q] = "working" <=> working'[q] # {}
        /\ \A q \in Processors : reader'[q] \in {"reading", "working"} => q \in joined'
        /\ working'[p] = (working[p] \ {<<i, stage>>}) \cup {}
        /\ \A q \in Processors \ {p} : working'[q] = working[q]
    BY <1>0, <1>1, FinishTypes
  <1>3. \A q \in Processors : working'[q] \subseteq working[q]
    BY <1>2
  <1>4. /\ Entries' = Entries /\ EntriesDiffer' /\ TicksNumbered'
        /\ WorkWasRead' /\ NewIsOwn' /\ NewHasNoCopy' /\ CopiedHasCopy'
    BY <1>0, <1>3, LessWork
  <1>5. stage = "copied" => \E j \in Entries : j > i /\ CopyOf(i, j)
    BY <1>0 DEF CopiedHasCopy
  <1>6. AckedIsDone'
    <2>1. \A k \in acked' \ acked : k = i
      OBVIOUS
    <2>2. \A k \in acked' \ acked : Original(k) => \E j \in Entries : j > k /\ CopyOf(k, j)
      BY <2>1, <1>5
    <2> QED BY <2>2, AckedStays
  <1>7. AckedIsStored'
    BY StoredStays
  <1>8. acked' \subseteq 1 .. groupAt'
    <2>1. i \in 1 .. groupAt
      BY <1>0, TicksTypes DEF WorkWasRead
    <2>2. acked \subseteq 1 .. groupAt
      BY <1>0, TicksTypes
    <2> QED BY <2>1, <2>2
  <1>9. TicksTypeOK'
    BY <1>0, <1>2, <1>8 DEF TicksTypeOK, consumerVars
  <1> QED BY <1>4, <1>6, <1>7, <1>9 DEF TicksInv

LEMMA SkipProcessedKeeps ==
    ASSUME TicksInv, NEW p \in Processors, NEW i \in Entries, SkipProcessed(p, i)
    PROVE  TicksInv'
  BY DroppingKeeps DEF SkipProcessed, IsTick

LEMMA AcknowledgeKeeps ==
    ASSUME TicksInv, NEW p \in Processors, NEW i \in Entries, Acknowledge(p, i)
    PROVE  TicksInv'
  BY DroppingKeeps DEF Acknowledge

LEMMA WorkFailsKeeps ==
    ASSUME TicksInv, NEW p \in Processors, NEW i \in Entries, NEW stage \in {"new", "copied"},
           WorkFails(p, <<i, stage>>)
    PROVE  TicksInv'
  BY DroppingKeeps DEF WorkFails

LEMMA AppendProcessedKeeps ==
    ASSUME TicksInv, NEW p \in Processors, NEW i \in Entries, AppendProcessed(p, i)
    PROVE  TicksInv'
  <1> DEFINE e == [stream[i] EXCEPT !.state = "P"]
  <1> PICK new : new = Len(stream) + 1
    OBVIOUS
  <1>0. /\ TicksTypeOK /\ EntriesDiffer /\ TicksNumbered /\ WorkWasRead /\ NewIsOwn
        /\ NewHasNoCopy /\ CopiedHasCopy /\ AckedIsDone
    BY DEF TicksInv
  <1>1. /\ <<i, "new">> \in working[p] /\ Original(i)
        /\ stream' = Append(stream, e)
        /\ Finish(p, <<i, "new">>, {<<i, "copied">>})
        /\ UNCHANGED <<configured, groupAt, acked, joined, watchedInst, consumerVars, crashes>>
    BY DEF AppendProcessed, IsTick
  <1>2. /\ e \in EntryType /\ e.state = "P" /\ e.tick = stream[i].tick
    <2>1. stream[i] \in EntryType
      BY <1>0, TicksTypes
    <2> QED BY <2>1 DEF EntryType
  <1> HIDE DEF e
  <1>3. /\ stream' \in Seq(EntryType) /\ Len(stream') = new
        /\ Entries' = Entries \cup {new} /\ new \notin Entries
        /\ stream'[new] = e
        /\ \A k \in Entries : stream'[k] = stream[k] /\ k < new
        /\ Ticks' = Ticks
    BY <1>0, <1>1, <1>2, TicksTypes, StreamGrows
  <1>4. /\ Len(stream) \in Nat /\ groupAt \in Int /\ groupAt <= Len(stream) /\ new > groupAt
        /\ acked \subseteq Entries
        /\ \A k \in Entries : k \in Int
    BY <1>0, TicksTypes
  <1>5. i <= groupAt /\ \A j \in Entries : ~CopyOf(i, j)
    <2>1. i <= groupAt
      BY <1>0, <1>1 DEF WorkWasRead
    <2> QED BY <2>1, <1>0, <1>1 DEF NewHasNoCopy
  <1>6. \A k \in Entries : Original(k) /\ stream[k].tick = e.tick => k = i
    BY <1>0, <1>1, <1>2 DEF EntriesDiffer, Original
  <1>7. EntriesDiffer'
    <2>1. \A k \in Entries : ~(stream[k].tick = e.tick /\ stream[k].state = "P")
      BY <1>2, <1>5 DEF CopyOf
    <2> QED BY <2>1, <1>0, <1>2, <1>3 DEF EntriesDiffer
  <1>8. TicksNumbered'
    BY <1>0, <1>2, <1>3 DEF TicksNumbered
  <1>9. /\ \A k \in Entries : Original(k)' <=> Original(k)
        /\ \A k, j \in Entries : CopyOf(k, j)' <=> CopyOf(k, j)
        /\ ~Original(new)'
        /\ \A k \in Entries : CopyOf(k, new)' <=> stream[k].tick = e.tick
    BY <1>2, <1>3 DEF Original, CopyOf
  <1>10. /\ working' \in [Processors -> SUBSET (Entries' \X {"new", "copied"})]
         /\ reader' \in [Processors -> {"down", "idle", "reading", "working"}]
         /\ \A q \in Processors : reader'[q] = "working" <=> working'[q] # {}
         /\ \A q \in Processors : reader'[q] \in {"reading", "working"} => q \in joined'
         /\ working'[p] = (working[p] \ {<<i, "new">>}) \cup {<<i, "copied">>}
         /\ \A q \in Processors \ {p} : working'[q] = working[q]
    <2>1. Entries \subseteq Entries' /\ {<<i, "copied">>} \subseteq Entries' \X {"new", "copied"}
      BY <1>3
    <2> QED BY <2>1, <1>0, <1>1, FinishTypes
  <1>11. /\ \A q \in Processors : \A s \in {"new", "copied"} : <<new, s>> \notin working'[q]
         /\ \A q \in Processors : \A k \in Entries :
               <<k, "new">> \in working'[q] => <<k, "new">> \in working[q] /\ k # i
         /\ \A q \in Processors : \A k \in Entries :
               <<k, "copied">> \in working'[q] => <<k, "copied">> \in working[q] \/ k = i
    <2>1. \A q \in Processors : working[q] \subseteq Entries \X {"new", "copied"}
      BY <1>0, TicksTypes
    <2>2. \A q \in Processors : <<i, "new">> \in working[q] => q = p
      BY <1>0, <1>1 DEF NewIsOwn
    <2>3. \A q \in Processors : \A s \in {"new", "copied"} : <<new, s>> \notin working[q]
      BY <2>1, <1>3
    <2>4. new # i
      BY <1>3
    <2>5. \A q \in Processors : \A s \in {"new", "copied"} : <<new, s>> \notin working'[q]
      BY <2>3, <2>4, <1>10
    <2>6. \A q \in Processors : \A k \in Entries :
               <<k, "new">> \in working'[q] => <<k, "new">> \in working[q] /\ k # i
      BY <2>2, <1>10
    <2>7. \A q \in Processors : \A k \in Entries :
               <<k, "copied">> \in working'[q] => <<k, "copied">> \in working[q] \/ k = i
      BY <1>10
    <2> QED BY <2>5, <2>6, <2>7
  <1>12. WorkWasRead'
    <2> SUFFICES ASSUME NEW q \in Processors, NEW w \in working'[q] PROVE w[1] <= groupAt
      BY <1>1 DEF WorkWasRead
    <2>1. w \in working[q] \/ w = <<i, "copied">>
      BY <1>10
    <2> QED BY <2>1, <1>0, <1>5 DEF WorkWasRead
  <1>13. NewIsOwn'
    BY <1>0, <1>3, <1>11 DEF NewIsOwn
  <1>14. CopiedHasCopy'
    <2> SUFFICES ASSUME NEW q \in Processors, NEW k \in Entries, <<k, "copied">> \in working'[q]
                 PROVE  \E j \in Entries' : j > k /\ CopyOf(k, j)'
      BY <1>3, <1>11 DEF CopiedHasCopy
    <2>1. CASE k = i
      BY <2>1, <1>2, <1>3, <1>9
    <2>2. CASE <<k, "copied">> \in working[q]
      <3>1. PICK j \in Entries : j > k /\ CopyOf(k, j)
        BY <2>2, <1>0 DEF CopiedHasCopy
      <3> QED BY <3>1, <1>3, <1>9
    <2> QED BY <2>1, <2>2, <1>11
  <1>15. NewHasNoCopy'
    <2> SUFFICES ASSUME NEW k \in Entries', NEW j \in Entries', Original(k)',
                        k > groupAt \/ \E q \in Processors : <<k, "new">> \in working'[q]
                 PROVE  ~CopyOf(k, j)'
      BY <1>1 DEF NewHasNoCopy
    <2>1. k \in Entries /\ Original(k)
      BY <1>3, <1>9
    <2>2. k > groupAt \/ \E q \in Processors : <<k, "new">> \in working[q]
      BY <2>1, <1>11
    <2>3. k # i
      BY <2>1, <1>4, <1>5, <1>11
    <2>4. CASE j = new
      BY <2>1, <2>3, <2>4, <1>6, <1>9
    <2>5. CASE j \in Entries
      BY <2>1, <2>2, <2>5, <1>0, <1>9 DEF NewHasNoCopy
    <2> QED BY <2>4, <2>5, <1>3
  <1>16. AckedIsDone'
    <2> SUFFICES ASSUME NEW k \in acked, Original(k)'
                 PROVE  \E j \in Entries' : j > k /\ CopyOf(k, j)'
      BY <1>1 DEF AckedIsDone, CopyOf
    <2>1. k \in Entries /\ Original(k)
      BY <1>4, <1>9
    <2>2. PICK j \in Entries : j > k /\ CopyOf(k, j)
      BY <2>1, <1>0 DEF AckedIsDone, CopyOf
    <2> QED BY <2>1, <2>2, <1>3, <1>9
  <1>17. AckedIsStored'
    BY <1>1, <1>3, StoredStays
  <1>18. TicksTypeOK'
    <2>1. Len(stream') <= 2 * MaxTicks
      BY <1>3, <1>7, StreamIsBounded DEF EntriesDiffer, Entries
    <2>2. /\ groupAt' \in {NoGroup} \cup (0 .. Len(stream'))
          /\ consumerAt' \in 0 .. Len(stream')
      BY <1>0, <1>1, <1>3, <1>4 DEF TicksTypeOK, consumerVars
    <2> QED BY <1>0, <1>1, <1>3, <1>10, <2>1, <2>2 DEF TicksTypeOK, consumerVars, EntryType
  <1> QED BY <1>7, <1>8, <1>12, <1>13, <1>14, <1>15, <1>16, <1>17, <1>18 DEF TicksInv

LEMMA ConsumeTickKeeps ==
    ASSUME TicksInv, NEW outcome \in {"done", "failed", "unacked"}, ConsumeTick(outcome)
    PROVE  TicksInv'
  <1> DEFINE mine == stream[consumerAt + 1].instrument \in Assigned
  <1> PICK i : i = consumerAt + 1
    OBVIOUS
  <1>0. /\ TicksTypeOK /\ groupAt \in Int /\ Len(stream) \in Nat
        /\ consumerAt \in 0 .. Len(stream) /\ consumerAcked \subseteq 1 .. consumerAt
        /\ latest \in [Instruments -> 0 .. MaxTicks]
        /\ \A k \in Entries : stream[k] \in EntryType
    BY TicksTypes DEF TicksInv, TicksTypeOK
  <1>1. /\ i \in Entries /\ consumerAt' = i
        /\ outcome = "failed" => mine
        /\ consumerAcked' = IF outcome = "done" THEN consumerAcked \cup {i} ELSE consumerAcked
        /\ latest' = IF mine /\ outcome # "failed"
                     THEN [latest EXCEPT ![stream[i].instrument] = stream[i].tick] ELSE latest
        /\ UNCHANGED <<stream, configured, groupAt, acked, joined, watchedInst, reader,
                       working, crashes>>
    BY DEF ConsumeTick, AckConsumed
  <1>2. /\ Entries' = Entries /\ EntriesDiffer' /\ TicksNumbered'
        /\ WorkWasRead' /\ NewIsOwn' /\ NewHasNoCopy' /\ CopiedHasCopy'
    BY <1>0, <1>1, LessWork
  <1>3. AckedIsDone'
    BY <1>1, AckedStays
  <1>4. /\ i \in 1 .. Len(stream) /\ consumerAt \in Int /\ i = consumerAt + 1
        /\ stream[i].tick \in 1 .. MaxTicks /\ stream[i].instrument \in Instruments
    BY <1>0, <1>1 DEF Entries, EntryType
  <1>5. latest' \in [Instruments -> 0 .. MaxTicks]
    BY <1>0, <1>1, <1>4
  <1>6. /\ consumerAt' \in 0 .. Len(stream') /\ consumerAcked' \subseteq 1 .. consumerAt'
    BY <1>0, <1>1, <1>4
  <1>7. AckedIsStored'
    <2> SUFFICES ASSUME NEW n \in Assigned, NEW k \in consumerAcked', stream[k].instrument = n
                 PROVE  \E j \in k .. i : stream[j].instrument = n /\ latest'[n] = stream[j].tick
      BY <1>1 DEF AckedIsStored
    <2>1. k \in Int /\ k <= i /\ i \in k .. i
      BY <1>0, <1>1, <1>4
    <2>2. n \in Instruments
      OBVIOUS
    <2>3. CASE stream[i].instrument = n /\ outcome # "failed"
      <3>1. mine /\ latest'[n] = stream[i].tick
        BY <2>2, <2>3, <1>0, <1>1
      <3> QED BY <2>1, <2>3, <3>1
    <2>4. CASE ~(stream[i].instrument = n /\ outcome # "failed")
      <3>1. k \in consumerAcked
        BY <2>4, <1>1
      <3>2. latest'[n] = latest[n]
        BY <2>2, <2>4, <1>0, <1>1
      <3>3. PICK j \in k .. consumerAt : stream[j].instrument = n /\ latest[n] = stream[j].tick
        BY <3>1 DEF TicksInv, AckedIsStored
      <3>4. j \in k .. i
        BY <3>3, <2>1, <1>4
      <3> QED BY <3>2, <3>3, <3>4
    <2> QED BY <2>3, <2>4
  <1>8. TicksTypeOK'
    BY <1>0, <1>1, <1>2, <1>5, <1>6 DEF TicksTypeOK
  <1> QED BY <1>2, <1>3, <1>7, <1>8 DEF TicksInv

LEMMA TicksInvIsInductive == TicksInit /\ [][TicksNext]_tickVars => []TicksInv
  <1>1. ASSUME TicksInv, [TicksNext]_tickVars PROVE TicksInv'
    <2>1. ASSUME NEW n \in Instruments, TickArrives(n) PROVE TicksInv'
      BY <1>1, <2>1, TickArrivesKeeps
    <2>2. ASSUME NEW set \in SUBSET Configurable, ConfigurationsChange(set) PROVE TicksInv'
      BY <1>1, <2>2, ConfigurationsChangeKeeps
    <2>3. ASSUME NEW p \in Processors, Crash(p) \/ Restart(p) PROVE TicksInv'
      BY <1>1, <2>3, CrashKeeps, RestartKeeps
    <2>4. ASSUME NEW p \in Processors, Step(p) PROVE TicksInv'
      BY <1>1, <2>4, LookAtConfigurationsKeeps, ReadStreamKeeps, SkipProcessedKeeps,
         AppendProcessedKeeps, AcknowledgeKeeps DEF Step
    <2>5. ASSUME NEW p \in Processors, NEW i \in Entries, NEW stage \in {"new", "copied"},
                 WorkFails(p, <<i, stage>>)
          PROVE  TicksInv'
      BY <1>1, <2>5, WorkFailsKeeps
    <2>6. ASSUME NEW outcome \in {"done", "failed", "unacked"}, ConsumeTick(outcome)
          PROVE  TicksInv'
      BY <1>1, <2>6, ConsumeTickKeeps
    <2>7. ASSUME UNCHANGED tickVars PROVE TicksInv'
      <3>1. /\ UNCHANGED <<stream, configured, groupAt, acked, joined, watchedInst, reader,
                           working, consumerVars, crashes>>
        BY <2>7 DEF tickVars, consumerVars
      <3>2. TicksTypeOK /\ groupAt \in Int
        BY <1>1, TicksTypes DEF TicksInv
      <3>3. /\ EntriesDiffer' /\ TicksNumbered'
            /\ WorkWasRead' /\ NewIsOwn' /\ NewHasNoCopy' /\ CopiedHasCopy'
        BY <1>1, <3>1, <3>2, LessWork
      <3>4. AckedIsDone' /\ AckedIsStored'
        BY <1>1, <3>1, StillDone
      <3>5. TicksTypeOK'
        BY <3>1, <3>2 DEF TicksTypeOK, consumerVars, Entries
      <3> QED BY <3>3, <3>4, <3>5 DEF TicksInv
    <2> QED BY <1>1, <2>1, <2>2, <2>3, <2>4, <2>5, <2>6, <2>7 DEF TicksNext
  <1> QED BY <1>1, TicksInitially, PTL

LEMMA InvCopiesOnce == TicksInv => OneCopy
  <1> SUFFICES ASSUME TicksInv, NEW t \in 1 .. MaxTicks
               PROVE  Cardinality({i \in Entries : stream[i].tick = t /\ stream[i].state = "P"}) <= 1
    BY DEF OneCopy
  <1> DEFINE Copies == {i \in Entries : stream[i].tick = t /\ stream[i].state = "P"}
  <1>1. \A i, j \in Copies : i = j
    BY DEF TicksInv, EntriesDiffer
  <1>2. CASE Copies = {}
    <2>1. Cardinality({}) = 0
      BY FS_EmptySet
    <2> HIDE DEF Copies
    <2>2. Cardinality(Copies) <= 1
      BY <1>2, <2>1
    <2> QED BY <2>2 DEF Copies
  <1>3. CASE Copies # {}
    <2>1. PICK i : i \in Copies
      BY <1>3
    <2>2. Copies = {i}
      BY <2>1, <1>1
    <2>3. Cardinality({i}) = 1
      BY FS_Singleton
    <2> HIDE DEF Copies
    <2>4. Cardinality(Copies) <= 1
      BY <2>2, <2>3
    <2> QED BY <2>4 DEF Copies
  <1> QED BY <1>2, <1>3

\* An acknowledgement of the processors' group tells of a tick that was copied, one of the
\* consumer tells of a price that was stored, and the stream does not feed on itself,
\* whichever processors crash and however their work interleaves.
THEOREM ReadersKeepTheirPromise == TicksSpec => []TicksPromise
  <1>1. TicksInv => TicksPromise
    BY InvCopiesOnce DEF TicksInv, TicksPromise
  <1> QED BY <1>1, TicksInvIsInductive, PTL DEF TicksSpec

HIDE TickAssumption DEF TickAssumption, NoGroup

-------------------------------------------------------------------------------
(* The cached Greeks.                                                          *)

\* What a computation read is off the spot only if the spot moved since.
ReadInTime(task) ==
    /\ task.at # "compute" => task.age = 0
    /\ task.at = "compute" /\ task.spot # spot => sinceMove <= task.age

\* An update decides at the spot it was told of, or at once after the spot moved.
ToldInTime(task) == task.at = "decide" /\ task.spot # spot => sinceMove = 0

\* What is stored is off the spot only if the spot moved since it was read.
StoredInTime ==
    cachedGreeks # NoGreeks /\ cachedGreeks.spot # spot => sinceMove <= cachedGreeks.age + Flight

GreeksInv ==
    /\ GreeksTypeOK
    /\ \A u \in Updaters : ReadInTime(updater[u]) /\ ToldInTime(updater[u])
    /\ ReadInTime(registry)
    /\ StoredInTime

USE GreeksCacheAssumption DEF GreeksCacheAssumption

LEMMA LongestIs == LongestTTL \in Nat /\ LongestTTL = LongTTL + Flight + 1
  BY DEF LongestTTL

LEMMA MinOfTwo ==
    ASSUME NEW a \in Nat, NEW b \in Nat
    PROVE  Min({a, b}) \in Nat /\ Min({a, b}) <= a /\ Min({a, b}) <= b
             /\ (a < b => Min({a, b}) = a)
  <1> DEFINE P(x) == x \in {a, b} /\ \A y \in {a, b} : x <= y
  <1>1. P(a) \/ P(b)
    OBVIOUS
  <1>2. Min({a, b}) = CHOOSE x \in {a, b} : \A y \in {a, b} : x <= y
    BY DEF Min
  <1>3. P(Min({a, b}))
    BY <1>1, <1>2
  <1> QED BY <1>3

LEMMA QuietTaskIs ==
    ASSUME Spots # {}
    PROVE  /\ QuietTask \in TaskType /\ QuietTask.at = "idle" /\ QuietTask.age = 0
           /\ QuietTask.bulk = FALSE /\ QuietTask.spot \in Spots
           /\ ReadInTime(QuietTask) /\ ToldInTime(QuietTask)
           /\ ReadInTime(QuietTask)' /\ ToldInTime(QuietTask)'
  BY DEF QuietTask, TaskType, TaskStages, ReadInTime, ToldInTime

LEMMA GreeksInitially == GreeksInit => GreeksInv
  <1> SUFFICES ASSUME GreeksInit PROVE GreeksInv
    OBVIOUS
  <1>1. spot \in Spots /\ Spots # {}
    BY DEF GreeksInit
  <1>2. QuietTask \in TaskType /\ QuietTask.at = "idle" /\ ReadInTime(QuietTask) /\ ToldInTime(QuietTask)
    BY <1>1, QuietTaskIs
  <1> HIDE DEF QuietTask
  <1>3. /\ updater = [u \in Updaters |-> QuietTask] /\ registry = QuietTask
        /\ cachedGreeks = NoGreeks /\ sinceMove = LongestTTL
    BY DEF GreeksInit
  <1>4. GreeksTypeOK
    BY <1>1, <1>2, <1>3, LongestIs DEF GreeksTypeOK
  <1> QED BY <1>2, <1>3, <1>4 DEF GreeksInv, StoredInTime

LEMMA SpotMovesKeeps == ASSUME GreeksInv, NEW s \in Spots, SpotMoves(s) PROVE GreeksInv'
  <1>1. spot' = s /\ sinceMove' = 0 /\ UNCHANGED <<cachedGreeks, updater, registry>>
    BY DEF SpotMoves
  <1>2. GreeksTypeOK'
    BY <1>1, LongestIs DEF GreeksInv, GreeksTypeOK
  <1>3. /\ \A u \in Updaters : updater[u] \in TaskType /\ ReadInTime(updater[u])
        /\ registry \in TaskType /\ ReadInTime(registry)
    BY DEF GreeksInv, GreeksTypeOK
  <1>5. StoredInTime'
    <2>1. cachedGreeks # NoGreeks => cachedGreeks.age \in Nat
      BY DEF GreeksInv, GreeksTypeOK
    <2> QED BY <1>1, <2>1 DEF StoredInTime
  <1>6. ReadInTime(registry)'
    BY <1>1, <1>3 DEF ReadInTime, TaskType
  <1>7. \A u \in Updaters : ReadInTime(updater[u])' /\ ToldInTime(updater[u])'
    BY <1>1, <1>3 DEF ReadInTime, ToldInTime, TaskType
  <1> QED BY <1>2, <1>5, <1>6, <1>7 DEF GreeksInv

\* One tick ages a computation and what it read alike.
LEMMA OlderKeeps ==
    ASSUME NEW task \in TaskType, ReadInTime(task), InTime(task), NEW n \in Nat, NEW m \in Nat,
           n <= m + 1, task.at = "compute" /\ task.spot # spot => m <= task.age
    PROVE  /\ Older(task) \in TaskType /\ Older(task).at = task.at /\ Older(task).spot = task.spot
           /\ Older(task).bulk = task.bulk
           /\ task.at # "compute" => Older(task).age = 0
           /\ task.at = "compute" /\ task.spot # spot => n <= Older(task).age
  <1>1. CASE task.at = "compute"
    <2>1. task.age \in Nat /\ task.age < Flight
      BY <1>1 DEF InTime, TaskType
    <2>2. Older(task) = [task EXCEPT !.age = @ + 1]
      BY <1>1 DEF Older
    <2>3. Older(task) = [at |-> task.at, spot |-> task.spot, bulk |-> task.bulk, age |-> task.age + 1]
      BY <2>2 DEF TaskType
    <2>4. task.age + 1 \in 0 .. Flight
      BY <2>1
    <2> QED BY <1>1, <2>1, <2>3, <2>4 DEF TaskType
  <1>2. CASE task.at # "compute"
    BY <1>2 DEF Older, ReadInTime
  <1> QED BY <1>1, <1>2

LEMMA GreeksTickKeeps == ASSUME GreeksInv, GreeksTick PROVE GreeksInv'
  <1>0. /\ spot \in Spots /\ registry \in TaskType /\ registry.at # "decide"
        /\ updater \in [Updaters -> TaskType] /\ \A u \in Updaters : updater[u].at # "invalidate"
        /\ sinceMove \in 0 .. LongestTTL /\ StoredInTime
        /\ \A u \in Updaters : ReadInTime(updater[u])
        /\ ReadInTime(registry)
    BY DEF GreeksInv, GreeksTypeOK
  <1>1. /\ InTime(registry)
        /\ \A u \in Updaters : InTime(updater[u]) /\ updater[u].at # "decide"
        /\ updater' = [u \in Updaters |-> Older(updater[u])] /\ registry' = Older(registry)
        /\ spot' = spot /\ sinceMove' = Min({sinceMove + 1, LongestTTL})
        /\ cachedGreeks' = IF cachedGreeks = NoGreeks \/ cachedGreeks.age + 1 >= cachedGreeks.ttl
                           THEN NoGreeks ELSE [cachedGreeks EXCEPT !.age = @ + 1]
    BY DEF GreeksTick
  <1>2. sinceMove \in Nat /\ sinceMove' \in Nat /\ sinceMove' <= sinceMove + 1 /\ sinceMove' \in 0 .. LongestTTL
    <2>1. sinceMove \in Nat /\ sinceMove + 1 \in Nat /\ LongestTTL \in Nat
      BY <1>0, LongestIs
    <2> DEFINE m == Min({sinceMove + 1, LongestTTL})
    <2>2. m \in Nat /\ m <= sinceMove + 1 /\ m <= LongestTTL
      BY <2>1, MinOfTwo
    <2> HIDE DEF m
    <2>3. m \in 0 .. LongestTTL
      BY <2>1, <2>2
    <2> QED BY <1>1, <2>1, <2>2, <2>3 DEF m
  <1>3. /\ registry' \in TaskType /\ registry'.at # "decide"
        /\ ReadInTime(registry)'
    <2>1. registry.at = "compute" /\ registry.spot # spot => sinceMove <= registry.age
      BY <1>0 DEF ReadInTime
    <2>2. /\ Older(registry) \in TaskType /\ Older(registry).at = registry.at
          /\ Older(registry).spot = registry.spot
          /\ registry.at # "compute" => Older(registry).age = 0
          /\ registry.at = "compute" /\ registry.spot # spot => sinceMove' <= Older(registry).age
      BY <1>0, <1>1, <1>2, <2>1, OlderKeeps
    <2> QED BY <1>0, <1>1, <2>2 DEF ReadInTime
  <1>4. ASSUME NEW u \in Updaters
        PROVE  /\ updater'[u] \in TaskType /\ updater'[u].at # "invalidate"
               /\ ReadInTime(updater[u])' /\ ToldInTime(updater[u])'
    <2>1. updater[u].at = "compute" /\ updater[u].spot # spot => sinceMove <= updater[u].age
      BY <1>0 DEF ReadInTime
    <2>2. updater[u] \in TaskType /\ ReadInTime(updater[u]) /\ InTime(updater[u])
      BY <1>0, <1>1
    <2>3. /\ Older(updater[u]) \in TaskType /\ Older(updater[u]).at = updater[u].at
          /\ Older(updater[u]).spot = updater[u].spot
          /\ updater[u].at # "compute" => Older(updater[u]).age = 0
          /\ updater[u].at = "compute" /\ updater[u].spot # spot => sinceMove' <= Older(updater[u]).age
      BY <1>2, <2>1, <2>2, OlderKeeps
    <2>4. updater'[u] = Older(updater[u])
      BY <1>1
    <2> QED BY <1>0, <1>1, <2>3, <2>4 DEF ReadInTime, ToldInTime
  <1>5. /\ cachedGreeks' \in {NoGreeks} \cup
                [spot : Spots, known : BOOLEAN, age : 0 .. LongTTL, ttl : {LiveTTL, LongTTL}]
        /\ cachedGreeks' # NoGreeks =>
              /\ cachedGreeks'.age < cachedGreeks'.ttl
              /\ cachedGreeks'.known => cachedGreeks'.ttl = LongTTL
        /\ StoredInTime'
    <2>1. CASE cachedGreeks = NoGreeks \/ cachedGreeks.age + 1 >= cachedGreeks.ttl
      BY <1>1, <2>1 DEF StoredInTime
    <2>2. CASE ~(cachedGreeks = NoGreeks \/ cachedGreeks.age + 1 >= cachedGreeks.ttl)
      <3> DEFINE old == cachedGreeks
      <3>1. /\ old \in [spot : Spots, known : BOOLEAN, age : 0 .. LongTTL, ttl : {LiveTTL, LongTTL}]
            /\ old.age < old.ttl /\ (old.known => old.ttl = LongTTL) /\ old.age + 1 < old.ttl
        BY <2>2 DEF GreeksInv, GreeksTypeOK
      <3>2. cachedGreeks' = [spot |-> old.spot, known |-> old.known, age |-> old.age + 1, ttl |-> old.ttl]
        BY <1>1, <2>2, <3>1
      <3>3. old.age + 1 \in 0 .. LongTTL /\ old.age \in Nat
        BY <3>1
      <3>4. old.spot # spot => sinceMove' <= (old.age + 1) + Flight
        BY <1>0, <1>2, <2>2, <3>3 DEF StoredInTime
      <3> QED BY <1>1, <3>1, <3>2, <3>3, <3>4 DEF StoredInTime
    <2> QED BY <2>1, <2>2
  <1>6. updater' \in [Updaters -> TaskType]
    <2>1. \A u \in Updaters : Older(updater[u]) \in TaskType
      BY <1>1, <1>4
    <2> QED BY <1>1, <2>1
  <1>7. GreeksTypeOK'
    BY <1>0, <1>1, <1>2, <1>3, <1>4, <1>5, <1>6 DEF GreeksTypeOK
  <1> QED BY <1>3, <1>4, <1>5, <1>7 DEF GreeksInv

\* What is stored is typed and in time.
Kept ==
    /\ cachedGreeks \in {NoGreeks} \cup
          [spot : Spots, known : BOOLEAN, age : 0 .. LongTTL, ttl : {LiveTTL, LongTTL}]
    /\ cachedGreeks # NoGreeks =>
          /\ cachedGreeks.age < cachedGreeks.ttl
          /\ cachedGreeks.known => cachedGreeks.ttl = LongTTL
    /\ StoredInTime

LEMMA UpdaterKeeps ==
    ASSUME GreeksInv, NEW u \in Updaters, NEW task \in TaskType, task.at # "invalidate",
           ReadInTime(task), ToldInTime(task), updater' = [updater EXCEPT ![u] = task],
           UNCHANGED <<spot, registry, sinceMove>>, Kept'
    PROVE  GreeksInv'
  <1>1. GreeksTypeOK'
    BY DEF GreeksInv, GreeksTypeOK, Kept
  <1>2. ASSUME NEW v \in Updaters PROVE ReadInTime(updater[v])' /\ ToldInTime(updater[v])'
    <2>1. updater'[v] = IF v = u THEN task ELSE updater[v]
      BY DEF GreeksInv, GreeksTypeOK
    <2>2. ReadInTime(updater'[v]) /\ ToldInTime(updater'[v])
      BY <2>1 DEF GreeksInv
    <2> QED BY <2>2 DEF ReadInTime, ToldInTime
  <1>3. ReadInTime(registry)'
    BY DEF GreeksInv, ReadInTime
  <1> QED BY <1>1, <1>2, <1>3 DEF GreeksInv, Kept

LEMMA RegistryKeeps ==
    ASSUME GreeksInv, registry' \in TaskType, registry'.at # "decide", ReadInTime(registry'),
           UNCHANGED <<spot, updater, sinceMove>>, Kept'
    PROVE  GreeksInv'
  <1>1. GreeksTypeOK'
    BY DEF GreeksInv, GreeksTypeOK, Kept
  <1>2. ReadInTime(registry)' /\ \A v \in Updaters : ReadInTime(updater[v])' /\ ToldInTime(updater[v])'
    BY DEF GreeksInv, ReadInTime, ToldInTime
  <1> QED BY <1>1, <1>2 DEF GreeksInv, Kept

LEMMA InvKeptIs ==
    /\ GreeksInv => Kept /\ Spots # {}
    /\ GreeksInv /\ UNCHANGED <<cachedGreeks, spot, sinceMove>> => Kept'
  BY DEF GreeksInv, GreeksTypeOK, Kept, StoredInTime

\* A result that is stored was read as long ago as it took at most.
LEMMA StoreIsKept ==
    ASSUME GreeksInv, NEW task \in TaskType, ReadInTime(task), task.at = "compute",
           NEW knows \in BOOLEAN, Store(task, knows), UNCHANGED <<spot, sinceMove>>
    PROVE  Kept'
  <1>1. cachedGreeks' = [spot |-> task.spot, known |-> knows, age |-> 0,
                         ttl |-> IF task.bulk \/ knows THEN LongTTL ELSE LiveTTL]
    BY DEF Store
  <1> DEFINE ttl == IF task.bulk \/ knows THEN LongTTL ELSE LiveTTL
  <1>2. ttl \in {LiveTTL, LongTTL} /\ (knows => ttl = LongTTL) /\ 0 < ttl
    OBVIOUS
  <1> HIDE DEF ttl
  <1>3. cachedGreeks' = [spot |-> task.spot, known |-> knows, age |-> 0, ttl |-> ttl]
    BY <1>1 DEF ttl
  <1>4. cachedGreeks' \in [spot : Spots, known : BOOLEAN, age : 0 .. LongTTL, ttl : {LiveTTL, LongTTL}]
    BY <1>2, <1>3 DEF TaskType
  <1>5. /\ cachedGreeks'.spot = task.spot /\ cachedGreeks'.age = 0
        /\ cachedGreeks'.ttl = ttl /\ cachedGreeks'.known = knows
    BY <1>3
  <1>6. task.spot # spot => sinceMove <= Flight
    <2>1. task.age \in 0 .. Flight /\ sinceMove \in 0 .. LongestTTL
      BY DEF TaskType, GreeksInv, GreeksTypeOK
    <2> QED BY <2>1 DEF ReadInTime
  <1>7. StoredInTime'
    BY <1>5, <1>6 DEF StoredInTime
  <1> QED BY <1>2, <1>4, <1>5, <1>7 DEF Kept

LEMMA UpdatesKeep ==
    ASSUME GreeksInv, NEW u \in Updaters,
           \/ HandleInstrumentUpdate(u)
           \/ \E bulk \in BOOLEAN : HandleChainRebalance(u, bulk)
           \/ \E urgent \in BOOLEAN : Decide(u, urgent)
           \/ FetchMarket(u) \/ CacheResult(u) \/ RecalculationFails(u)
    PROVE  GreeksInv'
  <1>0. updater[u] \in TaskType /\ spot \in Spots /\ updater \in [Updaters -> TaskType]
          /\ ReadInTime(updater[u])
    BY DEF GreeksInv, GreeksTypeOK
  <1>1. /\ QuietTask \in TaskType /\ QuietTask.at = "idle" /\ QuietTask.age = 0
        /\ ReadInTime(QuietTask) /\ ToldInTime(QuietTask)
    BY <1>0, QuietTaskIs
  <1> HIDE DEF QuietTask
  <1>2. CASE HandleInstrumentUpdate(u)
    <2> DEFINE task == [QuietTask EXCEPT !.at = "decide", !.spot = spot]
    <2>1. /\ task \in TaskType /\ task.at = "decide" /\ task.spot = spot /\ task.age = 0
          /\ updater' = [updater EXCEPT ![u] = task]
          /\ UNCHANGED <<spot, cachedGreeks, registry, sinceMove>>
      BY <1>0, <1>1, <1>2 DEF HandleInstrumentUpdate, TaskType, TaskStages
    <2> HIDE DEF task
    <2> QED BY <2>1, InvKeptIs, UpdaterKeeps DEF ReadInTime, ToldInTime
  <1>3. CASE \E bulk \in BOOLEAN : HandleChainRebalance(u, bulk)
    <2>1. PICK bulk \in BOOLEAN : HandleChainRebalance(u, bulk)
      BY <1>3
    <2> DEFINE task == [QuietTask EXCEPT !.at = "fetch", !.bulk = bulk]
    <2>2. /\ task \in TaskType /\ task.at = "fetch" /\ task.age = 0
          /\ updater' = [updater EXCEPT ![u] = task]
          /\ UNCHANGED <<spot, cachedGreeks, registry, sinceMove>>
      BY <2>1, <1>1 DEF HandleChainRebalance, TaskType, TaskStages
    <2> HIDE DEF task
    <2> QED BY <2>2, InvKeptIs, UpdaterKeeps DEF ReadInTime, ToldInTime
  <1>4. CASE \E urgent \in BOOLEAN : Decide(u, urgent)
    <2>1. PICK urgent \in BOOLEAN : Decide(u, urgent)
      BY <1>4
    <2> DEFINE task == [updater[u] EXCEPT !.at = "fetch"]
    <2>2. /\ task \in TaskType /\ task.at = "fetch" /\ task.age = 0
      <3>1. updater[u].at = "decide" /\ updater[u].age = 0
        BY <1>0, <2>1 DEF Decide, ReadInTime
      <3> QED BY <1>0, <3>1 DEF TaskType, TaskStages
    <2>3. /\ updater' = [updater EXCEPT ![u] = task] \/ updater' = [updater EXCEPT ![u] = QuietTask]
          /\ UNCHANGED <<spot, cachedGreeks, registry, sinceMove>>
      BY <2>1 DEF Decide
    <2> HIDE DEF task
    <2>4. ReadInTime(task) /\ ToldInTime(task)
      BY <2>2 DEF ReadInTime, ToldInTime
    <2>5. CASE updater' = [updater EXCEPT ![u] = task]
      BY <2>2, <2>3, <2>4, <2>5, InvKeptIs, UpdaterKeeps
    <2>6. CASE updater' = [updater EXCEPT ![u] = QuietTask]
      BY <1>1, <2>3, <2>6, InvKeptIs, UpdaterKeeps
    <2> QED BY <2>3, <2>5, <2>6
  <1>5. CASE FetchMarket(u)
    <2> DEFINE task == [updater[u] EXCEPT !.at = "compute", !.spot = spot]
    <2>1. task \in TaskType /\ task.at = "compute" /\ task.spot = spot
      BY <1>0 DEF TaskType, TaskStages
    <2>2. /\ updater' = [updater EXCEPT ![u] = task]
          /\ UNCHANGED <<spot, cachedGreeks, registry, sinceMove>>
      BY <1>5 DEF FetchMarket
    <2> HIDE DEF task
    <2> QED BY <2>1, <2>2, InvKeptIs, UpdaterKeeps DEF ReadInTime, ToldInTime
  <1>6. CASE CacheResult(u)
    <2>1. /\ updater[u].at = "compute" /\ Store(updater[u], FALSE)
          /\ updater' = [updater EXCEPT ![u] = QuietTask]
          /\ UNCHANGED <<spot, registry, sinceMove>>
      BY <1>6 DEF CacheResult
    <2>2. Kept'
      BY <1>0, <2>1, StoreIsKept
    <2> QED BY <1>1, <2>1, <2>2, UpdaterKeeps
  <1>7. CASE RecalculationFails(u)
    <2>1. /\ updater' = [updater EXCEPT ![u] = QuietTask]
          /\ UNCHANGED <<spot, cachedGreeks, registry, sinceMove>>
      BY <1>7 DEF RecalculationFails
    <2> QED BY <1>1, <2>1, InvKeptIs, UpdaterKeeps
  <1> QED BY <1>2, <1>3, <1>4, <1>5, <1>6, <1>7

LEMMA EventsKeep ==
    ASSUME GreeksInv,
           \/ RegistryEvent \/ ReadMarket \/ StoreLatest \/ RegistryFails
           \/ \E fails \in BOOLEAN : InvalidateCaches(fails)
    PROVE  GreeksInv'
  <1>0. registry \in TaskType /\ spot \in Spots /\ ReadInTime(registry)
    BY DEF GreeksInv, GreeksTypeOK
  <1>1. QuietTask \in TaskType /\ QuietTask.at = "idle" /\ ReadInTime(QuietTask)
    BY <1>0, QuietTaskIs
  <1> HIDE DEF QuietTask
  <1>2. CASE RegistryEvent
    <2>1. /\ registry' \in TaskType /\ registry'.at = "invalidate" /\ registry'.age = 0
          /\ UNCHANGED <<spot, cachedGreeks, updater, sinceMove>>
      <3>1. registry.at = "idle" /\ registry.age = 0 /\ registry' = [registry EXCEPT !.at = "invalidate"]
              /\ UNCHANGED <<spot, cachedGreeks, updater, sinceMove>>
        BY <1>0, <1>2 DEF RegistryEvent, ReadInTime
      <3> QED BY <1>0, <3>1 DEF TaskType, TaskStages
    <2> QED BY <2>1, InvKeptIs, RegistryKeeps DEF ReadInTime
  <1>3. CASE ReadMarket
    <2>1. /\ registry' \in TaskType /\ registry'.at = "compute" /\ registry'.spot = spot
          /\ UNCHANGED <<spot, cachedGreeks, updater, sinceMove>>
      BY <1>0, <1>3 DEF ReadMarket, TaskType, TaskStages
    <2> QED BY <2>1, InvKeptIs, RegistryKeeps DEF ReadInTime
  <1>4. CASE StoreLatest
    <2>1. /\ registry.at = "compute" /\ Store(registry, TRUE) /\ registry' = QuietTask
          /\ UNCHANGED <<spot, updater, sinceMove>>
      BY <1>4 DEF StoreLatest
    <2>2. Kept'
      BY <1>0, <2>1, StoreIsKept
    <2> QED BY <1>1, <2>1, <2>2, RegistryKeeps
  <1>5. CASE RegistryFails
    <2>1. registry' = QuietTask /\ UNCHANGED <<spot, cachedGreeks, updater, sinceMove>>
      BY <1>5 DEF RegistryFails
    <2> QED BY <1>1, <2>1, InvKeptIs, RegistryKeeps
  <1>6. CASE \E fails \in BOOLEAN : InvalidateCaches(fails)
    <2>1. PICK fails \in BOOLEAN : InvalidateCaches(fails)
      BY <1>6
    <2>2. registry.at = "invalidate" /\ registry.age = 0 /\ registry' = [registry EXCEPT !.at = "fetch"]
            /\ UNCHANGED <<spot, updater, sinceMove>>
            /\ cachedGreeks' \in {cachedGreeks, NoGreeks}
      BY <1>0, <2>1 DEF InvalidateCaches, ReadInTime
    <2>3. registry' \in TaskType /\ registry'.at = "fetch" /\ registry'.age = 0
      BY <1>0, <2>2 DEF TaskType, TaskStages
    <2>4. Kept'
      BY <2>2, InvKeptIs DEF Kept, StoredInTime
    <2> QED BY <2>2, <2>3, <2>4, RegistryKeeps DEF ReadInTime
  <1> QED BY <1>2, <1>3, <1>4, <1>5, <1>6

LEMMA GreeksInvIsInductive ==
    /\ GreeksInit => GreeksInv
    /\ GreeksInv /\ [GreeksNext]_greeksVars => GreeksInv'
  <1>1. ASSUME GreeksInv, UNCHANGED greeksVars PROVE GreeksInv'
    <2>1. UNCHANGED <<spot, cachedGreeks, updater, registry, sinceMove>>
      BY <1>1 DEF greeksVars
    <2>2. GreeksTypeOK'
      BY <1>1, <2>1 DEF GreeksInv, GreeksTypeOK
    <2>3. /\ ReadInTime(registry)' /\ StoredInTime'
          /\ \A u \in Updaters : ReadInTime(updater[u])' /\ ToldInTime(updater[u])'
      BY <1>1, <2>1 DEF GreeksInv, ReadInTime, ToldInTime, StoredInTime
    <2> QED BY <2>2, <2>3 DEF GreeksInv
  <1>2. ASSUME GreeksInv, GreeksNext PROVE GreeksInv'
    BY <1>2, SpotMovesKeeps, GreeksTickKeeps, UpdatesKeep, EventsKeep DEF GreeksNext
  <1> QED BY <1>1, <1>2, GreeksInitially

\* The longest expiry and a computation after the spot moved, nothing stored is of another.
LEMMA InvEndsStale == GreeksInv => StaleIsBounded
  <1> SUFFICES ASSUME GreeksInv, sinceMove = LongestTTL, cachedGreeks # NoGreeks
               PROVE  cachedGreeks.spot = spot
    BY DEF StaleIsBounded
  <1>1. cachedGreeks.age \in Nat /\ cachedGreeks.age <= LongTTL
    BY DEF GreeksInv, GreeksTypeOK
  <1>2. cachedGreeks.spot # spot => sinceMove <= cachedGreeks.age + Flight
    BY DEF GreeksInv, StoredInTime
  <1> QED BY <1>1, <1>2, LongestIs

\* An update is content with Greeks of another spot only just after the spot moved, or
\* while they are live.
LEMMA DecisionsInTime ==
    ASSUME GreeksInv, GreeksNext, NEW u \in Updaters,
           updater[u].at = "decide", updater'[u].at = "idle", cachedGreeks.spot # updater[u].spot
    PROVE  sinceMove <= LiveTTL + Flight
  <1>0. updater \in [Updaters -> TaskType] /\ sinceMove \in Nat
    BY DEF GreeksInv, GreeksTypeOK
  <1>1. CASE \E urgent \in BOOLEAN : Decide(u, urgent)
    <2>1. PICK urgent \in BOOLEAN : Decide(u, urgent)
      BY <1>1
    <2>2. ~ShouldRecalculate(cachedGreeks, updater[u].spot)
      <3> DEFINE task == [updater[u] EXCEPT !.at = "fetch"]
      <3>1. task.at = "fetch"
        BY <1>0 DEF TaskType
      <3>2. urgent \/ ShouldRecalculate(cachedGreeks, updater[u].spot) => updater'[u] = task
        BY <1>0, <2>1 DEF Decide
      <3> HIDE DEF task
      <3> QED BY <3>1, <3>2
    <2>3. cachedGreeks # NoGreeks /\ ~(cachedGreeks.age > LiveTTL)
      BY <2>2 DEF ShouldRecalculate
    <2>4. cachedGreeks.age \in Nat /\ cachedGreeks.age <= LiveTTL
      BY <2>3 DEF GreeksInv, GreeksTypeOK
    <2>5. CASE updater[u].spot = spot
      BY <1>0, <2>3, <2>4, <2>5 DEF GreeksInv, StoredInTime
    <2>6. CASE updater[u].spot # spot
      BY <2>6 DEF GreeksInv, ToldInTime
    <2> QED BY <2>5, <2>6
  <1>2. ASSUME NEW v \in Updaters, v # u,
               \/ HandleInstrumentUpdate(v)
               \/ \E bulk \in BOOLEAN : HandleChainRebalance(v, bulk)
               \/ \E urgent \in BOOLEAN : Decide(v, urgent)
               \/ FetchMarket(v) \/ CacheResult(v) \/ RecalculationFails(v)
        PROVE  updater'[u] = updater[u]
    BY <1>0, <1>2 DEF HandleInstrumentUpdate, HandleChainRebalance, Decide, FetchMarket, CacheResult,
                      RecalculationFails
  <1>3. ~(\/ HandleInstrumentUpdate(u)
          \/ \E bulk \in BOOLEAN : HandleChainRebalance(u, bulk)
          \/ FetchMarket(u) \/ CacheResult(u) \/ RecalculationFails(u))
    BY DEF HandleInstrumentUpdate, HandleChainRebalance, FetchMarket, CacheResult, RecalculationFails
  <1>4. ~GreeksTick
    BY DEF GreeksTick
  <1>5. \/ \E s \in Spots : SpotMoves(s)
        \/ RegistryEvent \/ ReadMarket \/ StoreLatest \/ RegistryFails
        \/ \E fails \in BOOLEAN : InvalidateCaches(fails)
        => updater'[u] = updater[u]
    BY DEF SpotMoves, RegistryEvent, ReadMarket, StoreLatest, RegistryFails, InvalidateCaches
  <1> QED BY <1>1, <1>2, <1>3, <1>4, <1>5 DEF GreeksNext

\* Whichever of updates, rebalances and events of the registry writes last, the Greeks of
\* another spot are used, and kept, for a bounded time.
THEOREM GreeksAgeInTime == GreeksSpec => GreeksPromise
  <1>1. GreeksInv => GreeksTypeOK /\ StaleIsBounded
    BY InvEndsStale DEF GreeksInv
  <1>2. GreeksInv /\ [GreeksNext]_greeksVars
          => [\A u \in Updaters :
                (/\ updater[u].at = "decide" /\ updater'[u].at = "idle"
                 /\ cachedGreeks.spot # updater[u].spot)
                    => sinceMove <= LiveTTL + Flight]_greeksVars
    BY DecisionsInTime
  <1> QED BY <1>1, <1>2, GreeksInvIsInductive, PTL DEF GreeksSpec, GreeksPromise, AcceptedInTime

HIDE GreeksCacheAssumption DEF GreeksCacheAssumption

-------------------------------------------------------------------------------
(* The configurations of the signals.                                          *)

USE ConfigsAssumption DEF ConfigsAssumption

Places == {"down", "loading", "idle", "cancel", "store", "apply", "remove"}
AtRest == {"down", "loading", "idle"}
ConfigTables == [Handlers -> SUBSET ConfigKeys]

\* An update that is carried out has a kind and a key; a creation cancels nothing, and
\* only a deletion removes.
FineHandlers ==
    {r \in [at : Places, kind : Kinds \cup {"none"}, key : ConfigKeys \cup {"none"}] :
        /\ r.at \notin AtRest => r.key \in ConfigKeys
        /\ r.kind = "create" => r.at \in {"store", "apply"}
        /\ r.at = "remove" => r.kind = "delete"}

UpdatesTyped ==
    /\ updates \in Seq(Kinds \X ConfigKeys)
    /\ sent \in 0 .. MaxMessages /\ Len(updates) <= sent

TablesTyped ==
    /\ currentConfigs \in ConfigTables /\ activeTasks \in ConfigTables
    /\ running \in ConfigTables /\ wanted \in ConfigTables /\ failedOn \in ConfigTables
    /\ handler \in [Handlers -> FineHandlers]

\* The key a processor is working on.
InHand(h) == IF handler[h].at \in AtRest THEN {} ELSE {handler[h].key}

\* Tasks are in the table as long as they run; a key that is about to be removed has none
\* and one that is about to get one is current; on every other key the tables agree.
Consistent(h) ==
    /\ running[h] = activeTasks[h]
    /\ handler[h].at = "remove" => handler[h].key \notin running[h]
    /\ handler[h].at = "apply" => handler[h].key \in currentConfigs[h]
    /\ \A k \in ConfigKeys \ (failedOn[h] \cup InHand(h)) :
          /\ k \in running[h] <=> k \in wanted[h]
          /\ k \in currentConfigs[h] <=> k \in wanted[h]

\* What is deleted is not stored, and nobody is about to store it.
Gone ==
    /\ stored \subseteq ConfigKeys /\ deleted \subseteq ConfigKeys
    /\ deleted \cap stored = {}
    /\ \A h \in Handlers : deleted \cap InHand(h) = {}

ConfigsInv ==
    UpdatesTyped /\ TablesTyped /\ (\A h \in Handlers : Consistent(h)) /\ Gone

LEMMA ConfigsInitially == ConfigsInit => ConfigsInv
  <1> SUFFICES ASSUME ConfigsInit PROVE ConfigsInv
    OBVIOUS
  <1>1. UpdatesTyped
    BY DEF ConfigsInit, UpdatesTyped
  <1>2. Idle \in FineHandlers /\ Idle.at = "idle"
    BY DEF FineHandlers, Idle, Places, AtRest, Kinds
  <1>3. TablesTyped /\ Gone
    BY <1>2 DEF ConfigsInit, TablesTyped, ConfigTables, Gone, InHand, AtRest
  <1>4. \A h \in Handlers : Consistent(h)
    BY <1>2 DEF ConfigsInit, Consistent
  <1> QED BY <1>1, <1>3, <1>4 DEF ConfigsInv

\* A step of one processor leaves the tables of the others alone.
Undisturbed(g) ==
    /\ handler'[g] = handler[g] /\ currentConfigs'[g] = currentConfigs[g]
    /\ activeTasks'[g] = activeTasks[g] /\ running'[g] = running[g]
    /\ wanted'[g] = wanted[g] /\ failedOn'[g] = failedOn[g]

LEMMA OthersStay ==
    ASSUME ConfigsInv, NEW h \in Handlers, \A g \in Handlers \ {h} : Undisturbed(g)
    PROVE  \A g \in Handlers \ {h} : Consistent(g)' /\ InHand(g)' = InHand(g)
  <1> SUFFICES ASSUME NEW g \in Handlers \ {h} PROVE Consistent(g)' /\ InHand(g)' = InHand(g)
    OBVIOUS
  <1>1. Consistent(g) /\ Undisturbed(g)
    BY DEF ConfigsInv
  <1>2. InHand(g)' = InHand(g)
    BY <1>1 DEF InHand, Undisturbed
  <1> QED BY <1>1, <1>2 DEF Consistent, Undisturbed

LEMMA MovesOn ==
    ASSUME ConfigsInv, NEW h \in Handlers, NEW stage, GoesTo(h, stage)
    PROVE  /\ handler' = [handler EXCEPT ![h] = [handler[h] EXCEPT !.at = stage]]
           /\ [handler[h] EXCEPT !.at = stage].at = stage
           /\ [handler[h] EXCEPT !.at = stage].key = handler[h].key
           /\ [handler[h] EXCEPT !.at = stage].kind = handler[h].kind
           /\ stage \in Places =>
                [handler[h] EXCEPT !.at = stage]
                    \in [at : Places, kind : Kinds \cup {"none"}, key : ConfigKeys \cup {"none"}]
  <1>1. handler[h] \in [at : Places, kind : Kinds \cup {"none"}, key : ConfigKeys \cup {"none"}]
    BY DEF ConfigsInv, TablesTyped, FineHandlers
  <1>2. handler' = [handler EXCEPT ![h] = [handler[h] EXCEPT !.at = stage]]
    BY DEF GoesTo
  <1> DEFINE r == handler[h]
  <1> HIDE DEF r
  <1>3. r \in [at : Places, kind : Kinds \cup {"none"}, key : ConfigKeys \cup {"none"}]
    BY <1>1 DEF r
  <1>4. /\ [r EXCEPT !.at = stage].at = stage
        /\ [r EXCEPT !.at = stage].key = r.key
        /\ [r EXCEPT !.at = stage].kind = r.kind
        /\ stage \in Places =>
             [r EXCEPT !.at = stage]
                 \in [at : Places, kind : Kinds \cup {"none"}, key : ConfigKeys \cup {"none"}]
    BY <1>3
  <1> QED BY <1>2, <1>4 DEF r

LEMMA EnvironmentKeeps ==
    ASSUME ConfigsInv,
           \/ \E kind \in Kinds, k \in ConfigKeys : SendUpdate(kind, k)
           \/ \E k \in ConfigKeys : StoredExpires(k)
           \/ \E h \in Handlers : RefuseUpdate(h)
    PROVE  ConfigsInv'
  <1>1. /\ handler' = handler /\ stored' \subseteq stored
        /\ UNCHANGED <<currentConfigs, activeTasks, running, wanted, deleted, failedOn>>
    BY DEF SendUpdate, StoredExpires, RefuseUpdate, NextUpdate, history, memory
  <1>2. UpdatesTyped'
    <2>1. /\ updates \in Seq(Kinds \X ConfigKeys)
          /\ sent \in 0 .. MaxMessages /\ Len(updates) <= sent
      BY DEF ConfigsInv, UpdatesTyped
    <2>2. ASSUME NEW kind \in Kinds, NEW k \in ConfigKeys, SendUpdate(kind, k)
          PROVE  UpdatesTyped'
      <3>1. /\ updates' = Append(updates, <<kind, k>>) /\ sent' = sent + 1
            /\ sent < MaxMessages
        BY <2>2 DEF SendUpdate
      <3>2. updates' \in Seq(Kinds \X ConfigKeys) /\ Len(updates') = Len(updates) + 1
        BY <2>1, <3>1
      <3> QED BY <2>1, <3>1, <3>2 DEF UpdatesTyped
    <2>3. CASE UNCHANGED logVars
      BY <2>1, <2>3 DEF logVars, UpdatesTyped
    <2>4. ASSUME NEW h \in Handlers, RefuseUpdate(h) PROVE UpdatesTyped'
      <3>1. updates # <<>> /\ updates' = Tail(updates) /\ sent' = sent
        BY <2>4 DEF RefuseUpdate, NextUpdate
      <3>2. updates' \in Seq(Kinds \X ConfigKeys) /\ Len(updates') = Len(updates) - 1
        BY <2>1, <3>1
      <3> QED BY <2>1, <3>1, <3>2 DEF UpdatesTyped
    <2> QED BY <2>2, <2>3, <2>4 DEF StoredExpires
  <1>3. TablesTyped'
    BY <1>1 DEF ConfigsInv, TablesTyped
  <1>4. \A h \in Handlers : Consistent(h)' /\ InHand(h)' = InHand(h)
    BY <1>1 DEF ConfigsInv, Consistent, InHand
  <1>5. Gone'
    BY <1>1, <1>4 DEF ConfigsInv, Gone
  <1> QED BY <1>2, <1>3, <1>4, <1>5 DEF ConfigsInv

LEMMA TablesAre ==
    ASSUME ConfigsInv, NEW h \in Handlers
    PROVE  /\ currentConfigs[h] \in SUBSET ConfigKeys /\ activeTasks[h] \in SUBSET ConfigKeys
           /\ running[h] \in SUBSET ConfigKeys /\ wanted[h] \in SUBSET ConfigKeys
           /\ failedOn[h] \in SUBSET ConfigKeys /\ handler[h] \in FineHandlers
  <1>1. TablesTyped
    BY DEF ConfigsInv
  <1> QED BY <1>1 DEF TablesTyped, ConfigTables

LEMMA ReadKeeps == ASSUME ConfigsInv, NEW h \in Handlers, ReadUpdate(h) PROVE ConfigsInv'
  <1> DEFINE u == Head(updates)
             r == [at |-> FirstStage(u[1]), kind |-> u[1], key |-> u[2]]
  <1>1. /\ updates \in Seq(Kinds \X ConfigKeys) /\ updates # <<>>
        /\ sent \in 0 .. MaxMessages /\ Len(updates) <= sent
    BY DEF ConfigsInv, UpdatesTyped, ReadUpdate, NextUpdate
  <1>2. u \in Kinds \X ConfigKeys /\ Tail(updates) \in Seq(Kinds \X ConfigKeys)
          /\ Len(Tail(updates)) <= sent
    BY <1>1
  <1>3. /\ updates' = Tail(updates) /\ sent' = sent /\ handler[h].at = "idle"
        /\ handler' = [handler EXCEPT ![h] = r] /\ deleted' = deleted \ {u[2]}
        /\ UNCHANGED <<stored, currentConfigs, activeTasks, running, wanted, failedOn>>
    BY DEF ReadUpdate, NextUpdate, memory
  <1>4. u[1] \in Kinds /\ u[2] \in ConfigKeys
    BY <1>2
  <1> HIDE DEF u
  <1>5. r \in FineHandlers /\ r.at \in {"cancel", "store"} /\ r.key = u[2]
    BY <1>4 DEF FineHandlers, FirstStage, Kinds, Places, AtRest
  <1> HIDE DEF r
  <1>6. UpdatesTyped'
    BY <1>1, <1>2, <1>3 DEF UpdatesTyped
  <1>7. /\ TablesTyped' /\ handler'[h] = r
        /\ \A g \in Handlers \ {h} : Consistent(g)' /\ InHand(g)' = InHand(g)
    <2>1. /\ TablesTyped' /\ handler'[h] = r
          /\ \A g \in Handlers \ {h} : Undisturbed(g)
      BY <1>3, <1>5 DEF ConfigsInv, TablesTyped, Undisturbed
    <2> QED BY <2>1, OthersStay
  <1>8. Consistent(h)'
    <2>1. Consistent(h) /\ InHand(h) = {}
      BY <1>3 DEF ConfigsInv, InHand, AtRest
    <2> QED BY <1>3, <1>5, <1>7, <2>1 DEF Consistent
  <1>9. Gone'
    <2>1. InHand(h)' = {u[2]}
      BY <1>5, <1>7 DEF InHand, AtRest
    <2> QED BY <1>3, <1>7, <2>1 DEF ConfigsInv, Gone
  <1> QED BY <1>6, <1>7, <1>8, <1>9 DEF ConfigsInv

\* A crash empties the tables of the processor.
LEMMA ProcessorCrashKeeps == ASSUME ConfigsInv, NEW h \in Handlers, ProcessorCrashes(h) PROVE ConfigsInv'
  <1>1. /\ handler' = [handler EXCEPT ![h] = Down]
        /\ currentConfigs' = [currentConfigs EXCEPT ![h] = {}]
        /\ activeTasks' = [activeTasks EXCEPT ![h] = {}]
        /\ running' = [running EXCEPT ![h] = {}]
        /\ wanted' = [wanted EXCEPT ![h] = {}] /\ failedOn' = [failedOn EXCEPT ![h] = {}]
        /\ UNCHANGED <<updates, sent, stored, deleted>>
    BY DEF ProcessorCrashes, logVars
  <1>2. Down \in FineHandlers /\ Down.at = "down"
    BY DEF Down, Idle, FineHandlers, Places, AtRest, Kinds
  <1>3. {} \in SUBSET ConfigKeys
    OBVIOUS
  <1>4. /\ TablesTyped' /\ handler'[h] = Down
        /\ currentConfigs'[h] = {} /\ activeTasks'[h] = {}
        /\ running'[h] = {} /\ wanted'[h] = {} /\ failedOn'[h] = {}
        /\ \A g \in Handlers \ {h} : Undisturbed(g)
    BY <1>1, <1>2, <1>3 DEF ConfigsInv, TablesTyped, ConfigTables, Undisturbed
  <1>5. Consistent(h)'
    BY <1>2, <1>4 DEF Consistent
  <1>6. Gone'
    <2>1. InHand(h)' = {}
      BY <1>2, <1>4 DEF InHand, AtRest
    <2> QED BY <1>1, <1>4, <2>1, OthersStay DEF ConfigsInv, Gone
  <1>7. UpdatesTyped'
    BY <1>1 DEF ConfigsInv, UpdatesTyped
  <1> QED BY <1>4, <1>5, <1>6, <1>7, OthersStay DEF ConfigsInv

LEMMA StartKeeps ==
    ASSUME ConfigsInv, NEW h \in Handlers, ProcessorStarts(h) \/ LoadingEnds(h)
    PROVE  ConfigsInv'
  <1>1. PICK stage \in {"loading", "idle"} : GoesTo(h, stage)
    BY DEF ProcessorStarts, LoadingEnds
  <1>2. /\ handler[h].at \in {"down", "loading"}
        /\ UNCHANGED <<updates, sent, stored, deleted, currentConfigs, activeTasks, running,
                       wanted, failedOn>>
    BY DEF ProcessorStarts, LoadingEnds, Up, logVars, memory, history
  <1> DEFINE r == [handler[h] EXCEPT !.at = stage]
  <1>3. /\ handler' = [handler EXCEPT ![h] = r] /\ r.at = stage /\ r.kind = handler[h].kind
        /\ r.key = handler[h].key
        /\ r \in [at : Places, kind : Kinds \cup {"none"}, key : ConfigKeys \cup {"none"}]
    BY <1>1, MovesOn DEF Places
  <1> HIDE DEF r
  <1>4. r \in FineHandlers
    <2>1. handler[h].kind # "create"
      BY <1>2, TablesAre DEF FineHandlers
    <2> QED BY <1>3, <2>1 DEF FineHandlers, AtRest
  <1>5. /\ TablesTyped' /\ handler'[h] = r
        /\ \A g \in Handlers \ {h} : Consistent(g)' /\ InHand(g)' = InHand(g)
    <2>1. /\ TablesTyped' /\ handler'[h] = r
          /\ \A g \in Handlers \ {h} : Undisturbed(g)
      BY <1>2, <1>3, <1>4 DEF ConfigsInv, TablesTyped, Undisturbed
    <2> QED BY <2>1, OthersStay
  <1>6. InHand(h)' = {} /\ InHand(h) = {}
    BY <1>2, <1>3, <1>5 DEF InHand, AtRest
  <1>7. Consistent(h)'
    <2>1. Consistent(h)
      BY DEF ConfigsInv
    <2> QED BY <1>2, <1>3, <1>5, <1>6, <2>1 DEF Consistent
  <1>8. Gone' /\ UpdatesTyped'
    BY <1>2, <1>5, <1>6 DEF ConfigsInv, Gone, UpdatesTyped
  <1> QED BY <1>5, <1>7, <1>8 DEF ConfigsInv

\* What a step makes of the key in hand.
LEMMA WorkKeeps ==
    ASSUME ConfigsInv, NEW h \in Handlers, CancelOld(h) \/ StoreConfig(h)
    PROVE  ConfigsInv'
  <1> DEFINE k == handler[h].key
             stage == IF handler[h].at = "cancel"
                        THEN IF handler[h].kind = "delete" THEN "remove" ELSE "store"
                        ELSE "apply"
             r == [handler[h] EXCEPT !.at = stage]
             cur == IF stage = "apply" THEN currentConfigs[h] \cup {k} ELSE currentConfigs[h]
             run == IF stage = "apply" THEN running[h] ELSE running[h] \ {k}
  <1>1. handler[h].at \in {"cancel", "store"} /\ k \in ConfigKeys
    BY TablesAre DEF CancelOld, StoreConfig, FineHandlers, AtRest
  <1>2. /\ handler' = [handler EXCEPT ![h] = r] /\ r.at = stage /\ r.kind = handler[h].kind
        /\ r.key = k
        /\ r \in [at : Places, kind : Kinds \cup {"none"}, key : ConfigKeys \cup {"none"}]
    <2>1. GoesTo(h, stage) /\ stage \in Places
      BY DEF CancelOld, StoreConfig, Places
    <2> QED BY <2>1, MovesOn
  <1>3. running[h] = activeTasks[h] /\ Consistent(h)
    BY DEF ConfigsInv, Consistent
  <1>4. /\ currentConfigs' = [currentConfigs EXCEPT ![h] = cur]
        /\ activeTasks' = [activeTasks EXCEPT ![h] = run]
        /\ running' = [running EXCEPT ![h] = run]
    <2>1. TablesTyped
      BY DEF ConfigsInv
    <2>2. CASE CancelOld(h)
      <3>1. cur = currentConfigs[h] /\ run = running[h] \ {k} /\ currentConfigs' = currentConfigs
        BY <2>2 DEF CancelOld
      <3>2. /\ activeTasks' = [activeTasks EXCEPT ![h] = activeTasks[h] \ {k}]
            /\ running' = [running EXCEPT ![h] = running[h] \ {k}]
        BY <2>2 DEF CancelOld, CancelTask, Without
      <3> HIDE DEF cur, run
      <3> QED BY <1>3, <2>1, <3>1, <3>2 DEF TablesTyped, ConfigTables
    <2>3. CASE StoreConfig(h)
      <3>1. cur = currentConfigs[h] \cup {k} /\ run = running[h]
        BY <2>3 DEF StoreConfig
      <3>2. /\ currentConfigs' = [currentConfigs EXCEPT ![h] = currentConfigs[h] \cup {k}]
            /\ activeTasks' = activeTasks /\ running' = running
        BY <2>3 DEF StoreConfig, With
      <3> HIDE DEF cur, run
      <3> QED BY <1>3, <2>1, <3>1, <3>2 DEF TablesTyped, ConfigTables
    <2> QED BY <2>2, <2>3
  <1>5. /\ UNCHANGED <<updates, sent, wanted, failedOn, deleted>>
        /\ stored' = IF stage = "apply" THEN stored \cup {k} ELSE stored
    BY DEF CancelOld, StoreConfig, logVars, history
  <1>6. r \in FineHandlers
    <2>1. handler[h].kind = "create" => handler[h].at = "store"
      BY <1>1, TablesAre DEF FineHandlers
    <2> QED BY <1>1, <1>2, <2>1 DEF FineHandlers
  <1>7. cur \in SUBSET ConfigKeys /\ run \in SUBSET ConfigKeys
    BY <1>1, TablesAre
  <1>8. stage = "remove" => k \notin run
    OBVIOUS
  <1>9. stage = "apply" => k \in cur
    OBVIOUS
  <1>10. \A j \in ConfigKeys \ {k} : (j \in run <=> j \in running[h])
                                  /\ (j \in cur <=> j \in currentConfigs[h])
    OBVIOUS
  <1>11. stage \notin AtRest /\ handler[h].at \notin AtRest
    BY <1>1 DEF AtRest
  <1> HIDE DEF cur, run, r
  <1>12. /\ TablesTyped' /\ handler'[h] = r
         /\ currentConfigs'[h] = cur /\ activeTasks'[h] = run /\ running'[h] = run
         /\ \A g \in Handlers \ {h} : Consistent(g)' /\ InHand(g)' = InHand(g)
    <2>1. /\ TablesTyped' /\ handler'[h] = r
          /\ currentConfigs'[h] = cur /\ activeTasks'[h] = run /\ running'[h] = run
          /\ \A g \in Handlers \ {h} : Undisturbed(g)
      BY <1>2, <1>4, <1>5, <1>6, <1>7 DEF ConfigsInv, TablesTyped, ConfigTables, Undisturbed
    <2> QED BY <2>1, OthersStay
  <1> HIDE DEF k, stage
  <1>13. InHand(h)' = {k} /\ InHand(h) = {k}
    BY <1>2, <1>11, <1>12 DEF InHand, k
  <1>14. Consistent(h)'
    BY <1>2, <1>3, <1>5, <1>8, <1>9, <1>10, <1>12, <1>13 DEF Consistent
  <1>15. Gone'
    <2>1. deleted \cap {k} = {} /\ Gone
      BY <1>13 DEF ConfigsInv, Gone
    <2> QED BY <1>1, <1>5, <1>12, <1>13, <2>1 DEF Gone, k
  <1>16. UpdatesTyped'
    BY <1>5 DEF ConfigsInv, UpdatesTyped
  <1> QED BY <1>12, <1>14, <1>15, <1>16 DEF ConfigsInv

\* And how it ends.
LEMMA EndKeeps ==
    ASSUME ConfigsInv, NEW h \in Handlers, ApplyConfig(h) \/ RemoveStored(h) \/ UpdateFails(h)
    PROVE  ConfigsInv'
  <1> DEFINE k == handler[h].key
  <1>1. handler[h].at \in {"store", "apply", "remove"} /\ k \in ConfigKeys
    BY TablesAre DEF ApplyConfig, RemoveStored, UpdateFails, FineHandlers, AtRest
  <1>2. handler' = [handler EXCEPT ![h] = Idle] /\ Idle \in FineHandlers /\ Idle.at = "idle"
    BY DEF ApplyConfig, RemoveStored, UpdateFails, Ends, FineHandlers, Idle, Places, AtRest, Kinds
  <1>3. Consistent(h) /\ running[h] = activeTasks[h] /\ InHand(h) = {k}
    BY <1>1 DEF ConfigsInv, Consistent, InHand, AtRest
  <1>4. updates' = updates /\ sent' = sent
    BY DEF ApplyConfig, RemoveStored, UpdateFails, logVars
  <1>5. UpdatesTyped'
    BY <1>4 DEF ConfigsInv, UpdatesTyped
  <1>6. CASE ApplyConfig(h)
    <2>1. /\ activeTasks' = [activeTasks EXCEPT ![h] = running[h] \cup {k}]
          /\ running' = [running EXCEPT ![h] = running[h] \cup {k}]
          /\ wanted' = [wanted EXCEPT ![h] = wanted[h] \cup {k}]
          /\ failedOn' = [failedOn EXCEPT ![h] = failedOn[h] \ {k}]
          /\ UNCHANGED <<stored, currentConfigs, deleted>>
      BY <1>3, <1>6 DEF ApplyConfig, With, Without
    <2>2. k \in currentConfigs[h]
      BY <1>3, <1>6 DEF ApplyConfig, Consistent
    <2>3. /\ running[h] \cup {k} \in SUBSET ConfigKeys /\ wanted[h] \cup {k} \in SUBSET ConfigKeys
          /\ failedOn[h] \ {k} \in SUBSET ConfigKeys
      BY <1>1, TablesAre
    <2>4. /\ TablesTyped'
          /\ handler'[h] = Idle /\ currentConfigs'[h] = currentConfigs[h]
          /\ activeTasks'[h] = running[h] \cup {k} /\ running'[h] = running[h] \cup {k}
          /\ wanted'[h] = wanted[h] \cup {k} /\ failedOn'[h] = failedOn[h] \ {k}
          /\ \A g \in Handlers \ {h} : Consistent(g)' /\ InHand(g)' = InHand(g)
      <3>1. /\ TablesTyped'
            /\ handler'[h] = Idle /\ currentConfigs'[h] = currentConfigs[h]
            /\ activeTasks'[h] = running[h] \cup {k} /\ running'[h] = running[h] \cup {k}
            /\ wanted'[h] = wanted[h] \cup {k} /\ failedOn'[h] = failedOn[h] \ {k}
            /\ \A g \in Handlers \ {h} : Undisturbed(g)
        BY <1>2, <2>1, <2>3 DEF ConfigsInv, TablesTyped, ConfigTables, Undisturbed
      <3> QED BY <3>1, OthersStay
    <2>5. InHand(h)' = {}
      BY <1>2, <2>4 DEF InHand, AtRest
    <2> HIDE DEF k
    <2>6. Consistent(h)'
      BY <1>2, <1>3, <2>2, <2>4, <2>5 DEF Consistent
    <2>7. Gone'
      BY <2>1, <2>4, <2>5 DEF ConfigsInv, Gone
    <2> QED BY <1>5, <2>4, <2>6, <2>7 DEF ConfigsInv
  <1>7. CASE RemoveStored(h)
    <2>1. /\ currentConfigs' = [currentConfigs EXCEPT ![h] = currentConfigs[h] \ {k}]
          /\ wanted' = [wanted EXCEPT ![h] = wanted[h] \ {k}]
          /\ failedOn' = [failedOn EXCEPT ![h] = failedOn[h] \ {k}]
          /\ stored' = stored \ {k}
          /\ UNCHANGED <<activeTasks, running>>
      BY <1>7 DEF RemoveStored, Without
    <2>2. k \notin running[h]
      BY <1>3, <1>7 DEF RemoveStored, Consistent
    <2>3. /\ currentConfigs[h] \ {k} \in SUBSET ConfigKeys /\ wanted[h] \ {k} \in SUBSET ConfigKeys
          /\ failedOn[h] \ {k} \in SUBSET ConfigKeys
      BY TablesAre
    <2>4. /\ TablesTyped'
          /\ handler'[h] = Idle /\ currentConfigs'[h] = currentConfigs[h] \ {k}
          /\ activeTasks'[h] = activeTasks[h] /\ running'[h] = running[h]
          /\ wanted'[h] = wanted[h] \ {k} /\ failedOn'[h] = failedOn[h] \ {k}
          /\ \A g \in Handlers \ {h} : Consistent(g)' /\ InHand(g)' = InHand(g)
      <3>1. /\ TablesTyped'
            /\ handler'[h] = Idle /\ currentConfigs'[h] = currentConfigs[h] \ {k}
            /\ activeTasks'[h] = activeTasks[h] /\ running'[h] = running[h]
            /\ wanted'[h] = wanted[h] \ {k} /\ failedOn'[h] = failedOn[h] \ {k}
            /\ \A g \in Handlers \ {h} : Undisturbed(g)
        BY <1>2, <2>1, <2>3 DEF ConfigsInv, TablesTyped, ConfigTables, Undisturbed
      <3> QED BY <3>1, OthersStay
    <2>5. InHand(h)' = {}
      BY <1>2, <2>4 DEF InHand, AtRest
    <2>6. deleted' = IF Alone(h) THEN deleted \cup {k} ELSE deleted
      BY <1>7 DEF RemoveStored
    <2>7. Alone(h) => \A g \in Handlers \ {h} : k \notin InHand(g)
      BY DEF Alone, InHand
    <2> HIDE DEF k
    <2>8. Consistent(h)'
      BY <1>2, <1>3, <2>2, <2>4, <2>5 DEF Consistent
    <2>9. Gone'
      <3>1. Gone /\ deleted' \in {deleted, deleted \cup {k}}
        BY <2>6 DEF ConfigsInv
      <3>2. \A g \in Handlers \ {h} : deleted' \cap InHand(g) = {}
        BY <2>6, <2>7, <3>1 DEF Gone
      <3> QED BY <1>1, <2>1, <2>4, <2>5, <3>1, <3>2 DEF Gone
    <2> QED BY <1>5, <2>4, <2>8, <2>9 DEF ConfigsInv
  <1>8. CASE UpdateFails(h)
    <2>1. /\ failedOn' = [failedOn EXCEPT ![h] = failedOn[h] \cup {k}]
          /\ UNCHANGED <<stored, deleted, currentConfigs, activeTasks, running, wanted>>
      BY <1>8 DEF UpdateFails, With, memory
    <2>2. failedOn[h] \cup {k} \in SUBSET ConfigKeys
      BY <1>1, TablesAre
    <2>3. /\ TablesTyped'
          /\ handler'[h] = Idle /\ currentConfigs'[h] = currentConfigs[h]
          /\ activeTasks'[h] = activeTasks[h] /\ running'[h] = running[h]
          /\ wanted'[h] = wanted[h] /\ failedOn'[h] = failedOn[h] \cup {k}
          /\ \A g \in Handlers \ {h} : Consistent(g)' /\ InHand(g)' = InHand(g)
      <3>1. /\ TablesTyped'
            /\ handler'[h] = Idle /\ currentConfigs'[h] = currentConfigs[h]
            /\ activeTasks'[h] = activeTasks[h] /\ running'[h] = running[h]
            /\ wanted'[h] = wanted[h] /\ failedOn'[h] = failedOn[h] \cup {k}
            /\ \A g \in Handlers \ {h} : Undisturbed(g)
        BY <1>2, <2>1, <2>2 DEF ConfigsInv, TablesTyped, ConfigTables, Undisturbed
      <3> QED BY <3>1, OthersStay
    <2>4. InHand(h)' = {}
      BY <1>2, <2>3 DEF InHand, AtRest
    <2> HIDE DEF k
    <2>5. Consistent(h)'
      BY <1>2, <1>3, <2>3, <2>4 DEF Consistent
    <2>6. Gone'
      BY <2>1, <2>3, <2>4 DEF ConfigsInv, Gone
    <2> QED BY <1>5, <2>3, <2>5, <2>6 DEF ConfigsInv
  <1> QED BY <1>6, <1>7, <1>8

LEMMA ConfigsInvIsInductive == ConfigsInv /\ [ConfigsNext]_configVars => ConfigsInv'
  <1> SUFFICES ASSUME ConfigsInv, [ConfigsNext]_configVars PROVE ConfigsInv'
    OBVIOUS
  <1>1. CASE UNCHANGED configVars
    BY <1>1 DEF configVars, ConfigsInv, UpdatesTyped, TablesTyped, Consistent, Gone, InHand
  <1> QED
    BY <1>1, ReadKeeps, EnvironmentKeeps, ProcessorCrashKeeps, StartKeeps, WorkKeeps, EndKeeps
       DEF ConfigsNext, HandlerStep

LEMMA InvKeepsConfigs ==
    ConfigsInv => ConfigsTypeOK /\ DoesAsAsked /\ DeletedIsGone /\ RunningIsKnown
  <1> SUFFICES ASSUME ConfigsInv
               PROVE  ConfigsTypeOK /\ DoesAsAsked /\ DeletedIsGone /\ RunningIsKnown
    OBVIOUS
  <1>1. ConfigsTypeOK
    BY DEF ConfigsInv, ConfigsTypeOK, UpdatesTyped, TablesTyped, ConfigTables, Gone,
           FineHandlers, Places, AtRest
  <1>2. \A h \in Handlers : Consistent(h) /\ InHand(h) \subseteq {handler[h].key}
    BY DEF ConfigsInv, InHand
  <1>3. DoesAsAsked /\ RunningIsKnown
    BY <1>2 DEF DoesAsAsked, RunningIsKnown, Consistent
  <1> QED BY <1>1, <1>3 DEF ConfigsInv, Gone, DeletedIsGone

\* For any keys, processors and number of updates: a processor has, computes and holds
\* current what it was itself asked last, unless a call failed, and what a deletion that
\* no other update overlapped has deleted is not stored.
THEOREM ConfigurationsAgree ==
    ConfigsSpec => [](ConfigsTypeOK /\ DoesAsAsked /\ DeletedIsGone /\ RunningIsKnown)
  BY ConfigsInitially, ConfigsInvIsInductive, InvKeepsConfigs, PTL DEF ConfigsSpec

HIDE ConfigsAssumption DEF ConfigsAssumption

-------------------------------------------------------------------------------
(* The events of the registry.                                                 *)

USE RegistryAssumption DEF RegistryAssumption

ConsumerStages ==
    {"unused", "starting", "connecting", "reading", "waiting", "pausing", "ended"}

\* The consumer, if there is one, is the one whose handle the service keeps, and it is
\* there because the service runs or its stop waits for it.
TheConsumer ==
    /\ \A t \in Tasks : Alive(t) => t = consumerTask /\ (serviceRunning \/ stopping)
    /\ stopping => consumerTask \in Tasks

RegistryInv == RegistryTypeOK /\ TheConsumer

LEMMA RegistryInitially == RegistryInit => RegistryInv
  <1> SUFFICES ASSUME RegistryInit PROVE RegistryInv
    OBVIOUS
  <1>1. 0 \in 0 .. RetryAttempts - 1 /\ 0 \in 0 .. RetryAttempts
    OBVIOUS
  <1>2. RegistryTypeOK
    BY <1>1 DEF RegistryInit, RegistryTypeOK
  <1>3. TheConsumer
    BY DEF RegistryInit, TheConsumer, Alive, Stops
  <1> QED BY <1>2, <1>3 DEF RegistryInv

\* The consumer of the service goes on.
LEMMA ConsumerGoes ==
    ASSUME RegistryInv, NEW t \in Tasks, Goes(t), NEW stage \in ConsumerStages, GoTo(t, stage),
           retryCount' \in [Tasks -> 0 .. RetryAttempts - 1], failures' \in 0 .. RetryAttempts,
           UNCHANGED <<serviceRunning, consumerTask, registryUp, stopping>>
    PROVE  RegistryInv'
  <1>1. /\ consumer \in [Tasks -> ConsumerStages] /\ t = consumerTask
        /\ \A u \in Tasks : Alive(u) => u = consumerTask /\ (serviceRunning \/ stopping)
        /\ consumer' = [consumer EXCEPT ![t] = stage] /\ serviceRunning /\ ~stopping
    BY DEF RegistryInv, RegistryTypeOK, TheConsumer, ConsumerStages, Goes, GoTo
  <1>2. consumer' \in [Tasks -> ConsumerStages]
    BY <1>1
  <1>3. \A u \in Tasks : u # t => consumer'[u] = consumer[u]
    BY <1>1
  <1>4. TheConsumer'
    BY <1>1, <1>3 DEF TheConsumer, Alive
  <1>5. RegistryTypeOK'
    BY <1>2 DEF RegistryInv, RegistryTypeOK, ConsumerStages
  <1> QED BY <1>4, <1>5 DEF RegistryInv

LEMMA ConsumersKeep ==
    ASSUME RegistryInv, NEW t \in Tasks,
           \/ \E fails \in BOOLEAN : OpenSession(t, fails)
           \/ EventsConnect(t) \/ ConnectionFails(t) \/ WaitEnds(t) \/ EventArrives(t)
           \/ StreamEnds(t)
    PROVE  RegistryInv'
  <1>1. /\ Goes(t) /\ UNCHANGED <<serviceRunning, consumerTask, registryUp, stopping>>
    BY DEF OpenSession, EventsConnect, ConnectionFails, WaitEnds, EventArrives, StreamEnds
  <1>2. \E stage \in ConsumerStages : GoTo(t, stage)
    BY DEF OpenSession, EventsConnect, ConnectionFails, WaitEnds, EventArrives, StreamEnds,
           ConsumerStages
  <1>3. retryCount \in [Tasks -> 0 .. RetryAttempts - 1] /\ failures \in 0 .. RetryAttempts
    BY DEF RegistryInv, RegistryTypeOK
  <1>4. retryCount' \in [Tasks -> 0 .. RetryAttempts - 1]
    <2>1. CASE ConnectionFails(t) /\ ~LastAttempt(t)
      <3>1. retryCount' = [retryCount EXCEPT ![t] = @ + 1]
        BY <2>1 DEF ConnectionFails
      <3>2. retryCount[t] + 1 \in 0 .. RetryAttempts - 1
        BY <1>3, <2>1 DEF LastAttempt
      <3> QED BY <1>3, <3>1, <3>2
    <2>2. CASE EventsConnect(t)
      <3>1. retryCount' = [retryCount EXCEPT ![t] = 0] /\ 0 \in 0 .. RetryAttempts - 1
        BY <2>2 DEF EventsConnect, ResetRetries
      <3> QED BY <1>3, <3>1
    <2>3. CASE UNCHANGED retryCount
      BY <1>3, <2>3
    <2> QED
      BY <2>1, <2>2, <2>3 DEF OpenSession, ConnectionFails, WaitEnds, EventArrives, StreamEnds
  <1>5. failures' \in 0 .. RetryAttempts
    BY <1>3 DEF OpenSession, EventsConnect, ConnectionFails, WaitEnds, EventArrives, StreamEnds
  <1> QED BY <1>1, <1>2, <1>4, <1>5, ConsumerGoes

LEMMA AnotherTakesOver ==
    ASSUME RegistryInv, NEW t \in Tasks, PauseEnds(t)
    PROVE  RegistryInv'
  <1>1. /\ consumer \in [Tasks -> ConsumerStages] /\ t = consumerTask /\ Alive(t) /\ ~stopping
        /\ \A u \in Tasks : Alive(u) => u = consumerTask /\ (serviceRunning \/ stopping)
        /\ retryCount \in [Tasks -> 0 .. RetryAttempts - 1] /\ failures \in 0 .. RetryAttempts
        /\ UNCHANGED <<serviceRunning, registryUp, stopping, failures>>
    BY DEF RegistryInv, RegistryTypeOK, TheConsumer, ConsumerStages, Goes, PauseEnds
  <1>2. CASE ~serviceRunning
    BY <1>1, <1>2
  <1>3. CASE serviceRunning
    <2>1. PICK new \in Tasks :
              /\ ~Alive(new)
              /\ consumer' = [consumer EXCEPT ![t] = "ended", ![new] = "starting"]
              /\ retryCount' = [retryCount EXCEPT ![new] = 0]
              /\ consumerTask' = new
      BY <1>3 DEF PauseEnds, AndEnds
    <2>2. /\ consumer' \in [Tasks -> ConsumerStages]
          /\ \A u \in Tasks : consumer'[u] = IF u = new THEN "starting"
                                             ELSE IF u = t THEN "ended" ELSE consumer[u]
      BY <1>1, <2>1 DEF ConsumerStages
    <2>3. retryCount' \in [Tasks -> 0 .. RetryAttempts - 1]
      <3>1. 0 \in 0 .. RetryAttempts - 1
        OBVIOUS
      <3> QED BY <1>1, <2>1, <3>1
    <2>4. RegistryTypeOK'
      BY <1>1, <2>1, <2>2, <2>3 DEF RegistryInv, RegistryTypeOK, ConsumerStages
    <2>5. TheConsumer'
      BY <1>1, <1>3, <2>1, <2>2 DEF TheConsumer, Alive, Stops
    <2> QED BY <2>4, <2>5 DEF RegistryInv
  <1> QED BY <1>2, <1>3

LEMMA ServiceKeeps ==
    ASSUME RegistryInv, StartService \/ StopService \/ StopReturns \/ RegistryChanges
    PROVE  RegistryInv'
  <1>1. /\ consumer \in [Tasks -> ConsumerStages] /\ serviceRunning \in BOOLEAN
        /\ registryUp \in BOOLEAN /\ stopping \in BOOLEAN
        /\ consumerTask \in Tasks \cup {NoTask} /\ NoTask \notin Tasks
        /\ \A u \in Tasks : Alive(u) => u = consumerTask /\ (serviceRunning \/ stopping)
        /\ stopping => consumerTask \in Tasks
        /\ retryCount \in [Tasks -> 0 .. RetryAttempts - 1] /\ failures \in 0 .. RetryAttempts
    BY DEF RegistryInv, RegistryTypeOK, TheConsumer, ConsumerStages
  <1>2. CASE StartService /\ NoConsumerYet
    <2>1. PICK t \in Tasks : /\ consumer' = [consumer EXCEPT ![t] = "starting"]
                             /\ consumerTask' = t
      BY <1>2 DEF StartService
    <2>2. \A u \in Tasks : ~Alive(u)
      BY <1>1, <1>2 DEF NoConsumerYet
    <2>3. /\ consumer' \in [Tasks -> ConsumerStages]
          /\ \A u \in Tasks : u # t => consumer'[u] = consumer[u]
      BY <1>1, <2>1 DEF ConsumerStages
    <2>4. RegistryTypeOK' /\ TheConsumer'
      BY <1>1, <1>2, <2>1, <2>2, <2>3 DEF StartService, RegistryTypeOK, TheConsumer, Alive, ConsumerStages
    <2> QED BY <2>4 DEF RegistryInv
  <1>3. CASE StartService /\ ~NoConsumerYet
    <2>1. RegistryTypeOK' /\ TheConsumer'
      BY <1>1, <1>3 DEF StartService, RegistryTypeOK, TheConsumer, Alive, ConsumerStages
    <2> QED BY <2>1 DEF RegistryInv
  <1>4. CASE StopService
    <2>1. /\ stopping' = (consumerTask # NoTask /\ Alive(consumerTask)) /\ serviceRunning' = FALSE
          /\ failures' \in 0 .. RetryAttempts
          /\ UNCHANGED <<consumerTask, consumer, retryCount, registryUp>>
      BY <1>4 DEF StopService
    <2>2. TheConsumer'
      BY <1>1, <2>1 DEF TheConsumer, Alive
    <2>3. stopping' \in BOOLEAN
      BY <2>1 DEF Alive
    <2>4. RegistryTypeOK'
      BY <1>1, <2>1, <2>3 DEF RegistryTypeOK, ConsumerStages
    <2> QED BY <2>2, <2>4 DEF RegistryInv
  <1>5. CASE StopReturns
    <2>1. /\ stopping /\ stopping' = FALSE /\ consumer' = [consumer EXCEPT ![consumerTask] = "ended"]
          /\ UNCHANGED <<serviceRunning, consumerTask, retryCount, registryUp, failures>>
      BY <1>5 DEF StopReturns
    <2>2. consumer' \in [Tasks -> ConsumerStages]
      BY <1>1, <2>1 DEF ConsumerStages
    <2>3. \A u \in Tasks : ~Alive(u)'
      BY <1>1, <2>1 DEF Alive, Stops
    <2>4. RegistryTypeOK' /\ TheConsumer'
      BY <1>1, <2>1, <2>2, <2>3 DEF RegistryTypeOK, TheConsumer, ConsumerStages
    <2> QED BY <2>4 DEF RegistryInv
  <1>6. CASE RegistryChanges
    <2>1. RegistryTypeOK' /\ TheConsumer'
      BY <1>1, <1>6 DEF RegistryChanges, RegistryTypeOK, TheConsumer, Alive, ConsumerStages
    <2> QED BY <2>1 DEF RegistryInv
  <1> QED BY <1>2, <1>3, <1>4, <1>5, <1>6

LEMMA RegistryInvIsInductive == RegistryInv /\ [RegistryNext]_registryVars => RegistryInv'
  <1> SUFFICES ASSUME RegistryInv, [RegistryNext]_registryVars PROVE RegistryInv'
    OBVIOUS
  <1>1. CASE UNCHANGED registryVars
    BY <1>1 DEF registryVars, RegistryInv, RegistryTypeOK, TheConsumer, Alive
  <1> QED
    BY <1>1, ConsumersKeep, AnotherTakesOver, ServiceKeeps DEF RegistryNext, ConsumerStep

LEMMA InvKeepsOneConsumer == RegistryInv => RegistryTypeOK /\ OneConsumer /\ NoneAfterStop
  BY DEF RegistryInv, TheConsumer, OneConsumer, NoneAfterStop

\* For any tasks and number of attempts: never two consumers, and none once stop has
\* returned.
THEOREM ConsumersAreOne == RegistrySpec => [](RegistryTypeOK /\ OneConsumer /\ NoneAfterStop)
  BY RegistryInitially, RegistryInvIsInductive, InvKeepsOneConsumer, PTL DEF RegistrySpec

HIDE RegistryAssumption DEF RegistryAssumption

===============================================================================
