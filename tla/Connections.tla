------------------------------ MODULE Connections ------------------------------
(***************************************************************************)
(* The WebSocket endpoint (app/api/v2/websocket.py): one task per socket   *)
(* reads the messages of a client, and three tables say who is connected,  *)
(* who asked for what and whom to tell.  Subscribing to and unsubscribing  *)
(* from a Redis channel suspends the task, and its effect shows when the   *)
(* task resumes (the pub/sub connection may have to be made first).  The   *)
(* client names itself: it may open a second socket under the same name.   *)
(***************************************************************************)
EXTENDS Integers, FiniteSets

CONSTANTS Clients, Sockets, SubKeys,
          Owner,        \* the client_id a socket was opened with
          NoSocket

ASSUME ConnectionsAssumption == Owner \in [Sockets -> Clients] /\ NoSocket \notin Sockets

VARIABLES
    activeConnections,       \* the socket of a connected client
    connectionSubscriptions, \* keys a connected client asked for
    subscriptionEntries,     \* keys with an entry in subscription_connections
    subscribersOf,           \* the clients in that entry
    channels,                \* Redis channels the subscriber listens to
    endpoint,                \* what the task of a socket is doing, and for which key
    doomed,                  \* clients whose heartbeat could not be sent this round
    unheard                  \* history: keys whose channel was lost, and how

wsVars == <<activeConnections, connectionSubscriptions, subscriptionEntries,
            subscribersOf, channels, endpoint, doomed, unheard>>

Stages == {"new", "reading", "subscribing", "unsubscribing", "gone"}
NoKey == "no key"
At(stage, k) == [stage |-> stage, key |-> k]
Awaiting(s, stage) == endpoint[s].stage = stage

ConnectionsTypeOK ==
    /\ activeConnections \in [Clients -> Sockets \cup {NoSocket}]
    /\ connectionSubscriptions \in [Clients -> SUBSET SubKeys]
    /\ \A c \in Clients : activeConnections[c] = NoSocket => connectionSubscriptions[c] = {}
    /\ subscriptionEntries \subseteq SubKeys
    /\ subscribersOf \in [SubKeys -> SUBSET Clients]
    /\ \A k \in SubKeys \ subscriptionEntries : subscribersOf[k] = {}
    /\ channels \subseteq SubKeys
    /\ endpoint \in [Sockets -> [stage : Stages, key : SubKeys \cup {NoKey}]]
    /\ doomed \subseteq Clients
    /\ unheard \in [SubKeys -> SUBSET {"not subscribed", "unsubscribed late"}]

ConnectionsInit ==
    /\ activeConnections = [c \in Clients |-> NoSocket]
    /\ connectionSubscriptions = [c \in Clients |-> {}]
    /\ subscriptionEntries = {}
    /\ subscribersOf = [k \in SubKeys |-> {}]
    /\ channels = {}
    /\ endpoint = [s \in Sockets |-> At("new", NoKey)]
    /\ doomed = {}
    /\ unheard = [k \in SubKeys |-> {}]

-----------------------------------------------------------------------------
(* disconnect: the tables forget the client; the Redis channel is kept.    *)

\* Mutant: an entry goes with the first of its clients that leaves.
DropFirst(gone) ==
    /\ subscriptionEntries' =
          subscriptionEntries \ UNION {connectionSubscriptions[c] : c \in gone}
    /\ subscribersOf' = [k \in SubKeys |->
          IF k \in subscriptionEntries' THEN subscribersOf[k] ELSE {}]

DropEntries(gone) ==
    LET left(k) == subscribersOf[k] \ {c \in gone : k \in connectionSubscriptions[c]}
        touched == UNION {connectionSubscriptions[c] : c \in gone}
    IN  /\ subscribersOf' = [k \in SubKeys |-> left(k)]
        /\ subscriptionEntries' = {k \in subscriptionEntries : k \in touched => left(k) # {}}

Disconnect(gone) ==
    /\ activeConnections' = [c \in Clients |->
          IF c \in gone THEN NoSocket ELSE activeConnections[c]]
    /\ connectionSubscriptions' = [c \in Clients |->
          IF c \in gone THEN {} ELSE connectionSubscriptions[c]]
    /\ DropEntries(gone)

\* An exception of the manager, or the closing of the socket, ends the endpoint.
EndEndpoint(s) ==
    /\ Disconnect({Owner[s]})
    /\ endpoint' = [endpoint EXCEPT ![s] = At("gone", NoKey)]

-----------------------------------------------------------------------------
(* The endpoint.                                                           *)

\* A second socket of the client takes the place of the first in the table.
Connect(s) ==
    /\ Awaiting(s, "new")
    /\ activeConnections' = [activeConnections EXCEPT ![Owner[s]] = s]
    /\ connectionSubscriptions' = [connectionSubscriptions EXCEPT ![Owner[s]] = {}]
    /\ endpoint' = [endpoint EXCEPT ![s] = At("reading", NoKey)]
    /\ UNCHANGED <<subscriptionEntries, subscribersOf, channels, doomed, unheard>>

\* Mutant: the channels of a client that leaves are closed with it.
CloseChannels(s) ==
    /\ Awaiting(s, "reading")
    /\ EndEndpoint(s)
    /\ channels' = channels \ connectionSubscriptions[Owner[s]]
    /\ UNCHANGED <<doomed, unheard>>

CloseSocket(s) ==
    /\ Awaiting(s, "reading")
    /\ EndEndpoint(s)
    /\ UNCHANGED <<channels, doomed, unheard>>

\* The table may have lost the client to another socket: then the endpoint fails.
SubscribeForgotten(s) ==
    /\ Awaiting(s, "reading")
    /\ activeConnections[Owner[s]] = NoSocket
    /\ EndEndpoint(s)
    /\ UNCHANGED <<channels, doomed, unheard>>

\* Only the request that makes the entry asks Redis.
SubscribeKey(s, k) ==
    /\ Awaiting(s, "reading")
    /\ activeConnections[Owner[s]] # NoSocket
    /\ connectionSubscriptions' = [connectionSubscriptions EXCEPT ![Owner[s]] = @ \cup {k}]
    /\ IF k \in subscriptionEntries
       THEN /\ subscribersOf' = [subscribersOf EXCEPT ![k] = @ \cup {Owner[s]}]
            /\ UNCHANGED <<subscriptionEntries, endpoint>>
       ELSE /\ subscriptionEntries' = subscriptionEntries \cup {k}
            /\ endpoint' = [endpoint EXCEPT ![s] = At("subscribing", k)]
            /\ UNCHANGED subscribersOf
    /\ UNCHANGED <<activeConnections, channels, doomed, unheard>>

\* The entry may be gone by now: then the endpoint fails.
SubscribeReturns(s) ==
    LET k == endpoint[s].key
    IN  /\ Awaiting(s, "subscribing")
        /\ channels' = channels \cup {k}
        /\ IF k \in subscriptionEntries
           THEN /\ subscribersOf' = [subscribersOf EXCEPT ![k] = @ \cup {Owner[s]}]
                /\ endpoint' = [endpoint EXCEPT ![s] = At("reading", NoKey)]
                /\ UNCHANGED <<activeConnections, connectionSubscriptions, subscriptionEntries>>
           ELSE EndEndpoint(s)
        /\ UNCHANGED <<doomed, unheard>>

\* Mutant: the entry is deleted without looking at who else is in it.
UnsubscribeAll(s, k) ==
    /\ subscribersOf' = [subscribersOf EXCEPT ![k] = @ \ {Owner[s]}]
    /\ subscriptionEntries' = subscriptionEntries \ {k}
    /\ endpoint' = [endpoint EXCEPT ![s] = At("unsubscribing", k)]

LeaveEntry(s, k) ==
    /\ subscribersOf' = [subscribersOf EXCEPT ![k] = @ \ {Owner[s]}]
    /\ IF k \in subscriptionEntries /\ subscribersOf[k] \subseteq {Owner[s]}
       THEN /\ subscriptionEntries' = subscriptionEntries \ {k}
            /\ endpoint' = [endpoint EXCEPT ![s] = At("unsubscribing", k)]
       ELSE UNCHANGED <<subscriptionEntries, endpoint>>

UnsubscribeKey(s, k) ==
    /\ Awaiting(s, "reading")
    /\ connectionSubscriptions' = [connectionSubscriptions EXCEPT ![Owner[s]] = @ \ {k}]
    /\ LeaveEntry(s, k)
    /\ UNCHANGED <<activeConnections, channels, doomed, unheard>>

UnsubscribeReturns(s) ==
    LET k == endpoint[s].key
    IN  /\ Awaiting(s, "unsubscribing")
        /\ channels' = channels \ {k}
        /\ endpoint' = [endpoint EXCEPT ![s] = At("reading", NoKey)]
        /\ unheard' = IF k \in subscriptionEntries
                      THEN [unheard EXCEPT ![k] = @ \cup {"unsubscribed late"}] ELSE unheard
        /\ UNCHANGED <<activeConnections, connectionSubscriptions, subscriptionEntries,
                       subscribersOf, doomed>>

\* Redis fails: the exception leaves an entry that no channel stands behind.
RedisRaises(s) ==
    /\ endpoint[s].stage \in {"subscribing", "unsubscribing"}
    /\ EndEndpoint(s)
    /\ unheard' = IF Awaiting(s, "subscribing")
                  THEN [unheard EXCEPT ![endpoint[s].key] = @ \cup {"not subscribed"}]
                  ELSE unheard
    /\ UNCHANGED <<channels, doomed>>

-----------------------------------------------------------------------------
(* The heartbeat sends to one client after the other and then disconnects  *)
(* those it could not reach, by name; a client that comes or goes          *)
(* meanwhile makes the iteration fail, and nobody is disconnected.         *)

HeartbeatFails(c) ==
    /\ activeConnections[c] # NoSocket /\ c \notin doomed
    /\ doomed' = doomed \cup {c}
    /\ UNCHANGED <<activeConnections, connectionSubscriptions, subscriptionEntries,
                   subscribersOf, channels, endpoint, unheard>>

HeartbeatAborts ==
    /\ doomed # {}
    /\ doomed' = {}
    /\ UNCHANGED <<activeConnections, connectionSubscriptions, subscriptionEntries,
                   subscribersOf, channels, endpoint, unheard>>

HeartbeatDisconnects ==
    /\ doomed # {}
    /\ Disconnect(doomed)
    /\ doomed' = {}
    /\ UNCHANGED <<channels, endpoint, unheard>>

ConnectionsNext ==
    \/ \E s \in Sockets :
          \/ Connect(s) \/ CloseSocket(s) \/ SubscribeForgotten(s)
          \/ \E k \in SubKeys : SubscribeKey(s, k) \/ UnsubscribeKey(s, k)
          \/ SubscribeReturns(s) \/ UnsubscribeReturns(s) \/ RedisRaises(s)
    \/ \E c \in Clients : HeartbeatFails(c)
    \/ HeartbeatAborts \/ HeartbeatDisconnects

ConnectionsSpec == ConnectionsInit /\ [][ConnectionsNext]_wsVars

-----------------------------------------------------------------------------
(* Properties.                                                             *)

Pending(k, stage) == \E s \in Sockets : endpoint[s] = At(stage, k)

\* What a client asked for it is told of: no departure, failure or reconnection of
\* another client takes a key away from it, except while its own request waits.
AskedIsListed ==
    \A c \in Clients : \A k \in connectionSubscriptions[c] :
        \/ c \in subscribersOf[k]
        \/ \E s \in Sockets : Owner[s] = c /\ endpoint[s] = At("subscribing", k)

\* Clients that are told of a key are told something: the channel is open or being
\* opened, unless Redis failed to open it or closed it for a client that had left
\* before.  Nothing else, a disconnection above all, leaves them unheard.
ListedIsHeard ==
    \A k \in subscriptionEntries :
        \/ k \in channels
        \/ Pending(k, "subscribing")
        \/ unheard[k] # {}

\* What the endpoint promises its clients: the three tables and the channels agree, from
\* the client that asked to the channel that is open.
ConnectionsPromise ==
    /\ ConnectionsTypeOK
    /\ AskedIsListed
    /\ ListedIsHeard
=============================================================================
