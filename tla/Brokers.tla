--------------------------------- MODULE Brokers ---------------------------------
(***************************************************************************)
(* The clients of the brokers (app/brokers/): a factory connects one per   *)
(* broker and disconnects all of them, and an order goes to one broker     *)
(* and, when that raises, to one after the other of the rest.  Creating,   *)
(* disconnecting and ordering wait for the brokers and overlap.            *)
(*                                                                         *)
(* A client is named after the call of create_client that made it.  The    *)
(* simulated brokers (mock_client.py, which stands in for every broker but *)
(* Kite) have no session and refuse an order by an answer; a real one      *)
(* (kite_client.py) opens a session for whatever it is asked when it has   *)
(* none, and its refusals raise.  disconnect_all is called by one actor, the shutdown.            *)
(***************************************************************************)
EXTENDS Naturals, FiniteSets

CONSTANTS BrokerTypes, Simulated,
          Creations,     \* calls of create_client
          Placements,    \* calls of MultiBrokerClient.place_order
          Slots,         \* rate_limit_per_second: the semaphore of one client
          Nothing

ASSUME BrokersAssumption ==
    /\ Simulated \subseteq BrokerTypes
    /\ IsFiniteSet(BrokerTypes)
    /\ Slots \in Nat \ {0}
    /\ Nothing \notin BrokerTypes \cup Creations

VARIABLES
    clientOf,    \* _clients: the client of every broker, or Nothing
    default,     \* _default_broker
    making,      \* what each creation is doing,
    madeFor,     \* and for which broker
    session,     \* the clients that have an open session
    closing,    \* disconnect_all: the broker it waits for, the client of that,
                 \* the brokers to come and how many there were at first
    order,       \* what each order is doing, where, through which client, whether that
                 \* is its first broker, and those it is still to be tried at
    held,        \* how many times each broker has accepted an order
    tried,       \* history: the brokers each order was tried at until it was answered
    offered,     \* history: the brokers listed ever since an order was placed
    reopened,    \* history: clients whose session was opened again
    tidy         \* history: nothing was under way since the last disconnect_all began

brokerVars == <<clientOf, default, making, madeFor, session, closing, order, held,
                tried, offered, reopened, tidy>>

Listed == {b \in BrokerTypes : clientOf[b] # Nothing}
NotDisconnecting == [now |-> Nothing, client |-> Nothing, rest |-> {}, size |-> 0]
Unplaced == [at |-> "new", broker |-> Nothing, client |-> Nothing, first |-> TRUE,
             rest |-> {}]
InProgress == {"waiting", "sent"}

BrokersTypeOK ==
    /\ clientOf \in [BrokerTypes -> Creations \cup {Nothing}]
    /\ default \in BrokerTypes \cup {Nothing}
    /\ making \in [Creations -> {"new", "connecting", "made", "refused"}]
    /\ madeFor \in [Creations -> BrokerTypes \cup {Nothing}]
    /\ session \subseteq Creations
    /\ closing \in [now : BrokerTypes \cup {Nothing}, client : Creations \cup {Nothing},
                     rest : SUBSET BrokerTypes, size : 0 .. Cardinality(BrokerTypes)]
    /\ order \in [Placements -> [at : InProgress \cup {"new", "answered", "failed"},
                             broker : BrokerTypes \cup {Nothing},
                             client : Creations \cup {Nothing}, first : BOOLEAN,
                             rest : SUBSET BrokerTypes]]
    /\ held \in [Placements -> [BrokerTypes -> Nat]]
    /\ tried \in [Placements -> SUBSET BrokerTypes]
    /\ offered \in [Placements -> SUBSET BrokerTypes]
    /\ reopened \subseteq Creations
    /\ tidy \in BOOLEAN

BrokersInit ==
    /\ clientOf = [b \in BrokerTypes |-> Nothing] /\ default = Nothing
    /\ making = [c \in Creations |-> "new"]
    /\ madeFor = [c \in Creations |-> Nothing]
    /\ session = {} /\ closing = NotDisconnecting
    /\ order = [o \in Placements |-> Unplaced]
    /\ held = [o \in Placements |-> [b \in BrokerTypes |-> 0]]
    /\ tried = [o \in Placements |-> {}] /\ offered = [o \in Placements |-> {}]
    /\ reopened = {} /\ tidy = FALSE

KeepClients == UNCHANGED <<clientOf, default>>
KeepOrders == UNCHANGED <<order, held, tried, offered, reopened>>
-----------------------------------------------------------------------------
\* connect opens the session of a real client; one that is listed is returned at once.
CreateClient(c, b) ==
    /\ making[c] = "new" /\ b \notin Listed
    /\ making' = [making EXCEPT ![c] = "connecting"]
    /\ madeFor' = [madeFor EXCEPT ![c] = b]
    /\ session' = IF b \in Simulated THEN session ELSE session \cup {c}
    /\ tidy' = FALSE
    /\ KeepClients /\ KeepOrders
    /\ UNCHANGED closing

\* What is listed by then is replaced.
Connected(c) ==
    /\ making[c] = "connecting"
    /\ making' = [making EXCEPT ![c] = "made"]
    /\ clientOf' = [clientOf EXCEPT ![madeFor[c]] = c]
    /\ default' = IF default = Nothing THEN madeFor[c] ELSE default
    /\ KeepOrders
    /\ UNCHANGED <<madeFor, session, closing, tidy>>

\* The client is dropped with its session open.
NotConnected(c) ==
    /\ making[c] = "connecting" /\ madeFor[c] \notin Simulated
    /\ making' = [making EXCEPT ![c] = "refused"]
    /\ KeepClients /\ KeepOrders
    /\ UNCHANGED <<madeFor, session, closing, tidy>>

\* A quote or a health check through a real client that has no session, listed or not.
QueryBroker(c) ==
    /\ making[c] = "made" /\ madeFor[c] \notin Simulated /\ c \notin session
    /\ session' = session \cup {c} /\ reopened' = reopened \cup {c}
    /\ KeepClients
    /\ UNCHANGED <<making, madeFor, closing, order, held, tried, offered, tidy>>

SetDefaultBroker(b) ==
    /\ b \in Listed /\ default' = b
    /\ KeepOrders
    /\ UNCHANGED <<clientOf, making, madeFor, session, closing, tidy>>
-----------------------------------------------------------------------------
\* Mutant: the default broker outlives its client.
ForgetButDefault ==
    clientOf' = [b \in BrokerTypes |-> Nothing] /\ UNCHANGED default

ForgetClients ==
    clientOf' = [b \in BrokerTypes |-> Nothing] /\ default' = Nothing

\* Mutant: only a client whose session is closed is waited for.
WithSession == {b \in Listed \ Simulated : clientOf[b] \in session}

\* A real client without a session is disconnected at once; the others are waited for.
AtOnce == {b \in Listed \ Simulated : clientOf[b] \notin session}

\* The walk goes on to a broker it waits for, or to its end; a dictionary that has
\* grown meanwhile raises, and nothing is forgotten.
GoOn(rest, size) ==
    \/ /\ Cardinality(Listed) # size
       /\ closing' = NotDisconnecting
       /\ KeepClients /\ UNCHANGED offered
    \/ /\ Cardinality(Listed) = size
       /\ \E b \in rest \ AtOnce, past \in SUBSET (rest \cap AtOnce) :
             closing' = [now |-> b, client |-> clientOf[b],
                          rest |-> rest \ (past \cup {b}), size |-> size]
       /\ KeepClients /\ UNCHANGED offered
    \/ /\ Cardinality(Listed) = size /\ rest \subseteq AtOnce
       /\ closing' = NotDisconnecting
       /\ ForgetClients
       /\ offered' = [o \in Placements |-> {}]

\* Closing begins at once: the session takes no more requests.
DisconnectAll ==
    /\ closing = NotDisconnecting
    /\ GoOn(Listed, Cardinality(Listed))
    /\ session' = session \ {closing'.client}
    /\ tidy' = /\ \A c \in Creations : making[c] # "connecting"
               /\ \A o \in Placements : order[o].at \notin InProgress
    /\ UNCHANGED <<making, madeFor, order, held, tried, reopened>>

\* A session that has been opened since is forgotten as well, and stays open.
Disconnected ==
    /\ closing.now # Nothing
    /\ GoOn(closing.rest, closing.size)
    /\ session' = session \ {closing.client, closing'.client}
    /\ UNCHANGED <<making, madeFor, order, held, tried, reopened, tidy>>
-----------------------------------------------------------------------------
\* The order is tried at b: it waits for the registry and for a slot.
AskAt(o, b, first, rest) ==
    /\ order' = [order EXCEPT ![o] = [at |-> "waiting", broker |-> b,
                                      client |-> clientOf[b], first |-> first,
                                      rest |-> rest]]
    /\ tried' = [tried EXCEPT ![o] = @ \cup {b}]

\* To one of the brokers that has a client, past some that have none any more.
TryNext(o, brokers) ==
    \/ \E b \in brokers \cap Listed, past \in SUBSET (brokers \ Listed) :
          AskAt(o, b, FALSE, brokers \ (past \cup {b}))
    \/ /\ brokers \cap Listed = {}
       /\ order' = [order EXCEPT ![o] = [Unplaced EXCEPT !.at = "failed"]]
       /\ UNCHANGED tried

\* To the broker that is asked for, or the default one; if that has no client, to the others.
PlaceOrder(o, b) ==
    /\ order[o].at = "new"
    /\ IF b \in Listed THEN AskAt(o, b, TRUE, {}) ELSE TryNext(o, Listed)
    /\ offered' = [offered EXCEPT ![o] = Listed]
    /\ tidy' = FALSE
    /\ KeepClients
    /\ UNCHANGED <<making, madeFor, session, closing, held, reopened>>

\* Neither a preference nor a default one.
PlaceNowhere(o) ==
    /\ order[o].at = "new" /\ default = Nothing
    /\ order' = [order EXCEPT ![o].at = "failed"]
    /\ tidy' = FALSE
    /\ KeepClients
    /\ UNCHANGED <<making, madeFor, session, closing, held, tried, offered, reopened>>

\* Mutants: the broker that failed is among the others; there are no others.
FallbacksAnywhere(o) == IF order[o].first THEN Listed ELSE order[o].rest
FallbacksNowhere(o) == {}

\* The others are those that have a client when the first one fails.
Fallbacks(o) == IF order[o].first THEN Listed \ {order[o].broker} ELSE order[o].rest

OrderStep == UNCHANGED <<clientOf, default, making, madeFor, closing, offered, tidy>>

\* The registry has no answer, or no token.
ResolveFails(o) ==
    /\ order[o].at = "waiting"
    /\ TryNext(o, Fallbacks(o))
    /\ OrderStep /\ UNCHANGED <<session, held, reopened>>

SentBy(c) == {o \in Placements : order[o].at = "sent" /\ order[o].client = c}

\* Mutant: one order more than the slots.
RoomForOneMore(c) == Cardinality(SentBy(c)) <= Slots

RoomAt(c) == Cardinality(SentBy(c)) < Slots

\* With metadata, token and a slot: through the client it began with, disconnected or not.
SendAt(o) ==
    /\ order[o].at = "waiting" /\ RoomAt(order[o].client)
    /\ order' = [order EXCEPT ![o].at = "sent"]
    /\ LET opens == {order[o].client : b \in {order[o].broker} \ Simulated} \ session
       IN  session' = session \cup opens /\ reopened' = reopened \cup opens
    /\ OrderStep /\ UNCHANGED <<held, tried>>

Accepted(o) == held' = [held EXCEPT ![o][order[o].broker] = @ + 1]

\* An answer ends the call, also that of a simulated broker which refuses.
OrderHeard(o) ==
    /\ order[o].at = "sent"
    /\ order' = [order EXCEPT ![o] = [Unplaced EXCEPT !.at = "answered",
                                                      !.broker = order[o].broker]]
    /\ \/ Accepted(o)
       \/ order[o].broker \in Simulated /\ UNCHANGED held
    /\ tried' = [tried EXCEPT ![o] = {}] /\ offered' = [offered EXCEPT ![o] = {}]
    /\ UNCHANGED <<clientOf, default, making, madeFor, session, closing, reopened, tidy>>

\* A real broker refuses, or is not heard: it may have accepted.
OrderRaises(o) ==
    /\ order[o].at = "sent" /\ order[o].broker \notin Simulated
    /\ TryNext(o, Fallbacks(o))
    /\ Accepted(o) \/ UNCHANGED held
    /\ OrderStep /\ UNCHANGED <<session, reopened>>

BrokersNext ==
    \/ \E c \in Creations :
          \/ Connected(c) \/ NotConnected(c) \/ QueryBroker(c) \/ \E b \in BrokerTypes : CreateClient(c, b)
    \/ \E b \in BrokerTypes : SetDefaultBroker(b)
    \/ DisconnectAll \/ Disconnected
    \/ \E o \in Placements :
          \/ PlaceNowhere(o) \/ \E b \in BrokerTypes : PlaceOrder(o, b)
          \/ ResolveFails(o) \/ SendAt(o) \/ OrderHeard(o) \/ OrderRaises(o)

BrokersSpec == BrokersInit /\ [][BrokersNext]_brokerVars
-----------------------------------------------------------------------------
(* Properties.                                                             *)

\* An order is accepted at most once by each broker, whatever happens to its clients
\* meanwhile; that several brokers accept it is possible when their answers are lost.
OncePerBroker == \A o \in Placements, b \in BrokerTypes : held[o][b] <= 1

\* A broker that holds an order its caller was not told of is a real one.
HeldUnheard ==
    \A o \in Placements, b \in Simulated :
        held[o][b] > 0 => order[o].at = "answered" /\ order[o].broker = b

\* An order is given up only after it was tried at every broker that had a client
\* from the call to its end.
NotGivenUp == \A o \in Placements : order[o].at = "failed" => offered[o] \subseteq tried[o]

\* There is a default broker exactly when there are clients, and it has one.
DefaultListed == IF Listed = {} THEN default = Nothing ELSE default \in Listed

\* More orders than Slots are with one broker only if it has been given two clients.
SlotsKept ==
    \A b \in BrokerTypes :
        Cardinality({o \in Placements : order[o].at = "sent" /\ order[o].broker = b}) > Slots
            => \E c, d \in Creations : c # d /\ madeFor[c] = b /\ madeFor[d] = b
                                       /\ making[c] = "made" /\ making[d] = "made"

\* After a disconnect_all with nothing under way, before it or since, no client is
\* listed, and no session is left open but those of clients that were refused, were
\* replaced, or had it opened again by an order, a quote or a health check.
ShutDown ==
    tidy /\ closing = NotDisconnecting =>
        /\ Listed = {}
        /\ \A c \in session :
              \/ making[c] = "refused" \/ c \in reopened
              \/ \E d \in Creations \ {c} : making[d] = "made" /\ madeFor[d] = madeFor[c]

\* What the clients of the brokers promise.
BrokersPromise ==
    /\ BrokersTypeOK /\ OncePerBroker /\ HeldUnheard /\ NotGivenUp
    /\ DefaultListed /\ SlotsKept /\ ShutDown
=================================================================================
