------------------------------ MODULE TradingProofs ------------------------------
(* What the services that work for a user's positions promise, each for itself.   *)
EXTENDS MCTrading, FiniteSetTheorems, WellFoundedInduction, TLAPS
-------------------------------------------------------------------------------
(* The clients of the brokers.                                                 *)

\* A client that is listed was connected for the broker it is listed under.
ListedAreMade == \A b \in Listed : making[clientOf[b]] = "made" /\ madeFor[clientOf[b]] = b
BegunIsFor == \A c \in Creations : making[c] # "new" => madeFor[c] \in BrokerTypes

\* An order is on its way through a client of the broker it is tried at, and that is the
\* last one it was tried at.
OnItsWay(o) ==
    /\ order[o].broker \in tried[o] /\ order[o].client \in Creations
    /\ making[order[o].client] = "made" /\ madeFor[order[o].client] = order[o].broker
    /\ held[o][order[o].broker] = 0
    /\ IF order[o].first THEN tried[o] = {order[o].broker}
       ELSE order[o].rest \cap tried[o] = {} /\ offered[o] \subseteq tried[o] \cup order[o].rest
UnderWayTried == \A o \in Placements : order[o].at \in InProgress => OnItsWay(o)

\* Only a broker an order was tried at can hold it.
HeldIsTried ==
    \A o \in Placements :
        /\ order[o].at = "new" => tried[o] = {} /\ offered[o] = {}
        /\ order[o].at # "answered" => \A b \in BrokerTypes : held[o][b] > 0 => b \in tried[o]

OfferedIsListed == \A o \in Placements : offered[o] \subseteq Listed
SlotsOfAClient ==
    \A c \in Creations : IsFiniteSet(SentBy(c)) /\ Cardinality(SentBy(c)) <= Slots

\* A session that may stay open: it was opened again, or its broker was given two clients.
Excused(c) ==
    c \in reopened \/ \E d \in Creations \ {c} : making[d] = "made" /\ madeFor[d] = madeFor[c]
OpenIsListed ==
    \A c \in session :
        making[c] \in {"connecting", "refused"} \/ Excused(c) \/ c \in {clientOf[b] : b \in Listed}

\* What the walk of disconnect_all has passed is closed, unless the dictionary has grown.
PassedIsClosed ==
    closing # NotDisconnecting =>
        /\ closing.now \in BrokerTypes /\ closing.size <= Cardinality(Listed)
        /\ closing.rest \subseteq Listed
        /\ closing.size = Cardinality(Listed) =>
              \A b \in Listed \ closing.rest : clientOf[b] \notin session \/ Excused(clientOf[b])

\* Nothing begins while the shutdown stays tidy.
TidyIsQuiet ==
    tidy => /\ \A c \in Creations : making[c] # "connecting"
            /\ \A o \in Placements : order[o].at \notin InProgress
            /\ IF closing = NotDisconnecting THEN Listed = {}
               ELSE closing.size = Cardinality(Listed)

BrokersInv ==
    /\ BrokersTypeOK /\ OncePerBroker /\ HeldUnheard /\ NotGivenUp /\ DefaultListed
    /\ ListedAreMade /\ BegunIsFor /\ UnderWayTried /\ HeldIsTried /\ OfferedIsListed
    /\ SlotsOfAClient /\ OpenIsListed /\ PassedIsClosed /\ TidyIsQuiet

USE BrokersAssumption DEF BrokersAssumption

LEMMA BrokersInitially == BrokersInit => BrokersInv
  <1> SUFFICES ASSUME BrokersInit PROVE BrokersInv
    OBVIOUS
  <1>1. BrokersTypeOK
    <2>1. Cardinality(BrokerTypes) \in Nat
      BY FS_CardinalityType
    <2>2. Unplaced \in [at : InProgress \cup {"new", "answered", "failed"},
                       broker : BrokerTypes \cup {Nothing},
                       client : Creations \cup {Nothing}, first : BOOLEAN,
                       rest : SUBSET BrokerTypes]
      BY DEF Unplaced
    <2>3. NotDisconnecting \in [now : BrokerTypes \cup {Nothing}, client : Creations \cup {Nothing},
                               rest : SUBSET BrokerTypes, size : 0 .. Cardinality(BrokerTypes)]
      BY <2>1 DEF NotDisconnecting
    <2> QED BY <2>2, <2>3 DEF BrokersInit, BrokersTypeOK
  <1>2. Listed = {}
    BY DEF BrokersInit, Listed
  <1>3. OncePerBroker /\ HeldUnheard /\ NotGivenUp /\ UnderWayTried /\ HeldIsTried
          /\ OfferedIsListed
    BY DEF BrokersInit, OncePerBroker, HeldUnheard, NotGivenUp, UnderWayTried, HeldIsTried,
           OfferedIsListed, Unplaced, InProgress
  <1>4. SlotsOfAClient
    <2>1. \A c \in Creations : SentBy(c) = {}
      BY DEF BrokersInit, SentBy, Unplaced
    <2> QED BY <2>1, FS_EmptySet DEF SlotsOfAClient
  <1>5. DefaultListed /\ ListedAreMade /\ BegunIsFor /\ OpenIsListed /\ PassedIsClosed
    BY <1>2 DEF BrokersInit, DefaultListed, ListedAreMade, BegunIsFor, OpenIsListed, PassedIsClosed
  <1>6. TidyIsQuiet
    BY DEF BrokersInit, TidyIsQuiet
  <1> QED BY <1>1, <1>3, <1>4, <1>5, <1>6 DEF BrokersInv

\* A dictionary has finitely many brokers, and one more when one is added.
LEMMA ListedIsFinite == IsFiniteSet(Listed) /\ Cardinality(Listed) \in 0 .. Cardinality(BrokerTypes)
  <1>1. Listed \subseteq BrokerTypes
    BY DEF Listed
  <1>2. IsFiniteSet(Listed) /\ Cardinality(Listed) <= Cardinality(BrokerTypes)
    BY <1>1, FS_Subset
  <1> QED BY <1>2, FS_CardinalityType

\* What depends on the clients alone.
LEMMA ClientsKept ==
    ASSUME DefaultListed, ListedAreMade, BegunIsFor, UNCHANGED <<clientOf, default, making, madeFor>>
    PROVE  Listed' = Listed /\ DefaultListed' /\ ListedAreMade' /\ BegunIsFor'
  BY DEF DefaultListed, ListedAreMade, BegunIsFor, Listed

\* What depends on the orders and, of the clients, on those that were made and are listed.
LEMMA OrdersKept ==
    ASSUME BrokersInv, UNCHANGED <<order, held, tried>>,
           \/ UNCHANGED offered /\ Listed \subseteq Listed'
           \/ offered' = [o \in Placements |-> {}],
           \A c \in Creations : making[c] = "made" => making'[c] = "made" /\ madeFor'[c] = madeFor[c]
    PROVE  /\ OncePerBroker' /\ HeldUnheard' /\ NotGivenUp' /\ UnderWayTried' /\ HeldIsTried'
           /\ OfferedIsListed' /\ SlotsOfAClient'
  <1>0. OncePerBroker /\ HeldUnheard /\ NotGivenUp /\ UnderWayTried /\ HeldIsTried
          /\ OfferedIsListed /\ SlotsOfAClient
    BY DEF BrokersInv
  <1>1. OncePerBroker' /\ HeldUnheard' /\ NotGivenUp' /\ HeldIsTried'
    BY <1>0 DEF OncePerBroker, HeldUnheard, NotGivenUp, HeldIsTried
  <1>2. UnderWayTried'
    BY <1>0 DEF UnderWayTried, OnItsWay
  <1>3. OfferedIsListed'
    BY <1>0 DEF OfferedIsListed
  <1>4. SlotsOfAClient'
    BY <1>0 DEF SlotsOfAClient, SentBy
  <1> QED BY <1>1, <1>2, <1>3, <1>4

\* An excuse is not taken back.
LEMMA ExcuseStays ==
    ASSUME NEW d, Excused(d), reopened \subseteq reopened', madeFor'[d] = madeFor[d],
           \A c \in Creations : making[c] = "made" => making'[c] = "made" /\ madeFor'[c] = madeFor[c]
    PROVE  Excused(d)'
  BY DEF Excused

LEMMA CreateClientKeeps ==
    ASSUME BrokersInv, NEW c \in Creations, NEW b \in BrokerTypes, CreateClient(c, b)
    PROVE  BrokersInv'
  <1>0. BrokersTypeOK /\ DefaultListed /\ ListedAreMade /\ BegunIsFor /\ OpenIsListed /\ PassedIsClosed
    BY DEF BrokersInv
  <1>1. /\ making \in [Creations -> {"new", "connecting", "made", "refused"}]
        /\ madeFor \in [Creations -> BrokerTypes \cup {Nothing}] /\ session \subseteq Creations
        /\ clientOf \in [BrokerTypes -> Creations \cup {Nothing}]
    BY <1>0 DEF BrokersTypeOK
  <1>2. BrokersTypeOK'
    BY <1>0, <1>1 DEF BrokersTypeOK, CreateClient, KeepClients, KeepOrders
  <1>3. /\ UNCHANGED <<clientOf, default, order, held, tried, offered, reopened, closing>>
        /\ Listed' = Listed /\ making[c] = "new" /\ tidy' = FALSE
        /\ making' = [making EXCEPT ![c] = "connecting"]
        /\ madeFor' = [madeFor EXCEPT ![c] = b] /\ session' \subseteq session \cup {c}
    BY DEF CreateClient, KeepClients, KeepOrders, Listed
  <1>4. \A d \in Creations : making[d] = "made" => making'[d] = "made" /\ madeFor'[d] = madeFor[d]
    BY <1>1, <1>3
  <1>5. OncePerBroker' /\ HeldUnheard' /\ NotGivenUp' /\ UnderWayTried' /\ HeldIsTried'
           /\ OfferedIsListed' /\ SlotsOfAClient'
    BY <1>3, <1>4, OrdersKept
  <1>6. DefaultListed' /\ TidyIsQuiet'
    BY <1>0, <1>3 DEF DefaultListed, TidyIsQuiet
  <1>7. \A x \in Listed : clientOf[x] \in Creations
    BY <1>1 DEF Listed
  <1>8. ListedAreMade' /\ BegunIsFor'
    BY <1>0, <1>1, <1>3, <1>4, <1>7 DEF ListedAreMade, BegunIsFor
  <1>9. \A d \in Creations : making[d] # "new" /\ Excused(d) => Excused(d)'
    BY <1>1, <1>3, <1>4 DEF Excused
  <1>10. OpenIsListed'
    <2> SUFFICES ASSUME NEW d \in session'
                 PROVE  making'[d] \in {"connecting", "refused"} \/ Excused(d)'
                          \/ d \in {clientOf[x] : x \in Listed}
      BY <1>3 DEF OpenIsListed
    <2>1. CASE d = c
      BY <2>1, <1>1, <1>3
    <2>2. CASE d # c
      <3>1. d \in session /\ d \in Creations /\ making'[d] = making[d]
        BY <2>2, <1>1, <1>3
      <3>2. making[d] \in {"connecting", "refused"} \/ Excused(d)
              \/ d \in {clientOf[x] : x \in Listed}
        BY <3>1, <1>0 DEF OpenIsListed
      <3>3. CASE Excused(d) /\ making[d] = "new"
        BY <3>3, <3>1, <1>1, <1>3, <1>4 DEF Excused
      <3> QED BY <3>1, <3>2, <3>3, <1>9
    <2> QED BY <2>1, <2>2
  <1>11. PassedIsClosed'
    <2>1. \A x \in Listed : clientOf[x] # c
      BY <1>0, <1>3 DEF ListedAreMade
    <2>2. \A x \in Listed : clientOf[x] \notin session \/ Excused(clientOf[x])
                              => clientOf[x] \notin session' \/ Excused(clientOf[x])'
      BY <2>1, <1>0, <1>3, <1>7, <1>9 DEF ListedAreMade
    <2> QED BY <2>2, <1>0, <1>3 DEF PassedIsClosed
  <1> QED BY <1>2, <1>5, <1>6, <1>8, <1>10, <1>11 DEF BrokersInv

LEMMA ConnectedKeeps == ASSUME BrokersInv, NEW c \in Creations, Connected(c) PROVE BrokersInv'
  <1>0. BrokersTypeOK /\ DefaultListed /\ ListedAreMade /\ BegunIsFor /\ OpenIsListed
          /\ PassedIsClosed /\ TidyIsQuiet
    BY DEF BrokersInv
  <1>1. /\ making \in [Creations -> {"new", "connecting", "made", "refused"}]
        /\ madeFor \in [Creations -> BrokerTypes \cup {Nothing}] /\ session \subseteq Creations
        /\ clientOf \in [BrokerTypes -> Creations \cup {Nothing}] /\ c # Nothing
    BY <1>0 DEF BrokersTypeOK
  <1>2. PICK b \in BrokerTypes : b = madeFor[c]
    BY <1>0 DEF Connected, BegunIsFor
  <1>3. /\ UNCHANGED <<order, held, tried, offered, reopened, closing, madeFor, session, tidy>>
        /\ making[c] = "connecting" /\ making' = [making EXCEPT ![c] = "made"]
        /\ clientOf' = [clientOf EXCEPT ![b] = c]
        /\ default' = IF default = Nothing THEN b ELSE default
    BY <1>2 DEF Connected, KeepOrders
  <1>4. Listed' = Listed \cup {b} /\ \A x \in Listed : clientOf[x] \in Creations
    BY <1>1, <1>3 DEF Listed
  <1>5. BrokersTypeOK'
    BY <1>0, <1>1, <1>3 DEF BrokersTypeOK
  <1>6. \A d \in Creations : making[d] = "made" => making'[d] = "made" /\ madeFor'[d] = madeFor[d]
    BY <1>1, <1>3
  <1>7. OncePerBroker' /\ HeldUnheard' /\ NotGivenUp' /\ UnderWayTried' /\ HeldIsTried'
           /\ OfferedIsListed' /\ SlotsOfAClient'
    BY <1>3, <1>4, <1>6, OrdersKept
  <1>8. DefaultListed'
    BY <1>0, <1>2, <1>3, <1>4 DEF DefaultListed
  <1>9. ListedAreMade'
    BY <1>0, <1>1, <1>2, <1>3, <1>4 DEF ListedAreMade
  <1>10. BegunIsFor'
    BY <1>0, <1>1, <1>3 DEF BegunIsFor
  <1>11. \A d \in Creations : Excused(d) => Excused(d)'
    BY <1>3, <1>6, ExcuseStays
  \* The client that is replaced, and the one that replaces it, have each other.
  <1>12. \A old \in Creations :
            b \in Listed /\ old = clientOf[b] => old # c /\ Excused(c)' /\ Excused(old)'
    BY <1>0, <1>1, <1>2, <1>3, <1>4 DEF ListedAreMade, Excused
  <1>13. OpenIsListed'
    <2> SUFFICES ASSUME NEW d \in session
                 PROVE  making'[d] \in {"connecting", "refused"} \/ Excused(d)'
                          \/ d \in {clientOf'[x] : x \in Listed'}
      BY <1>3 DEF OpenIsListed
    <2>1. CASE d = c
      BY <2>1, <1>1, <1>3, <1>4
    <2>2. CASE d # c /\ making[d] \in {"connecting", "refused"}
      BY <2>2, <1>1, <1>3
    <2>3. CASE Excused(d)
      BY <2>3, <1>1, <1>11
    <2>4. ASSUME NEW x \in Listed, d = clientOf[x]
          PROVE  Excused(d)' \/ d \in {clientOf'[y] : y \in Listed'}
      <3>1. CASE x = b
        BY <3>1, <2>4, <1>4, <1>12
      <3>2. CASE x # b
        BY <3>2, <2>4, <1>1, <1>3, <1>4
      <3> QED BY <3>1, <3>2
    <2> QED BY <2>1, <2>2, <2>3, <2>4, <1>0 DEF OpenIsListed
  <1>14. PassedIsClosed'
    <2> SUFFICES ASSUME closing # NotDisconnecting
                 PROVE  /\ closing.now \in BrokerTypes /\ closing.size <= Cardinality(Listed')
                        /\ closing.rest \subseteq Listed'
                        /\ closing.size = Cardinality(Listed') =>
                              \A x \in Listed' \ closing.rest, d \in Creations :
                                  d = clientOf'[x] => d \notin session \/ Excused(d)'
      <3>1. \A x \in Listed' : clientOf'[x] \in Creations
        BY <1>1, <1>3, <1>4
      <3> QED BY <1>3, <3>1 DEF PassedIsClosed
    <2>1. /\ closing.now \in BrokerTypes /\ closing.size <= Cardinality(Listed)
          /\ closing.rest \subseteq Listed
          /\ closing.size = Cardinality(Listed) =>
                \A x \in Listed \ closing.rest : clientOf[x] \notin session \/ Excused(clientOf[x])
      BY <1>0 DEF PassedIsClosed
    <2>2. closing.size \in Nat
      BY <1>0, FS_CardinalityType DEF BrokersTypeOK
    <2>3. Cardinality(Listed) \in Nat
      BY ListedIsFinite, FS_CardinalityType
    <2>4. CASE b \in Listed
      <3>1. Listed' = Listed
        BY <2>4, <1>4
      <3>2. ASSUME closing.size = Cardinality(Listed), NEW x \in Listed \ closing.rest,
                   NEW d \in Creations, d = clientOf'[x]
            PROVE  d \notin session \/ Excused(d)'
        <4>1. CASE x = b
          BY <4>1, <3>2, <2>4, <1>1, <1>3, <1>4, <1>12
        <4>2. CASE x # b
          <5>1. d = clientOf[x]
            BY <4>2, <3>2, <1>1, <1>3, <1>4
          <5> QED BY <5>1, <3>2, <2>1, <1>11
        <4> QED BY <4>1, <4>2
      <3> QED BY <3>1, <3>2, <2>1
    <2>5. CASE b \notin Listed
      <3>1. Cardinality(Listed') = Cardinality(Listed) + 1
        BY <2>5, <1>4, ListedIsFinite, FS_AddElement
      <3> QED BY <3>1, <2>1, <2>2, <2>3, <1>4
    <2> QED BY <2>4, <2>5
  <1>15. TidyIsQuiet'
    BY <1>0, <1>3 DEF TidyIsQuiet
  <1> QED BY <1>5, <1>7, <1>8, <1>9, <1>10, <1>13, <1>14, <1>15 DEF BrokersInv

LEMMA NotConnectedKeeps == ASSUME BrokersInv, NEW c \in Creations, NotConnected(c) PROVE BrokersInv'
  <1>0. BrokersTypeOK /\ DefaultListed /\ ListedAreMade /\ BegunIsFor /\ OpenIsListed
          /\ PassedIsClosed /\ TidyIsQuiet
    BY DEF BrokersInv
  <1>1. /\ making \in [Creations -> {"new", "connecting", "made", "refused"}]
        /\ session \subseteq Creations
        /\ clientOf \in [BrokerTypes -> Creations \cup {Nothing}]
    BY <1>0 DEF BrokersTypeOK
  <1>2. /\ UNCHANGED <<clientOf, default, order, held, tried, offered, reopened, closing, madeFor,
                       session, tidy>>
        /\ making[c] = "connecting" /\ making' = [making EXCEPT ![c] = "refused"]
        /\ Listed' = Listed
    BY DEF NotConnected, KeepOrders, KeepClients, Listed
  <1>3. BrokersTypeOK'
    BY <1>0, <1>1, <1>2 DEF BrokersTypeOK
  <1>4. \A d \in Creations : making[d] = "made" => making'[d] = "made" /\ madeFor'[d] = madeFor[d]
    BY <1>1, <1>2
  <1>5. OncePerBroker' /\ HeldUnheard' /\ NotGivenUp' /\ UnderWayTried' /\ HeldIsTried'
           /\ OfferedIsListed' /\ SlotsOfAClient'
    BY <1>2, <1>4, OrdersKept
  <1>6. \A x \in Listed : clientOf[x] \in Creations
    BY <1>1 DEF Listed
  <1>7. DefaultListed' /\ ListedAreMade' /\ BegunIsFor'
    BY <1>0, <1>1, <1>2, <1>4, <1>6 DEF DefaultListed, ListedAreMade, BegunIsFor
  <1>8. \A d \in Creations : Excused(d) => Excused(d)'
    BY <1>2, <1>4, ExcuseStays
  <1>9. OpenIsListed'
    BY <1>0, <1>1, <1>2, <1>8 DEF OpenIsListed
  <1>10. PassedIsClosed'
    BY <1>0, <1>2, <1>6, <1>8 DEF PassedIsClosed
  <1>11. TidyIsQuiet'
    BY <1>0, <1>2 DEF TidyIsQuiet
  <1> QED BY <1>3, <1>5, <1>7, <1>9, <1>10, <1>11 DEF BrokersInv

LEMMA SetDefaultBrokerKeeps ==
    ASSUME BrokersInv, NEW b \in BrokerTypes, SetDefaultBroker(b)
    PROVE  BrokersInv'
  <1>1. /\ UNCHANGED <<clientOf, order, held, tried, offered, reopened, closing, making, madeFor,
                       session, tidy>>
        /\ default' = b /\ b \in Listed /\ Listed' = Listed
    BY DEF SetDefaultBroker, KeepOrders, Listed
  <1>2. OncePerBroker' /\ HeldUnheard' /\ NotGivenUp' /\ UnderWayTried' /\ HeldIsTried'
           /\ OfferedIsListed' /\ SlotsOfAClient'
    BY <1>1, OrdersKept
  <1>3. BrokersTypeOK' /\ DefaultListed' /\ ListedAreMade' /\ BegunIsFor'
    BY <1>1 DEF BrokersInv, BrokersTypeOK, DefaultListed, ListedAreMade, BegunIsFor
  <1>4. OpenIsListed' /\ PassedIsClosed' /\ TidyIsQuiet'
    BY <1>1 DEF BrokersInv, OpenIsListed, PassedIsClosed, TidyIsQuiet, Excused
  <1> QED BY <1>2, <1>3, <1>4 DEF BrokersInv

\* The walk goes on over brokers of which the ones it is past are closed.  It ends with
\* nothing forgotten only when the dictionary has grown.
WalkedSoFar(rest, size) ==
    /\ rest \subseteq Listed /\ size \in 0 .. Cardinality(BrokerTypes)
    /\ size <= Cardinality(Listed)
    /\ size = Cardinality(Listed) =>
          \A b \in Listed \ rest : clientOf[b] \notin session \/ Excused(clientOf[b])

LEMMA GoOnKeeps ==
    ASSUME BrokersInv, NEW rest, NEW size, WalkedSoFar(rest, size), GoOn(rest, size),
           NEW shut \in Creations \cup {Nothing}, session' = session \ {shut, closing'.client},
           UNCHANGED <<making, madeFor, order, held, tried, reopened>>, tidy' \in BOOLEAN
    PROVE  /\ BrokersTypeOK' /\ DefaultListed' /\ ListedAreMade' /\ BegunIsFor'
           /\ OncePerBroker' /\ HeldUnheard' /\ NotGivenUp' /\ UnderWayTried' /\ HeldIsTried'
           /\ OfferedIsListed' /\ SlotsOfAClient' /\ OpenIsListed' /\ PassedIsClosed'
           /\ closing' = NotDisconnecting => Cardinality(Listed) # size \/ Listed' = {}
           /\ closing' # NotDisconnecting => Listed' = Listed /\ closing'.size = size
                                               /\ Cardinality(Listed) = size
  <1>0. BrokersTypeOK /\ DefaultListed /\ ListedAreMade /\ BegunIsFor /\ OpenIsListed
          /\ PassedIsClosed /\ TidyIsQuiet
    BY DEF BrokersInv
  <1>1. /\ making \in [Creations -> {"new", "connecting", "made", "refused"}]
        /\ madeFor \in [Creations -> BrokerTypes \cup {Nothing}] /\ session \subseteq Creations
        /\ clientOf \in [BrokerTypes -> Creations \cup {Nothing}]
        /\ default \in BrokerTypes \cup {Nothing}
    BY <1>0 DEF BrokersTypeOK
  <1>2. \A x \in Listed : x \in BrokerTypes /\ clientOf[x] \in Creations
    BY <1>1 DEF Listed
  <1>3. rest \subseteq Listed /\ size \in 0 .. Cardinality(BrokerTypes)
          /\ size <= Cardinality(Listed)
    BY DEF WalkedSoFar
  <1>4. \A d \in Creations : Excused(d) => Excused(d)'
    BY DEF Excused
  <1>5. session' \subseteq session
    OBVIOUS
  <1>6. \A c \in Creations : making[c] = "made" => making'[c] = "made" /\ madeFor'[c] = madeFor[c]
    OBVIOUS
  <1>7. ASSUME clientOf' \in [BrokerTypes -> Creations \cup {Nothing}],
               default' \in BrokerTypes \cup {Nothing},
               closing' \in [now : BrokerTypes \cup {Nothing}, client : Creations \cup {Nothing},
                             rest : SUBSET BrokerTypes, size : 0 .. Cardinality(BrokerTypes)],
               UNCHANGED offered \/ offered' = [o \in Placements |-> {}]
        PROVE  BrokersTypeOK'
    <2>1. offered' \in [Placements -> SUBSET BrokerTypes]
      BY <1>0, <1>7 DEF BrokersTypeOK
    <2> QED BY <1>0, <1>5, <1>7, <2>1 DEF BrokersTypeOK
  <1>8. NotDisconnecting \in [now : BrokerTypes \cup {Nothing}, client : Creations \cup {Nothing},
                              rest : SUBSET BrokerTypes, size : 0 .. Cardinality(BrokerTypes)]
    BY FS_CardinalityType DEF NotDisconnecting
  <1>9. CASE Cardinality(Listed) # size /\ closing' = NotDisconnecting
               /\ KeepClients /\ UNCHANGED offered
    <2>1. UNCHANGED <<clientOf, default, offered>> /\ Listed' = Listed
      BY <1>9 DEF KeepClients, Listed
    <2>2. DefaultListed' /\ ListedAreMade' /\ BegunIsFor'
      BY <2>1, <1>0, ClientsKept
    <2>3. OncePerBroker' /\ HeldUnheard' /\ NotGivenUp' /\ UnderWayTried' /\ HeldIsTried'
           /\ OfferedIsListed' /\ SlotsOfAClient'
      BY <2>1, <1>6, OrdersKept
    <2>4. OpenIsListed'
      BY <2>1, <1>0, <1>1, <1>4, <1>5 DEF OpenIsListed
    <2>5. PassedIsClosed'
      BY <1>9 DEF PassedIsClosed
    <2> QED BY <1>1, <1>7, <1>8, <1>9, <2>1, <2>2, <2>3, <2>4, <2>5
  <1>10. CASE /\ Cardinality(Listed) = size
              /\ \E b \in rest \ AtOnce, past \in SUBSET (rest \cap AtOnce) :
                    closing' = [now |-> b, client |-> clientOf[b],
                                rest |-> rest \ (past \cup {b}), size |-> size]
              /\ KeepClients /\ UNCHANGED offered
    <2>1. UNCHANGED <<clientOf, default, offered>> /\ Listed' = Listed
      BY <1>10 DEF KeepClients, Listed
    <2>2. DefaultListed' /\ ListedAreMade' /\ BegunIsFor'
      BY <2>1, <1>0, ClientsKept
    <2>3. OncePerBroker' /\ HeldUnheard' /\ NotGivenUp' /\ UnderWayTried' /\ HeldIsTried'
           /\ OfferedIsListed' /\ SlotsOfAClient'
      BY <2>1, <1>6, OrdersKept
    <2>4. OpenIsListed'
      BY <2>1, <1>0, <1>1, <1>4, <1>5 DEF OpenIsListed
    <2>5. PICK b \in rest \ AtOnce, past \in SUBSET (rest \cap AtOnce) :
              closing' = [now |-> b, client |-> clientOf[b],
                          rest |-> rest \ (past \cup {b}), size |-> size]
      BY <1>10
    <2>6. b \in BrokerTypes /\ clientOf[b] \in Creations /\ past \subseteq AtOnce
            /\ closing'.now = b /\ closing'.client = clientOf[b] /\ closing'.size = size
            /\ closing'.rest = rest \ (past \cup {b})
      BY <2>5, <1>2, <1>3
    <2>7. closing' \in [now : BrokerTypes \cup {Nothing}, client : Creations \cup {Nothing},
                        rest : SUBSET BrokerTypes, size : 0 .. Cardinality(BrokerTypes)]
      BY <2>5, <2>6, <1>2, <1>3
    <2>8. BrokersTypeOK'
      BY <1>1, <1>7, <2>1, <2>7
    <2>9. \A x \in Listed \ closing'.rest : clientOf[x] \notin session' \/ Excused(clientOf[x])'
      <3> SUFFICES ASSUME NEW x \in Listed \ closing'.rest
                   PROVE  clientOf[x] \notin session' \/ Excused(clientOf[x])'
        OBVIOUS
      <3>1. CASE x = b
        BY <3>1, <2>6
      <3>2. CASE x \in past
        BY <3>2, <2>6, <1>5 DEF AtOnce
      <3>3. CASE x \in Listed \ rest
        <4>1. clientOf[x] \notin session \/ Excused(clientOf[x])
          BY <3>3, <1>10 DEF WalkedSoFar
        <4> QED BY <4>1, <2>1, <1>2, <1>4, <1>5
      <3> QED BY <3>1, <3>2, <3>3, <2>6
    <2>10. PassedIsClosed'
      BY <2>1, <2>6, <2>9, <1>3 DEF PassedIsClosed
    <2>11. closing' # NotDisconnecting
      BY <2>6 DEF NotDisconnecting
    <2> QED BY <1>10, <2>1, <2>2, <2>3, <2>4, <2>6, <2>8, <2>10, <2>11
  <1>11. CASE Cardinality(Listed) = size /\ rest \subseteq AtOnce /\ closing' = NotDisconnecting
                /\ ForgetClients /\ offered' = [o \in Placements |-> {}]
    <2>1. /\ clientOf' = [b \in BrokerTypes |-> Nothing] /\ default' = Nothing /\ Listed' = {}
          /\ offered' = [o \in Placements |-> {}]
      BY <1>11 DEF ForgetClients, Listed
    <2>2. DefaultListed' /\ ListedAreMade' /\ BegunIsFor'
      BY <2>1, <1>0 DEF DefaultListed, ListedAreMade, BegunIsFor
    <2>3. OncePerBroker' /\ HeldUnheard' /\ NotGivenUp' /\ UnderWayTried' /\ HeldIsTried'
           /\ OfferedIsListed' /\ SlotsOfAClient'
      BY <2>1, <1>6, OrdersKept
    <2>4. \A x \in Listed : clientOf[x] \notin session \/ Excused(clientOf[x])
      BY <1>11 DEF WalkedSoFar, AtOnce
    <2>5. OpenIsListed'
      BY <2>4, <1>0, <1>1, <1>4, <1>5 DEF OpenIsListed
    <2>6. PassedIsClosed'
      BY <1>11 DEF PassedIsClosed
    <2>7. BrokersTypeOK'
      BY <1>7, <1>8, <1>11, <2>1
    <2> QED BY <1>11, <2>1, <2>2, <2>3, <2>5, <2>6, <2>7
  <1> QED BY <1>9, <1>10, <1>11 DEF GoOn

LEMMA DisconnectAllKeeps == ASSUME BrokersInv, DisconnectAll PROVE BrokersInv'
  <1>1. WalkedSoFar(Listed, Cardinality(Listed))
    BY ListedIsFinite, FS_CardinalityType DEF WalkedSoFar
  <1>2. session' = session \ {Nothing, closing'.client}
    BY DEF DisconnectAll, BrokersInv, BrokersTypeOK
  <1>3. tidy' \in BOOLEAN /\ UNCHANGED <<making, madeFor, order, held, tried, reopened>>
          /\ GoOn(Listed, Cardinality(Listed))
    BY DEF DisconnectAll
  <1>4. /\ BrokersTypeOK' /\ DefaultListed' /\ ListedAreMade' /\ BegunIsFor'
        /\ OncePerBroker' /\ HeldUnheard' /\ NotGivenUp' /\ UnderWayTried' /\ HeldIsTried'
        /\ OfferedIsListed' /\ SlotsOfAClient' /\ OpenIsListed' /\ PassedIsClosed'
        /\ closing' = NotDisconnecting => Listed' = {}
        /\ closing' # NotDisconnecting => closing'.size = Cardinality(Listed')
    BY <1>1, <1>2, <1>3, GoOnKeeps
  <1>5. TidyIsQuiet'
    BY <1>4 DEF DisconnectAll, TidyIsQuiet
  <1> QED BY <1>4, <1>5 DEF BrokersInv

LEMMA DisconnectedKeeps == ASSUME BrokersInv, Disconnected PROVE BrokersInv'
  <1>1. closing # NotDisconnecting
    BY DEF Disconnected, NotDisconnecting
  <1>2. closing.client \in Creations \cup {Nothing} /\ closing.size \in 0 .. Cardinality(BrokerTypes)
    BY DEF BrokersInv, BrokersTypeOK
  <1>3. WalkedSoFar(closing.rest, closing.size)
    BY <1>1, <1>2 DEF WalkedSoFar, BrokersInv, PassedIsClosed
  <1>4. /\ UNCHANGED <<making, madeFor, order, held, tried, reopened, tidy>>
        /\ session' = session \ {closing.client, closing'.client}
        /\ GoOn(closing.rest, closing.size) /\ tidy' \in BOOLEAN
    BY DEF Disconnected, BrokersInv, BrokersTypeOK
  <1>5. /\ BrokersTypeOK' /\ DefaultListed' /\ ListedAreMade' /\ BegunIsFor'
        /\ OncePerBroker' /\ HeldUnheard' /\ NotGivenUp' /\ UnderWayTried' /\ HeldIsTried'
        /\ OfferedIsListed' /\ SlotsOfAClient' /\ OpenIsListed' /\ PassedIsClosed'
        /\ closing' = NotDisconnecting => Cardinality(Listed) # closing.size \/ Listed' = {}
        /\ closing' # NotDisconnecting => closing'.size = Cardinality(Listed')
    BY <1>2, <1>3, <1>4, GoOnKeeps
  <1>6. TidyIsQuiet'
    BY <1>1, <1>4, <1>5 DEF BrokersInv, TidyIsQuiet
  <1> QED BY <1>5, <1>6 DEF BrokersInv

\* What depends on the clients, when orders move and open sessions.
LEMMA ClosingKept ==
    ASSUME BrokersInv, UNCHANGED <<clientOf, default, making, madeFor, closing>>,
           session' \subseteq session \cup reopened', session \cup session' \subseteq Creations,
           reopened \subseteq reopened',
           tidy' = tidy \/ tidy' = FALSE,
           tidy' => \A o \in Placements : order'[o].at \notin InProgress
    PROVE  /\ DefaultListed' /\ ListedAreMade' /\ BegunIsFor' /\ OpenIsListed' /\ PassedIsClosed'
           /\ TidyIsQuiet' /\ Listed' = Listed
  <1>0. BrokersTypeOK /\ DefaultListed /\ ListedAreMade /\ BegunIsFor /\ OpenIsListed
          /\ PassedIsClosed /\ TidyIsQuiet
    BY DEF BrokersInv
  <1>1. DefaultListed' /\ ListedAreMade' /\ BegunIsFor' /\ Listed' = Listed
    BY <1>0, ClientsKept
  <1>2. \A d \in Creations : Excused(d) \/ d \in reopened' => Excused(d)'
    BY DEF Excused
  <1>3. \A x \in Listed : clientOf[x] \in Creations
    BY <1>0 DEF BrokersTypeOK, Listed
  <1>4. OpenIsListed'
    BY <1>0, <1>1, <1>2, <1>3 DEF OpenIsListed
  <1>5. \A x \in Listed : clientOf[x] \notin session \/ Excused(clientOf[x])
                            => clientOf[x] \notin session' \/ Excused(clientOf[x])'
    BY <1>2, <1>3
  <1>6. PassedIsClosed'
    BY <1>0, <1>1, <1>5 DEF PassedIsClosed
  <1>7. TidyIsQuiet'
    BY <1>0, <1>1 DEF TidyIsQuiet
  <1> QED BY <1>1, <1>4, <1>6, <1>7

OrderType == [at : InProgress \cup {"new", "answered", "failed"}, broker : BrokerTypes \cup {Nothing},
              client : Creations \cup {Nothing}, first : BOOLEAN, rest : SUBSET BrokerTypes]

OrdersTyped ==
    /\ order \in [Placements -> OrderType] /\ held \in [Placements -> [BrokerTypes -> Nat]]
    /\ tried \in [Placements -> SUBSET BrokerTypes] /\ offered \in [Placements -> SUBSET BrokerTypes]

\* What the properties say of one order.
OrderIsFine(o) ==
    /\ \A b \in BrokerTypes : held[o][b] <= 1
    /\ \A b \in Simulated : held[o][b] > 0 => order[o].at = "answered" /\ order[o].broker = b
    /\ order[o].at = "failed" => offered[o] \subseteq tried[o]
    /\ order[o].at \in InProgress => OnItsWay(o)
    /\ order[o].at = "new" => tried[o] = {} /\ offered[o] = {}
    /\ order[o].at # "answered" => \A b \in BrokerTypes : held[o][b] > 0 => b \in tried[o]
    /\ offered[o] \subseteq Listed

LEMMA OrdersAreFine ==
    BrokersInv => OrdersTyped /\ \A o \in Placements : OrderIsFine(o)
  <1> SUFFICES ASSUME BrokersInv PROVE OrdersTyped /\ \A o \in Placements : OrderIsFine(o)
    OBVIOUS
  <1>1. OrdersTyped
    BY DEF BrokersInv, BrokersTypeOK, OrdersTyped, OrderType
  <1> QED BY <1>1 DEF BrokersInv, OrderIsFine, OncePerBroker, HeldUnheard, NotGivenUp,
                      UnderWayTried, HeldIsTried, OfferedIsListed

\* A step of one order leaves the others as they were.
LEMMA OneOrderMoves ==
    ASSUME BrokersInv, UNCHANGED <<making, madeFor>>, Listed' = Listed, OrdersTyped',
           NEW o \in Placements, OrderIsFine(o)',
           \A p \in Placements \ {o} : /\ order'[p] = order[p] /\ held'[p] = held[p]
                                       /\ tried'[p] = tried[p] /\ offered'[p] = offered[p]
    PROVE  /\ OncePerBroker' /\ HeldUnheard' /\ NotGivenUp' /\ UnderWayTried' /\ HeldIsTried'
           /\ OfferedIsListed'
  <1>1. \A p \in Placements : OrderIsFine(p)
    BY OrdersAreFine
  <1>2. ASSUME NEW p \in Placements PROVE OrderIsFine(p)'
    <2>1. CASE p # o
      BY <2>1, <1>1 DEF OrderIsFine, OnItsWay
    <2> QED BY <2>1
  <1> QED BY <1>2 DEF OrderIsFine, OncePerBroker, HeldUnheard, NotGivenUp,
                      UnderWayTried, HeldIsTried, OfferedIsListed

\* No slot is taken by a step that sends nothing.
LEMMA SlotsStay ==
    ASSUME BrokersInv,
           \A p \in Placements : order'[p].at = "sent" => order'[p] = order[p]
    PROVE  SlotsOfAClient'
  <1> SUFFICES ASSUME NEW c \in Creations
               PROVE  IsFiniteSet(SentBy(c)') /\ Cardinality(SentBy(c)') <= Slots
    BY DEF SlotsOfAClient
  <1>1. IsFiniteSet(SentBy(c)) /\ Cardinality(SentBy(c)) <= Slots
    BY DEF BrokersInv, SlotsOfAClient
  <1>2. SentBy(c)' \subseteq SentBy(c)
    BY DEF SentBy
  <1>3. IsFiniteSet(SentBy(c)') /\ Cardinality(SentBy(c)') <= Cardinality(SentBy(c))
    BY <1>1, <1>2, FS_Subset
  <1>4. Cardinality(SentBy(c)') \in Nat /\ Cardinality(SentBy(c)) \in Nat
    BY <1>1, <1>3, FS_CardinalityType
  <1> QED BY <1>1, <1>3, <1>4

\* To be tried at another broker, or given up.
LEMMA TryNextIsFine ==
    ASSUME BrokersInv, NEW o \in Placements, NEW brokers \in SUBSET BrokerTypes,
           TryNext(o, brokers), UNCHANGED <<clientOf, making, madeFor>>,
           brokers \cap tried[o] = {},
           order[o].at # "answered",
           held' \in [Placements -> [BrokerTypes -> Nat]],
           offered' \in [Placements -> SUBSET BrokerTypes],
           \A p \in Placements \ {o} : held'[p] = held[p] /\ offered'[p] = offered[p],
           offered'[o] \subseteq (tried[o] \cup brokers) \cap Listed,
           \A b \in BrokerTypes : held'[o][b] <= 1 /\ (held'[o][b] > 0 => b \in tried[o] \ Simulated)
    PROVE  /\ OncePerBroker' /\ HeldUnheard' /\ NotGivenUp' /\ UnderWayTried' /\ HeldIsTried'
           /\ OfferedIsListed' /\ SlotsOfAClient' /\ OrdersTyped'
  <1>0. OrdersTyped /\ OrderIsFine(o)
    BY OrdersAreFine
  <1>1. order \in [Placements -> OrderType] /\ tried \in [Placements -> SUBSET BrokerTypes]
    BY <1>0 DEF OrdersTyped
  <1>2. Listed' = Listed /\ Listed \subseteq BrokerTypes
    BY DEF Listed
  <1>3. \A b \in Listed : clientOf[b] \in Creations /\ making[clientOf[b]] = "made"
                            /\ madeFor[clientOf[b]] = b
    BY DEF Listed, BrokersInv, ListedAreMade, BrokersTypeOK
  <1>4. CASE brokers \cap Listed = {} /\ order' = [order EXCEPT ![o] = [Unplaced EXCEPT !.at = "failed"]]
              /\ UNCHANGED tried
    <2>1. [Unplaced EXCEPT !.at = "failed"] \in OrderType
            /\ [Unplaced EXCEPT !.at = "failed"].at = "failed"
      <3>1. Unplaced \in OrderType
        BY DEF Unplaced, OrderType
      <3> QED BY <3>1 DEF OrderType
    <2>2. /\ order' \in [Placements -> OrderType] /\ order'[o].at = "failed"
          /\ \A p \in Placements \ {o} : order'[p] = order[p] /\ tried'[p] = tried[p]
      BY <2>1, <1>1, <1>4
    <2>3. OrdersTyped'
      BY <2>2, <1>1, <1>4 DEF OrdersTyped
    <2>4. OrderIsFine(o)'
      BY <2>2, <1>2, <1>4 DEF OrderIsFine, InProgress
    <2>5. SlotsOfAClient'
      BY <2>2, SlotsStay
    <2> QED BY <2>2, <2>3, <2>4, <2>5, <1>2, OneOrderMoves
  <1>5. CASE \E b \in brokers \cap Listed, past \in SUBSET (brokers \ Listed) :
                AskAt(o, b, FALSE, brokers \ (past \cup {b}))
    <2>1. PICK b \in brokers \cap Listed, past \in SUBSET (brokers \ Listed) :
              AskAt(o, b, FALSE, brokers \ (past \cup {b}))
      BY <1>5
    <2>2. order' = [order EXCEPT ![o] = [at |-> "waiting", broker |-> b, client |-> clientOf[b],
                                         first |-> FALSE, rest |-> brokers \ (past \cup {b})]]
            /\ tried' = [tried EXCEPT ![o] = @ \cup {b}]
      BY <2>1 DEF AskAt
    <2>3. [at |-> "waiting", broker |-> b, client |-> clientOf[b],
           first |-> FALSE, rest |-> brokers \ (past \cup {b})] \in OrderType
      BY <1>2, <1>3 DEF OrderType, InProgress
    <2>4. /\ order' \in [Placements -> OrderType] /\ tried' \in [Placements -> SUBSET BrokerTypes]
          /\ \A p \in Placements \ {o} : order'[p] = order[p] /\ tried'[p] = tried[p]
      BY <2>2, <2>3, <1>1, <1>2
    <2>5. /\ order'[o].at = "waiting" /\ order'[o].broker = b /\ order'[o].client = clientOf[b]
          /\ order'[o].first = FALSE /\ order'[o].rest = brokers \ (past \cup {b})
          /\ tried'[o] = tried[o] \cup {b}
      BY <2>2, <1>1
    <2>6. OrdersTyped'
      BY <2>4 DEF OrdersTyped
    <2>7. held'[o][b] = 0
      <3>1. held'[o][b] \in Nat /\ ~(held'[o][b] > 0)
        BY <2>1, <1>2
      <3> QED BY <3>1
    <2>8. OnItsWay(o)'
      <3>1. b \in tried'[o] /\ clientOf[b] \in Creations /\ making[clientOf[b]] = "made"
              /\ madeFor[clientOf[b]] = b
        BY <2>1, <2>5, <1>3
      <3>2. (brokers \ (past \cup {b})) \cap tried'[o] = {}
        BY <2>5
      <3>3. offered'[o] \subseteq tried'[o] \cup (brokers \ (past \cup {b}))
        BY <2>1, <2>5
      <3> QED BY <3>1, <3>2, <3>3, <2>5, <2>7 DEF OnItsWay
    <2>9. OrderIsFine(o)'
      BY <2>5, <2>8, <1>2 DEF OrderIsFine
    <2>10. SlotsOfAClient'
      BY <2>4, <2>5, SlotsStay
    <2> QED BY <2>4, <2>6, <2>9, <2>10, <1>2, OneOrderMoves
  <1> QED BY <1>4, <1>5 DEF TryNext

LEMMA BrokersTyped ==
    ASSUME BrokersInv, OrdersTyped', UNCHANGED <<clientOf, default, making, madeFor, closing>>,
           session' \subseteq Creations, reopened' \subseteq Creations, tidy' \in BOOLEAN
    PROVE  BrokersTypeOK'
  BY DEF BrokersInv, BrokersTypeOK, OrdersTyped, OrderType

\* A step of an order that opens no session, from what it does to the order.
LEMMA OrderStepKeeps ==
    ASSUME BrokersInv, UNCHANGED <<clientOf, default, making, madeFor, closing, session, reopened>>,
           tidy' = tidy \/ tidy' = FALSE,
           tidy' => \A o \in Placements : order'[o].at \notin InProgress,
           OrdersTyped', OncePerBroker', HeldUnheard', NotGivenUp', UnderWayTried', HeldIsTried',
           OfferedIsListed', SlotsOfAClient'
    PROVE  BrokersInv'
  <1>1. session \subseteq Creations /\ reopened \subseteq Creations /\ tidy \in BOOLEAN
    BY DEF BrokersInv, BrokersTypeOK
  <1>2. BrokersTypeOK'
    BY <1>1, BrokersTyped
  <1>3. session' \subseteq session \cup reopened' /\ session \cup session' \subseteq Creations
          /\ reopened \subseteq reopened'
    BY <1>1
  <1>4. DefaultListed' /\ ListedAreMade' /\ BegunIsFor' /\ OpenIsListed' /\ PassedIsClosed'
          /\ TidyIsQuiet'
    BY <1>3, ClosingKept
  <1> QED BY <1>2, <1>4 DEF BrokersInv

LEMMA PlaceOrderKeeps ==
    ASSUME BrokersInv, NEW o \in Placements, NEW b \in BrokerTypes, PlaceOrder(o, b)
    PROVE  BrokersInv'
  <1>0. OrdersTyped /\ OrderIsFine(o)
    BY OrdersAreFine
  <1>1. /\ order \in [Placements -> OrderType] /\ tried \in [Placements -> SUBSET BrokerTypes]
        /\ held \in [Placements -> [BrokerTypes -> Nat]]
        /\ offered \in [Placements -> SUBSET BrokerTypes]
    BY <1>0 DEF OrdersTyped
  <1>2. /\ UNCHANGED <<clientOf, default, making, madeFor, closing, session, reopened, held>>
        /\ Listed' = Listed /\ tidy' = FALSE /\ order[o].at = "new"
        /\ offered' = [offered EXCEPT ![o] = Listed]
        /\ IF b \in Listed THEN AskAt(o, b, TRUE, {}) ELSE TryNext(o, Listed)
    BY DEF PlaceOrder, KeepClients, Listed
  <1>3. Listed \subseteq BrokerTypes
    BY DEF Listed
  <1>4. /\ offered' \in [Placements -> SUBSET BrokerTypes] /\ offered'[o] = Listed
        /\ \A p \in Placements \ {o} : held'[p] = held[p] /\ offered'[p] = offered[p]
    BY <1>1, <1>2, <1>3
  <1>5. tried[o] = {} /\ \A x \in BrokerTypes : held[o][x] = 0
    <2>1. tried[o] = {} /\ \A x \in BrokerTypes : held[o][x] \in Nat /\ ~(held[o][x] > 0)
      BY <1>0, <1>1, <1>2 DEF OrderIsFine
    <2> QED BY <2>1
  <1>6. CASE b \in Listed
    <2>1. order' = [order EXCEPT ![o] = [at |-> "waiting", broker |-> b, client |-> clientOf[b],
                                         first |-> TRUE, rest |-> {}]]
            /\ tried' = [tried EXCEPT ![o] = @ \cup {b}]
      BY <1>2, <1>6 DEF AskAt
    <2>2. clientOf[b] \in Creations /\ making[clientOf[b]] = "made" /\ madeFor[clientOf[b]] = b
      BY <1>6 DEF BrokersInv, BrokersTypeOK, ListedAreMade, Listed
    <2>3. [at |-> "waiting", broker |-> b, client |-> clientOf[b],
           first |-> TRUE, rest |-> {}] \in OrderType
      BY <2>2 DEF OrderType, InProgress
    <2>4. /\ order' \in [Placements -> OrderType] /\ tried' \in [Placements -> SUBSET BrokerTypes]
          /\ \A p \in Placements \ {o} : order'[p] = order[p] /\ tried'[p] = tried[p]
      BY <2>1, <2>3, <1>1
    <2>5. /\ order'[o].at = "waiting" /\ order'[o].broker = b /\ order'[o].client = clientOf[b]
          /\ order'[o].first = TRUE /\ tried'[o] = {b}
      BY <2>1, <1>1, <1>5
    <2>6. OrdersTyped'
      BY <2>4, <1>1, <1>2, <1>4 DEF OrdersTyped
    <2>7. OnItsWay(o)'
      BY <2>2, <2>5, <1>2, <1>5 DEF OnItsWay
    <2>8. OrderIsFine(o)'
      BY <2>5, <2>7, <1>2, <1>3, <1>4, <1>5, BrokersAssumption DEF OrderIsFine
    <2>9. SlotsOfAClient'
      BY <2>4, <2>5, SlotsStay
    <2>10. /\ OncePerBroker' /\ HeldUnheard' /\ NotGivenUp' /\ UnderWayTried' /\ HeldIsTried'
           /\ OfferedIsListed'
      BY <2>4, <2>6, <2>8, <1>2, <1>4, OneOrderMoves
    <2> QED BY <2>6, <2>9, <2>10, <1>2, OrderStepKeeps
  <1>7. CASE b \notin Listed
    <2>1. TryNext(o, Listed) /\ Listed \in SUBSET BrokerTypes /\ order[o].at # "answered"
            /\ Listed \cap tried[o] = {} /\ offered'[o] \subseteq (tried[o] \cup Listed) \cap Listed
      BY <1>2, <1>3, <1>4, <1>5, <1>7
    <2>2. \A x \in BrokerTypes :
              held'[o][x] <= 1 /\ (held'[o][x] > 0 => x \in tried[o] \ Simulated)
      BY <1>2, <1>5
    <2>3. held' \in [Placements -> [BrokerTypes -> Nat]]
      BY <1>1, <1>2
    <2>4. /\ OncePerBroker' /\ HeldUnheard' /\ NotGivenUp' /\ UnderWayTried' /\ HeldIsTried'
          /\ OfferedIsListed' /\ SlotsOfAClient' /\ OrdersTyped'
      BY <2>1, <2>2, <2>3, <1>2, <1>4, TryNextIsFine
    <2> QED BY <2>4, <1>2, OrderStepKeeps
  <1> QED BY <1>6, <1>7

LEMMA PlaceNowhereKeeps ==
    ASSUME BrokersInv, NEW o \in Placements, PlaceNowhere(o) PROVE BrokersInv'
  <1>0. OrdersTyped /\ OrderIsFine(o)
    BY OrdersAreFine
  <1>1. /\ UNCHANGED <<clientOf, default, making, madeFor, closing, session, reopened, held, tried,
                       offered>>
        /\ Listed' = Listed /\ tidy' = FALSE /\ order[o].at = "new"
        /\ order' = [order EXCEPT ![o].at = "failed"]
    BY DEF PlaceNowhere, KeepClients, Listed
  <1>2. /\ order' \in [Placements -> OrderType] /\ order'[o].at = "failed"
        /\ \A p \in Placements \ {o} : order'[p] = order[p]
    <2>1. order \in [Placements -> OrderType]
      BY <1>0 DEF OrdersTyped
    <2>2. [order[o] EXCEPT !.at = "failed"] \in OrderType
            /\ [order[o] EXCEPT !.at = "failed"].at = "failed"
      BY <2>1 DEF OrderType
    <2> QED BY <2>1, <2>2, <1>1
  <1>3. OrdersTyped'
    BY <1>0, <1>1, <1>2 DEF OrdersTyped
  <1>4. OrderIsFine(o)'
    BY <1>0, <1>1, <1>2 DEF OrderIsFine, InProgress
  <1>5. SlotsOfAClient'
    BY <1>2, SlotsStay
  <1>6. /\ OncePerBroker' /\ HeldUnheard' /\ NotGivenUp' /\ UnderWayTried' /\ HeldIsTried'
        /\ OfferedIsListed'
    BY <1>1, <1>2, <1>3, <1>4, OneOrderMoves
  <1> QED BY <1>1, <1>3, <1>5, <1>6, OrderStepKeeps

\* An order on its way has not been tried at the brokers that are left.
LEMMA FallbacksAreLeft ==
    ASSUME BrokersInv, NEW o \in Placements, order[o].at \in InProgress
    PROVE  /\ Fallbacks(o) \in SUBSET BrokerTypes /\ Fallbacks(o) \cap tried[o] = {}
           /\ offered[o] \subseteq (tried[o] \cup Fallbacks(o)) \cap Listed
           /\ order[o].broker \in tried[o] /\ held[o][order[o].broker] = 0
           /\ \A b \in BrokerTypes :
                held[o][b] <= 1 /\ (held[o][b] > 0 => b \in tried[o] \ Simulated)
           /\ tidy = FALSE
  <1>1. OrdersTyped /\ OrderIsFine(o)
    BY OrdersAreFine
  <1>2. OnItsWay(o) /\ offered[o] \subseteq Listed
    BY <1>1 DEF OrderIsFine
  <1>3. Listed \subseteq BrokerTypes /\ order[o].rest \subseteq BrokerTypes
    BY <1>1 DEF Listed, OrdersTyped, OrderType
  <1>4. Fallbacks(o) \in SUBSET BrokerTypes /\ Fallbacks(o) \cap tried[o] = {}
           /\ offered[o] \subseteq (tried[o] \cup Fallbacks(o)) \cap Listed
    BY <1>2, <1>3 DEF OnItsWay, Fallbacks
  <1>5. order[o].at # "answered"
    BY DEF InProgress
  <1>6. \A b \in BrokerTypes :
            held[o][b] <= 1 /\ (held[o][b] > 0 => b \in tried[o] \ Simulated)
    BY <1>1, <1>5 DEF OrderIsFine
  <1>7. tidy = FALSE
    BY DEF BrokersInv, TidyIsQuiet, BrokersTypeOK
  <1> QED BY <1>2, <1>4, <1>6, <1>7 DEF OnItsWay

LEMMA ResolveFailsKeeps ==
    ASSUME BrokersInv, NEW o \in Placements, ResolveFails(o) PROVE BrokersInv'
  <1>1. /\ UNCHANGED <<clientOf, default, making, madeFor, closing, session, reopened, held, offered,
                       tidy>>
        /\ order[o].at = "waiting" /\ TryNext(o, Fallbacks(o))
    BY DEF ResolveFails, OrderStep
  <1>2. order[o].at \in InProgress /\ order[o].at # "answered"
    BY <1>1 DEF InProgress
  <1>3. /\ held' \in [Placements -> [BrokerTypes -> Nat]]
        /\ offered' \in [Placements -> SUBSET BrokerTypes]
    BY <1>1, OrdersAreFine DEF OrdersTyped
  <1>4. /\ OncePerBroker' /\ HeldUnheard' /\ NotGivenUp' /\ UnderWayTried' /\ HeldIsTried'
        /\ OfferedIsListed' /\ SlotsOfAClient' /\ OrdersTyped'
    BY <1>1, <1>2, <1>3, FallbacksAreLeft, TryNextIsFine
  <1>5. tidy' = FALSE
    BY <1>1, <1>2, FallbacksAreLeft
  <1> QED BY <1>1, <1>4, <1>5, OrderStepKeeps

LEMMA OrderRaisesKeeps ==
    ASSUME BrokersInv, NEW o \in Placements, OrderRaises(o) PROVE BrokersInv'
  <1>1. /\ UNCHANGED <<clientOf, default, making, madeFor, closing, session, reopened, offered, tidy>>
        /\ order[o].at = "sent" /\ TryNext(o, Fallbacks(o)) /\ order[o].broker \notin Simulated
        /\ Accepted(o) \/ UNCHANGED held
    BY DEF OrderRaises, OrderStep
  <1>2. order[o].at \in InProgress /\ order[o].at # "answered"
    BY <1>1 DEF InProgress
  <1>3. /\ held \in [Placements -> [BrokerTypes -> Nat]]
        /\ offered' \in [Placements -> SUBSET BrokerTypes] /\ order[o].broker \in BrokerTypes
    <2>1. OrdersTyped
      BY OrdersAreFine
    <2>2. tried[o] \subseteq BrokerTypes
      BY <2>1 DEF OrdersTyped
    <2> QED BY <2>1, <2>2, <1>1, <1>2, FallbacksAreLeft DEF OrdersTyped
  <1>4. /\ held' \in [Placements -> [BrokerTypes -> Nat]]
        /\ \A p \in Placements \ {o} : held'[p] = held[p]
        /\ \A b \in BrokerTypes \ {order[o].broker} : held'[o][b] = held[o][b]
        /\ held'[o][order[o].broker] <= held[o][order[o].broker] + 1
    BY <1>1, <1>3 DEF Accepted
  <1>5. \A b \in BrokerTypes :
            held'[o][b] <= 1 /\ (held'[o][b] > 0 => b \in tried[o] \ Simulated)
    <2>1. /\ order[o].broker \in tried[o] /\ held[o][order[o].broker] = 0
          /\ \A b \in BrokerTypes :
                held[o][b] <= 1 /\ (held[o][b] > 0 => b \in tried[o] \ Simulated)
      BY <1>2, FallbacksAreLeft
    <2>2. held'[o][order[o].broker] \in Nat /\ held'[o][order[o].broker] <= 1
      BY <2>1, <1>3, <1>4
    <2> QED BY <2>1, <2>2, <1>1, <1>4
  <1>6. /\ OncePerBroker' /\ HeldUnheard' /\ NotGivenUp' /\ UnderWayTried' /\ HeldIsTried'
        /\ OfferedIsListed' /\ SlotsOfAClient' /\ OrdersTyped'
    BY <1>1, <1>2, <1>3, <1>4, <1>5, FallbacksAreLeft, TryNextIsFine
  <1>7. tidy' = FALSE
    BY <1>1, <1>2, FallbacksAreLeft
  <1> QED BY <1>1, <1>6, <1>7, OrderStepKeeps

LEMMA SendAtKeeps == ASSUME BrokersInv, NEW o \in Placements, SendAt(o) PROVE BrokersInv'
  <1>0. OrdersTyped /\ OrderIsFine(o)
    BY OrdersAreFine
  <1>1. order \in [Placements -> OrderType]
    BY <1>0 DEF OrdersTyped
  <1> DEFINE c == order[o].client
             opens == {order[o].client : b \in {order[o].broker} \ Simulated} \ session
  <1>2. /\ UNCHANGED <<clientOf, default, making, madeFor, closing, held, tried, offered, tidy>>
        /\ order[o].at = "waiting" /\ Cardinality(SentBy(c)) < Slots
        /\ order' = [order EXCEPT ![o].at = "sent"]
        /\ session' = session \cup opens /\ reopened' = reopened \cup opens
    BY DEF SendAt, OrderStep, RoomAt
  <1>3. order[o].at \in InProgress /\ OnItsWay(o)
    BY <1>0, <1>2 DEF OrderIsFine, InProgress
  <1>4. c \in Creations /\ opens \subseteq Creations
    BY <1>3 DEF OnItsWay
  <1>5. /\ order' \in [Placements -> OrderType] /\ order'[o].at = "sent"
        /\ order'[o].broker = order[o].broker /\ order'[o].client = c
        /\ order'[o].first = order[o].first /\ order'[o].rest = order[o].rest
        /\ \A p \in Placements \ {o} : order'[p] = order[p]
    <2>1. "sent" \in InProgress
      BY DEF InProgress
    <2>2. /\ [order[o] EXCEPT !.at = "sent"] \in OrderType
          /\ [order[o] EXCEPT !.at = "sent"].at = "sent"
          /\ [order[o] EXCEPT !.at = "sent"].broker = order[o].broker
          /\ [order[o] EXCEPT !.at = "sent"].client = order[o].client
          /\ [order[o] EXCEPT !.at = "sent"].first = order[o].first
          /\ [order[o] EXCEPT !.at = "sent"].rest = order[o].rest
      BY <1>1, <2>1 DEF OrderType
    <2> QED BY <1>1, <1>2, <2>2
  <1> HIDE DEF opens
  <1>6. OrdersTyped'
    BY <1>0, <1>2, <1>5 DEF OrdersTyped
  <1>7. Listed' = Listed
    BY <1>2 DEF Listed
  <1>8. OnItsWay(o)'
    BY <1>2, <1>3, <1>5 DEF OnItsWay
  <1>9. OrderIsFine(o)'
    BY <1>0, <1>2, <1>5, <1>7, <1>8 DEF OrderIsFine
  <1>10. /\ OncePerBroker' /\ HeldUnheard' /\ NotGivenUp' /\ UnderWayTried' /\ HeldIsTried'
         /\ OfferedIsListed'
    BY <1>2, <1>5, <1>6, <1>7, <1>9, OneOrderMoves
  \* The slot was free.
  <1>11. SlotsOfAClient'
    <2> SUFFICES ASSUME NEW d \in Creations
                 PROVE  IsFiniteSet(SentBy(d)') /\ Cardinality(SentBy(d)') <= Slots
      BY DEF SlotsOfAClient
    <2>1. IsFiniteSet(SentBy(d)) /\ Cardinality(SentBy(d)) <= Slots
      BY DEF BrokersInv, SlotsOfAClient
    <2>2. Cardinality(SentBy(d)) \in Nat
      BY <2>1, FS_CardinalityType
    <2>3. CASE d = c
      <3>1. SentBy(d)' = SentBy(d) \cup {o} /\ o \notin SentBy(d)
        BY <2>3, <1>2, <1>5 DEF SentBy
      <3>2. IsFiniteSet(SentBy(d)') /\ Cardinality(SentBy(d)') = Cardinality(SentBy(d)) + 1
        BY <2>1, <3>1, FS_AddElement
      <3>3. Cardinality(SentBy(d)) < Slots
        BY <2>3, <1>2
      <3> QED BY <3>2, <3>3, <2>2
    <2>4. CASE d # c
      <3>1. SentBy(d)' = SentBy(d)
        BY <2>4, <1>2, <1>5 DEF SentBy
      <3> QED BY <3>1, <2>1
    <2> QED BY <2>3, <2>4
  <1>12. tidy = FALSE
    BY <1>3, FallbacksAreLeft
  <1>13. session \subseteq Creations /\ reopened \subseteq Creations
    BY DEF BrokersInv, BrokersTypeOK
  <1>14. BrokersTypeOK'
    BY <1>2, <1>4, <1>6, <1>12, <1>13, BrokersTyped
  <1>15. DefaultListed' /\ ListedAreMade' /\ BegunIsFor' /\ OpenIsListed' /\ PassedIsClosed'
          /\ TidyIsQuiet'
    <2>1. session' \subseteq session \cup reopened' /\ session \cup session' \subseteq Creations
            /\ reopened \subseteq reopened'
      BY <1>2, <1>4, <1>13
    <2> QED BY <2>1, <1>2, <1>12, ClosingKept
  <1> QED BY <1>10, <1>11, <1>14, <1>15 DEF BrokersInv

LEMMA QueryBrokerKeeps == ASSUME BrokersInv, NEW c \in Creations, QueryBroker(c) PROVE BrokersInv'
  <1>1. /\ UNCHANGED <<clientOf, default, making, madeFor, closing, order, held, tried, offered, tidy>>
        /\ session' = session \cup {c} /\ reopened' = reopened \cup {c}
    BY DEF QueryBroker, KeepClients
  <1>2. session \subseteq Creations /\ reopened \subseteq Creations /\ tidy \in BOOLEAN
    BY DEF BrokersInv, BrokersTypeOK
  <1>3. tidy => \A o \in Placements : order'[o].at \notin InProgress
    BY <1>1 DEF BrokersInv, TidyIsQuiet
  <1>4. OrdersTyped'
    BY <1>1, OrdersAreFine DEF OrdersTyped
  <1>5. /\ OncePerBroker' /\ HeldUnheard' /\ NotGivenUp' /\ UnderWayTried' /\ HeldIsTried'
        /\ OfferedIsListed' /\ SlotsOfAClient'
    BY <1>1, OrdersKept DEF Listed
  <1>6. BrokersTypeOK'
    BY <1>1, <1>2, <1>4, BrokersTyped
  <1>7. DefaultListed' /\ ListedAreMade' /\ BegunIsFor' /\ OpenIsListed' /\ PassedIsClosed'
          /\ TidyIsQuiet'
    <2>1. session' \subseteq session \cup reopened' /\ session \cup session' \subseteq Creations
            /\ reopened \subseteq reopened'
      BY <1>1, <1>2
    <2> QED BY <2>1, <1>1, <1>2, <1>3, ClosingKept
  <1> QED BY <1>5, <1>6, <1>7 DEF BrokersInv

LEMMA OrderHeardKeeps == ASSUME BrokersInv, NEW o \in Placements, OrderHeard(o) PROVE BrokersInv'
  <1>0. OrdersTyped /\ OrderIsFine(o)
    BY OrdersAreFine
  <1>1. /\ order \in [Placements -> OrderType] /\ tried \in [Placements -> SUBSET BrokerTypes]
        /\ held \in [Placements -> [BrokerTypes -> Nat]]
        /\ offered \in [Placements -> SUBSET BrokerTypes]
    BY <1>0 DEF OrdersTyped
  <1>2. /\ UNCHANGED <<clientOf, default, making, madeFor, closing, session, reopened, tidy>>
        /\ order[o].at = "sent" /\ Listed' = Listed
        /\ order' = [order EXCEPT ![o] = [Unplaced EXCEPT !.at = "answered",
                                                          !.broker = order[o].broker]]
        /\ Accepted(o) \/ UNCHANGED held
        /\ tried' = [tried EXCEPT ![o] = {}] /\ offered' = [offered EXCEPT ![o] = {}]
    BY DEF OrderHeard, Listed
  <1>3. order[o].at \in InProgress
    BY <1>2 DEF InProgress
  <1> DEFINE b == order[o].broker
  <1>4. /\ b \in BrokerTypes /\ held[o][b] = 0
        /\ \A x \in BrokerTypes : held[o][x] <= 1 /\ (held[o][x] > 0 => x \notin Simulated)
    <2>1. /\ b \in tried[o] /\ held[o][b] = 0
          /\ \A x \in BrokerTypes :
                held[o][x] <= 1 /\ (held[o][x] > 0 => x \in tried[o] \ Simulated)
      BY <1>3, FallbacksAreLeft
    <2>2. tried[o] \subseteq BrokerTypes
      BY <1>1
    <2> QED BY <2>1, <2>2
  <1>5. /\ [Unplaced EXCEPT !.at = "answered", !.broker = b] \in OrderType
        /\ [Unplaced EXCEPT !.at = "answered", !.broker = b].at = "answered"
        /\ [Unplaced EXCEPT !.at = "answered", !.broker = b].broker = b
    <2>1. Unplaced \in OrderType
      BY DEF Unplaced, OrderType
    <2> QED BY <2>1, <1>4 DEF OrderType
  <1>6. /\ order' \in [Placements -> OrderType] /\ order'[o].at = "answered" /\ order'[o].broker = b
        /\ \A p \in Placements \ {o} : order'[p] = order[p]
    BY <1>1, <1>2, <1>5
  <1>7. /\ held' \in [Placements -> [BrokerTypes -> Nat]]
        /\ \A p \in Placements \ {o} : held'[p] = held[p]
        /\ \A x \in BrokerTypes : x # b => held'[o][x] = held[o][x]
        /\ held'[o][b] <= held[o][b] + 1
    <2>1. CASE Accepted(o)
      BY <2>1, <1>1, <1>4 DEF Accepted
    <2>2. CASE UNCHANGED held
      BY <2>2, <1>1, <1>4
    <2> QED BY <2>1, <2>2, <1>2
  <1>8. /\ tried' \in [Placements -> SUBSET BrokerTypes] /\ tried'[o] = {}
        /\ offered' \in [Placements -> SUBSET BrokerTypes] /\ offered'[o] = {}
        /\ \A p \in Placements \ {o} : tried'[p] = tried[p] /\ offered'[p] = offered[p]
    BY <1>1, <1>2
  <1>9. OrdersTyped'
    BY <1>6, <1>7, <1>8 DEF OrdersTyped
  <1>10. \A x \in BrokerTypes : held'[o][x] <= 1 /\ (held'[o][x] > 0 /\ x \in Simulated => x = b)
    <2>1. held'[o][b] <= 1
      BY <1>1, <1>4, <1>7
    <2> HIDE DEF b
    <2> QED BY <2>1, <1>4, <1>7
  <1>11. OrderIsFine(o)'
    BY <1>6, <1>8, <1>10 DEF OrderIsFine, InProgress
  <1>12. SlotsOfAClient'
    BY <1>6, SlotsStay
  <1>13. /\ OncePerBroker' /\ HeldUnheard' /\ NotGivenUp' /\ UnderWayTried' /\ HeldIsTried'
         /\ OfferedIsListed'
    BY <1>2, <1>6, <1>7, <1>8, <1>9, <1>11, OneOrderMoves
  <1>14. tidy = FALSE
    BY <1>3, FallbacksAreLeft
  <1> QED BY <1>2, <1>9, <1>12, <1>13, <1>14, OrderStepKeeps

LEMMA BrokersInvIsInductive == BrokersInit /\ [][BrokersNext]_brokerVars => []BrokersInv
  <1>1. ASSUME BrokersInv, [BrokersNext]_brokerVars PROVE BrokersInv'
    <2>1. ASSUME NEW c \in Creations, Connected(c) PROVE BrokersInv'
      BY <1>1, <2>1, ConnectedKeeps
    <2>2. ASSUME NEW c \in Creations, NotConnected(c) PROVE BrokersInv'
      BY <1>1, <2>2, NotConnectedKeeps
    <2>3. ASSUME NEW c \in Creations, NEW b \in BrokerTypes, CreateClient(c, b) PROVE BrokersInv'
      BY <1>1, <2>3, CreateClientKeeps
    <2>4. ASSUME NEW b \in BrokerTypes, SetDefaultBroker(b) PROVE BrokersInv'
      BY <1>1, <2>4, SetDefaultBrokerKeeps
    <2>5. CASE DisconnectAll
      BY <1>1, <2>5, DisconnectAllKeeps
    <2>6. CASE Disconnected
      BY <1>1, <2>6, DisconnectedKeeps
    <2>7. ASSUME NEW o \in Placements, PlaceNowhere(o) PROVE BrokersInv'
      BY <1>1, <2>7, PlaceNowhereKeeps
    <2>8. ASSUME NEW o \in Placements, NEW b \in BrokerTypes, PlaceOrder(o, b) PROVE BrokersInv'
      BY <1>1, <2>8, PlaceOrderKeeps
    <2>9. ASSUME NEW o \in Placements, ResolveFails(o) PROVE BrokersInv'
      BY <1>1, <2>9, ResolveFailsKeeps
    <2>10. ASSUME NEW o \in Placements, SendAt(o) PROVE BrokersInv'
      BY <1>1, <2>10, SendAtKeeps
    <2>11. ASSUME NEW o \in Placements, OrderHeard(o) PROVE BrokersInv'
      BY <1>1, <2>11, OrderHeardKeeps
    <2>12. ASSUME NEW o \in Placements, OrderRaises(o) PROVE BrokersInv'
      BY <1>1, <2>12, OrderRaisesKeeps
    <2>14. ASSUME NEW c \in Creations, QueryBroker(c) PROVE BrokersInv'
      BY <1>1, <2>14, QueryBrokerKeeps
    <2>13. CASE UNCHANGED brokerVars
      <3>1. UNCHANGED <<clientOf, default, making, madeFor, session, closing, order, held, tried,
                        offered, reopened, tidy>>
        BY <2>13 DEF brokerVars
      <3>2. OrdersTyped'
        BY <3>1, <1>1, OrdersAreFine DEF OrdersTyped
      <3>3. OncePerBroker' /\ HeldUnheard' /\ NotGivenUp' /\ UnderWayTried' /\ HeldIsTried'
              /\ OfferedIsListed' /\ SlotsOfAClient'
        BY <3>1, <1>1, OrdersKept DEF Listed
      <3>4. tidy' => \A o \in Placements : order'[o].at \notin InProgress
        BY <3>1, <1>1 DEF BrokersInv, TidyIsQuiet
      <3> QED BY <3>1, <3>2, <3>3, <3>4, <1>1, OrderStepKeeps
    <2> QED BY <1>1, <2>1, <2>2, <2>3, <2>4, <2>5, <2>6, <2>7, <2>8, <2>9, <2>10, <2>11, <2>12,
               <2>13, <2>14 DEF BrokersNext
  <1> QED BY <1>1, BrokersInitially, PTL

\* Two orders with one broker beyond its slots went out through two of its clients.
LEMMA InvKeepsSlots == BrokersInv => SlotsKept
  <1> SUFFICES ASSUME BrokersInv, NEW b \in BrokerTypes,
                      Cardinality({o \in Placements : order[o].at = "sent" /\ order[o].broker = b}) > Slots,
                      \A c, d \in Creations : c # d /\ madeFor[c] = b /\ madeFor[d] = b
                                       => ~(making[c] = "made" /\ making[d] = "made")
               PROVE  FALSE
    BY DEF SlotsKept
  <1> DEFINE Here == {o \in Placements : order[o].at = "sent" /\ order[o].broker = b}
  <1>1. \A o \in Here : order[o].client \in Creations /\ making[order[o].client] = "made"
                          /\ madeFor[order[o].client] = b
    BY DEF BrokersInv, UnderWayTried, OnItsWay, InProgress
  <1>2. CASE Here = {}
    <2>1. Cardinality(Here) = 0
      BY <1>2, FS_EmptySet
    <2> QED BY <2>1
  <1>3. CASE Here # {}
    <2>1. PICK p \in Here : TRUE
      BY <1>3
    <2>2. PICK c \in Creations : c = order[p].client
      BY <1>1, <2>1
    <2>3. Here \subseteq SentBy(c)
      BY <1>1, <2>1, <2>2 DEF SentBy
    <2>4. IsFiniteSet(SentBy(c)) /\ Cardinality(SentBy(c)) <= Slots
      BY DEF BrokersInv, SlotsOfAClient
    <2>5. IsFiniteSet(Here) /\ Cardinality(Here) <= Cardinality(SentBy(c))
      BY <2>3, <2>4, FS_Subset
    <2>6. Cardinality(Here) \in Nat /\ Cardinality(SentBy(c)) \in Nat
      BY <2>4, <2>5, FS_CardinalityType
    <2>7. Cardinality(Here) > Slots
      OBVIOUS
    <2> HIDE DEF Here
    <2> QED BY <2>4, <2>5, <2>6, <2>7
  <1> QED BY <1>2, <1>3

LEMMA InvShutsDown == BrokersInv => ShutDown
  <1> SUFFICES ASSUME BrokersInv, tidy, closing = NotDisconnecting
               PROVE  /\ Listed = {}
                      /\ \A c \in session : making[c] = "refused" \/ Excused(c)
    BY DEF ShutDown, Excused
  <1>1. Listed = {} /\ \A c \in Creations : making[c] # "connecting"
    BY DEF BrokersInv, TidyIsQuiet
  <1>2. session \subseteq Creations
    BY DEF BrokersInv, BrokersTypeOK
  <1> QED BY <1>1, <1>2 DEF BrokersInv, OpenIsListed

\* Whatever clients are created, replaced and disconnected meanwhile, a broker accepts an
\* order once, an order is tried everywhere before it is given up, the default broker is
\* listed, the slots are kept and a tidy shutdown leaves no session that is not excused.
THEOREM BrokersKeepTheirPromise == BrokersSpec => []BrokersPromise
  <1>1. BrokersInv => BrokersPromise
    BY InvKeepsSlots, InvShutsDown DEF BrokersInv, BrokersPromise
  <1> QED BY <1>1, BrokersInvIsInductive, PTL DEF BrokersSpec
-------------------------------------------------------------------------------
(* The caches of the metadata.                                                 *)

\* What has waited for m answers, and how late an item is when it is asked for alone.
TimeFor(m) == m * RegistryTime
Reach(item) == IF item.what = "failed" THEN 0 ELSE RegistryTTL + InnerTTL + RegistryTime

\* What the clients keep was said by the registry, and its age is that of their caches.
RegistryIsFresh ==
    /\ KeepsIn(registered, KeptItems(0 .. RegistryTTL - 1))
    /\ \A k \in DOMAIN registered :
          /\ registered[k].item.what # "failed"
          /\ registered[k].item.age <= RegistryTime + registered[k].kept
InnerIsFresh ==
    /\ KeepsIn(inner, KeptItems(0 .. InnerTTL - 1))
    /\ \A k \in DOMAIN inner :
          /\ inner[k].item.what = "metadata"
          /\ inner[k].item.age <= RegistryTime + RegistryTTL + inner[k].kept

\* What a request has fetched waits for the answers to what it has asked for since.
Since(r) == TimeFor(Cardinality(Enrichable) - 1 - Cardinality(r.wanted)) + r.waited
Holds(r, got) ==
    /\ r \in Requests /\ KeepsIn(got, Items)
    /\ DOMAIN got \cap r.wanted = {} /\ r.asked \subseteq r.wanted
    /\ r.at = "idle" => DOMAIN got = {}
    /\ r.at = "running" => r.waited = 0
    /\ \A k \in DOMAIN got : got[k].age <= Reach(got[k]) + Since(r)
AllHold ==
    /\ DOMAIN enricher = Enrichers /\ enricher = [e \in Enrichers |-> enricher[e]]
    /\ DOMAIN fetched = Enrichers
    /\ \A e \in Enrichers : Holds(enricher[e], fetched[e])

\* What was set has waited for the others of its batch at most.
Lateness(item) == Reach(item) + TimeFor(Cardinality(Enrichable) - 1)
Kept(cache) ==
    /\ KeepsIn(cache, KeptItems(0 .. OuterTTL + 1))
    /\ \A k \in DOMAIN cache :
          cache[k].kept <= OuterTTL => cache[k].item.age <= Lateness(cache[k].item) + cache[k].kept
    /\ Cardinality(DOMAIN cache) <= MaxCacheSize

MetadataInv == RegistryIsFresh /\ InnerIsFresh /\ AllHold /\ Kept(outer)

HIDE BrokersAssumption
USE MetadataAssumption DEF MetadataAssumption

LEMMA TimesAreNatural ==
    /\ OuterTTL \in Nat \ {0} /\ InnerTTL \in Nat \ {0} /\ RegistryTTL \in Nat \ {0}
    /\ RegistryTime \in Nat \ {0} /\ MaxCacheSize \in Nat \ {0}
    /\ Cardinality(Enrichable) \in Nat
  BY FS_CardinalityType

LEMMA TimeAdds ==
    ASSUME NEW m \in Int
    PROVE  /\ TimeFor(m) \in Int /\ TimeFor(m + 1) = TimeFor(m) + RegistryTime
           /\ m >= 0 => TimeFor(m) >= 0
  <1> DEFINE T == RegistryTime
  <1>1. T \in Nat
    BY TimesAreNatural
  <1> HIDE DEF T
  <1>2. m * T \in Int /\ (m + 1) * T = m * T + T
    BY <1>1
  <1>3. m >= 0 => m * T >= 0
    BY <1>1
  <1> QED BY <1>2, <1>3 DEF TimeFor, T

\* An item that may be late fits into the ages.
LEMMA OldestIs ==
    /\ Oldest \in Nat
    /\ Oldest = RegistryTTL + InnerTTL + OuterTTL + TimeFor(Cardinality(Enrichable))
  <1>1. TimeFor(Cardinality(Enrichable)) \in Nat
    BY TimesAreNatural, TimeAdds
  <1>2. Oldest = RegistryTTL + InnerTTL + OuterTTL + TimeFor(Cardinality(Enrichable))
    BY DEF Oldest, TimeFor
  <1> QED BY <1>1, <1>2, TimesAreNatural

LEMMA ItemIs ==
    ASSUME NEW item \in Items
    PROVE  /\ item.age \in Nat /\ item.what \in {"metadata", "unknown", "failed"}
           /\ item = [what |-> item.what, age |-> item.age]
           /\ Reach(item) \in Nat
           /\ item.what # "failed" => Reach(item) = RegistryTTL + InnerTTL + RegistryTime
           /\ item.what = "failed" => Reach(item) = 0
  <1>1. item.age \in 0 .. Oldest + 1 /\ item.what \in {"metadata", "unknown", "failed"}
          /\ item = [what |-> item.what, age |-> item.age]
    BY DEF Items
  <1>2. item.age \in Nat
    BY <1>1, OldestIs
  <1> QED BY <1>1, <1>2, TimesAreNatural DEF Reach

\* A set of keys is counted, and one less when a key of it is done with.
LEMMA KeysCount ==
    ASSUME NEW S \in SUBSET Enrichable
    PROVE  /\ Cardinality(S) \in Nat /\ IsFiniteSet(S)
           /\ Cardinality(S) <= Cardinality(Enrichable)
           /\ \A k \in S : Cardinality(S \ {k}) = Cardinality(S) - 1
           /\ \A k \in Enrichable \ S : Cardinality(S) <= Cardinality(Enrichable) - 1
  <1>1. IsFiniteSet(S) /\ Cardinality(S) \in Nat /\ Cardinality(S) <= Cardinality(Enrichable)
    BY FS_Subset, FS_CardinalityType
  <1>2. \A k \in S : Cardinality(S \ {k}) = Cardinality(S) - 1
    BY <1>1, FS_RemoveElement
  <1>3. ASSUME NEW k \in Enrichable \ S PROVE Cardinality(S) <= Cardinality(Enrichable) - 1
    <2>1. Cardinality(Enrichable \ {k}) = Cardinality(Enrichable) - 1
            /\ IsFiniteSet(Enrichable \ {k})
      BY FS_RemoveElement
    <2>2. S \subseteq Enrichable \ {k}
      OBVIOUS
    <2>3. Cardinality(S) <= Cardinality(Enrichable \ {k})
      BY <2>1, <2>2, FS_Subset
    <2> QED BY <2>1, <2>3
  <1> QED BY <1>1, <1>2, <1>3

\* An answer or a failure is an item.
LEMMA NewItem ==
    ASSUME NEW k \in Enrichable,
           NEW what \in {"metadata", "unknown", "failed"}, NEW age \in 0 .. RegistryTime
    PROVE  [what |-> what, age |-> age] \in Items
  <1> DEFINE n == Cardinality(Enrichable)
  <1>1. n \in Nat /\ n # 0
    BY TimesAreNatural, FS_EmptySet
  <1> HIDE DEF n
  <1>2. n - 1 \in Int /\ n - 1 >= 0 /\ (n - 1) + 1 = n
    BY <1>1
  <1>3. TimeFor(n) = TimeFor(n - 1) + RegistryTime /\ TimeFor(n - 1) >= 0 /\ TimeFor(n - 1) \in Int
    BY <1>2, TimeAdds
  <1>4. Oldest = RegistryTTL + InnerTTL + OuterTTL + TimeFor(n)
    BY OldestIs DEF n
  <1>5. age \in 0 .. Oldest + 1
    BY <1>3, <1>4, TimesAreNatural
  <1> QED BY <1>5 DEF Items

\* What a cache with some entries less holds.
LEMMA WithoutKeeps ==
    ASSUME NEW cache, NEW values, KeepsIn(cache, values), NEW keys
    PROVE  /\ KeepsIn(Without(cache, keys), values)
           /\ DOMAIN Without(cache, keys) = DOMAIN cache \ keys
           /\ \A x \in DOMAIN cache \ keys : Without(cache, keys)[x] = cache[x]
  BY DEF Without, KeepsIn

LEMMA NothingIsKept ==
    ASSUME NEW values PROVE KeepsIn(<<>>, values) /\ DOMAIN <<>> = {}
  BY DEF KeepsIn

\* A request that proceeds holds what it is given, when that is not late.
LEMMA ProceedsKeeps ==
    ASSUME AllHold, NEW e \in Enrichers, NEW wanted \in SUBSET Enrichable, NEW got,
           KeepsIn(got, Items), DOMAIN got \cap wanted = {},
           \A k \in DOMAIN got :
              got[k].age <= Reach(got[k]) + TimeFor(Cardinality(Enrichable) - 1 - Cardinality(wanted)),
           Proceeds(e, wanted, got)
    PROVE  AllHold'
  <1> DEFINE run == [at |-> "running", wanted |-> wanted, asked |-> {}, waited |-> 0]
             new == IF wanted = {} /\ got = <<>> THEN NoRequest ELSE run
  <1>1. enricher' = [enricher EXCEPT ![e] = new] /\ fetched' = [fetched EXCEPT ![e] = got]
    BY DEF Proceeds
  <1>3. Holds(run, got)
    <2>1. run \in Requests /\ run.wanted = wanted /\ run.waited = 0 /\ run.asked = {}
            /\ run.at = "running"
      BY TimesAreNatural DEF Requests
    <2>2. TimeFor(Cardinality(Enrichable) - 1 - Cardinality(wanted)) \in Int
      BY TimeAdds, TimesAreNatural, KeysCount
    <2>3. Since(run) = TimeFor(Cardinality(Enrichable) - 1 - Cardinality(wanted))
      BY <2>1, <2>2 DEF Since
    <2> HIDE DEF run
    <2> QED BY <2>1, <2>3 DEF Holds
  <1>4. wanted = {} /\ got = <<>> => Holds(NoRequest, got)
    <2> SUFFICES ASSUME wanted = {}, got = <<>> PROVE Holds(NoRequest, got)
      OBVIOUS
    <2>1. DOMAIN got = {} /\ KeepsIn(got, Items)
      BY NothingIsKept
    <2>2. NoRequest \in Requests /\ NoRequest.asked = {} /\ NoRequest.wanted = {} /\ NoRequest.waited = 0
      BY TimesAreNatural DEF Requests, NoRequest
    <2> QED BY <2>1, <2>2 DEF Holds
  <1>5. Holds(new, got)
    BY <1>3, <1>4
  <1> HIDE DEF new
  <1>6. DOMAIN enricher' = Enrichers /\ enricher' = [x \in Enrichers |-> enricher'[x]]
          /\ DOMAIN fetched' = Enrichers
    BY <1>1 DEF AllHold
  <1>7. \A x \in Enrichers : Holds(enricher'[x], fetched'[x])
    BY <1>1, <1>5 DEF AllHold
  <1> QED BY <1>6, <1>7 DEF AllHold

\* What a running or a waiting request wants and has fetched.
LEMMA HoldsIs ==
    ASSUME NEW r, NEW got, Holds(r, got)
    PROVE  /\ r.wanted \in SUBSET Enrichable /\ r.asked \subseteq r.wanted
           /\ r.waited \in 0 .. RegistryTime
           /\ KeepsIn(got, Items) /\ DOMAIN got \subseteq Enrichable
           /\ \A k \in DOMAIN got : got[k] \in Items
           /\ DOMAIN got \cap r.wanted = {}
           /\ \A k \in DOMAIN got :
                 got[k].age <= Reach(got[k])
                    + (TimeFor(Cardinality(Enrichable) - 1 - Cardinality(r.wanted)) + r.waited)
  <1>1. r \in Requests /\ KeepsIn(got, Items) /\ DOMAIN got \cap r.wanted = {}
          /\ r.asked \subseteq r.wanted
          /\ \A k \in DOMAIN got : got[k].age <= Reach(got[k]) + Since(r)
    BY DEF Holds
  <1>2. r.wanted \in SUBSET Enrichable /\ r.waited \in 0 .. RegistryTime
    BY <1>1 DEF Requests
  <1>3. DOMAIN got \subseteq Enrichable /\ \A k \in DOMAIN got : got[k] \in Items
    BY <1>1 DEF KeepsIn
  <1> QED BY <1>1, <1>2, <1>3 DEF Since

\* A request that is given an item for one of the keys it wants.
LEMMA GivenKeeps ==
    ASSUME AllHold, NEW e \in Enrichers, NEW k \in enricher[e].wanted, NEW item \in Items,
           item.age <= Reach(item),
           Proceeds(e, enricher[e].wanted \ {k}, With(fetched[e], k, item))
    PROVE  AllHold'
  <1> DEFINE r == enricher[e]
             got == fetched[e]
             left == r.wanted \ {k}
             more == With(got, k, item)
             n == Cardinality(Enrichable) - 1 - Cardinality(r.wanted)
  <1>1. Holds(r, got)
    BY DEF AllHold
  <1> HIDE DEF r, got
  <1>2. /\ r.wanted \in SUBSET Enrichable /\ r.waited \in 0 .. RegistryTime /\ k \in r.wanted
        /\ KeepsIn(got, Items) /\ DOMAIN got \cap r.wanted = {}
        /\ \A x \in DOMAIN got : got[x] \in Items /\ got[x].age <= Reach(got[x]) + (TimeFor(n) + r.waited)
    BY <1>1, HoldsIs DEF r
  <1>3. /\ Cardinality(left) = Cardinality(r.wanted) - 1 /\ Cardinality(r.wanted) \in Nat
        /\ Cardinality(r.wanted) <= Cardinality(Enrichable)
    BY <1>2, KeysCount
  <1>4. Cardinality(Enrichable) - 1 - Cardinality(left) = n + 1 /\ n \in Int /\ n + 1 >= 0
    BY <1>3, TimesAreNatural
  <1>5. /\ KeepsIn(more, Items) /\ DOMAIN more = DOMAIN got \cup {k} /\ more[k] = item
        /\ \A x \in DOMAIN got : x # k => more[x] = got[x]
    BY <1>2 DEF With, KeepsIn
  <1> HIDE DEF n, more
  <1>6. TimeFor(n + 1) = TimeFor(n) + RegistryTime /\ TimeFor(n) \in Int /\ TimeFor(n + 1) >= 0
    BY <1>4, TimeAdds
  <1>7. ASSUME NEW x \in DOMAIN more PROVE more[x].age <= Reach(more[x]) + TimeFor(n + 1)
    <2>1. CASE x = k
      <3>1. item.age \in Nat /\ Reach(item) \in Nat
        BY ItemIs
      <3> QED BY <2>1, <3>1, <1>5, <1>6, TimesAreNatural
    <2>2. CASE x # k
      <3>1. more[x] = got[x] /\ got[x] \in Items /\ got[x].age <= Reach(got[x]) + (TimeFor(n) + r.waited)
        BY <2>2, <1>2, <1>5
      <3>2. got[x].age \in Nat /\ Reach(got[x]) \in Nat
        BY <3>1, ItemIs
      <3>3. got[x].age <= Reach(got[x]) + TimeFor(n + 1)
        BY <3>1, <3>2, <1>2, <1>6, TimesAreNatural
      <3> QED BY <3>1, <3>3
    <2> QED BY <2>1, <2>2
  <1>8. left \in SUBSET Enrichable /\ DOMAIN more \cap left = {}
    BY <1>2, <1>5
  <1>9. Proceeds(e, left, more)
    BY DEF r, got, left, more
  <1> HIDE DEF left
  <1> QED BY <1>4, <1>5, <1>7, <1>8, <1>9, ProceedsKeeps

\* An answer the SDK's client keeps is as fresh as what it came from.
LEMMA BringsKeeps ==
    ASSUME AllHold, InnerIsFresh, Kept(outer), NEW e \in Enrichers,
           NEW k \in enricher[e].wanted, NEW item \in Items,
           item.age <= Reach(item),
           item.what # "failed" => item.age <= RegistryTime + RegistryTTL,
           Brings(e, k, item)
    PROVE  AllHold' /\ InnerIsFresh' /\ Kept(outer')
  <1>1. AllHold'
    BY GivenKeeps DEF Brings
  <1>2. Kept(outer')
    BY DEF Brings
  <1>3. CASE item.what # "metadata"
    <2>1. inner' = inner
      BY <1>3 DEF Brings
    <2> QED BY <2>1, <1>1, <1>2 DEF InnerIsFresh
  <1>4. CASE item.what = "metadata"
    <2> DEFINE entry == [item |-> item, kept |-> 0]
    <2>1. inner' = With(inner, k, entry)
      BY <1>4 DEF Brings
    <2>2. k \in Enrichable
      BY HoldsIs DEF AllHold
    <2>3. entry \in KeptItems(0 .. InnerTTL - 1) /\ entry.item = item /\ entry.kept = 0
      BY TimesAreNatural DEF KeptItems
    <2>4. KeepsIn(inner, KeptItems(0 .. InnerTTL - 1))
            /\ \A x \in DOMAIN inner :
                  /\ inner[x].item.what = "metadata"
                  /\ inner[x].item.age <= RegistryTime + RegistryTTL + inner[x].kept
      BY DEF InnerIsFresh
    <2> HIDE DEF entry
    <2>5. /\ KeepsIn(inner', KeptItems(0 .. InnerTTL - 1)) /\ DOMAIN inner' = DOMAIN inner \cup {k}
          /\ inner'[k] = entry /\ \A x \in DOMAIN inner : x # k => inner'[x] = inner[x]
      BY <2>1, <2>2, <2>3, <2>4 DEF With, KeepsIn
    <2>6. item.age <= RegistryTime + RegistryTTL + entry.kept
      <3>1. item.age \in Nat /\ item.age <= RegistryTime + RegistryTTL
        BY <1>4, ItemIs
      <3> QED BY <3>1, <2>3, TimesAreNatural
    <2>7. ASSUME NEW x \in DOMAIN inner'
          PROVE  inner'[x].item.what = "metadata"
                   /\ inner'[x].item.age <= RegistryTime + RegistryTTL + inner'[x].kept
      <3>1. CASE x = k
        BY <3>1, <1>4, <2>3, <2>5, <2>6
      <3>2. CASE x # k
        BY <3>2, <2>4, <2>5
      <3> QED BY <3>1, <3>2
    <2>8. InnerIsFresh'
      BY <2>5, <2>7 DEF InnerIsFresh
    <2> QED BY <2>8, <1>1, <1>2
  <1> QED BY <1>3, <1>4

\* What the clients know may be asked for alone.
LEMMA KnownIsFresh ==
    ASSUME MetadataInv
    PROVE  /\ \A k \in DOMAIN registered :
                 /\ k \in Enrichable /\ registered[k].item \in Items
                 /\ registered[k].item.age <= Reach(registered[k].item)
                 /\ registered[k].item.age <= RegistryTime + RegistryTTL
           /\ \A k \in DOMAIN inner :
                 /\ k \in Enrichable /\ inner[k].item \in Items
                 /\ inner[k].item.age <= Reach(inner[k].item)
  <1>1. ASSUME NEW k \in DOMAIN registered
        PROVE  /\ k \in Enrichable /\ registered[k].item \in Items
               /\ registered[k].item.age <= Reach(registered[k].item)
               /\ registered[k].item.age <= RegistryTime + RegistryTTL
    <2> DEFINE item == registered[k].item
               kept == registered[k].kept
    <2>1. /\ registered[k] \in KeptItems(0 .. RegistryTTL - 1) /\ k \in Enrichable
          /\ item.what # "failed" /\ item.age <= RegistryTime + kept
      BY DEF MetadataInv, RegistryIsFresh, KeepsIn
    <2>2. item \in Items /\ kept \in 0 .. RegistryTTL - 1
      BY <2>1 DEF KeptItems
    <2>3. item.age \in Nat /\ Reach(item) = RegistryTTL + InnerTTL + RegistryTime
      BY <2>1, <2>2, ItemIs
    <2> HIDE DEF item, kept
    <2>4. item.age <= Reach(item) /\ item.age <= RegistryTime + RegistryTTL
      BY <2>1, <2>2, <2>3, TimesAreNatural
    <2> QED BY <2>1, <2>2, <2>4 DEF item
  <1>2. ASSUME NEW k \in DOMAIN inner
        PROVE  /\ k \in Enrichable /\ inner[k].item \in Items
               /\ inner[k].item.age <= Reach(inner[k].item)
    <2> DEFINE item == inner[k].item
               kept == inner[k].kept
    <2>1. /\ inner[k] \in KeptItems(0 .. InnerTTL - 1) /\ k \in Enrichable
          /\ item.what = "metadata" /\ item.age <= RegistryTime + RegistryTTL + kept
      BY DEF MetadataInv, InnerIsFresh, KeepsIn
    <2>2. item \in Items /\ kept \in 0 .. InnerTTL - 1
      BY <2>1 DEF KeptItems
    <2>3. item.age \in Nat /\ Reach(item) = RegistryTTL + InnerTTL + RegistryTime
      BY <2>1, <2>2, ItemIs
    <2> HIDE DEF item, kept
    <2>4. item.age <= Reach(item)
      BY <2>1, <2>2, <2>3, TimesAreNatural
    <2> QED BY <2>1, <2>2, <2>4 DEF item
  <1> QED BY <1>1, <1>2

LEMMA InnerKnowsKeeps ==
    ASSUME MetadataInv, NEW e \in Enrichers, NEW k \in Enrichable, InnerKnows(e, k)
    PROVE  MetadataInv'
  <1>1. k \in enricher[e].wanted /\ k \in DOMAIN inner
          /\ Proceeds(e, enricher[e].wanted \ {k}, With(fetched[e], k, inner[k].item))
          /\ UNCHANGED <<registered, inner, outer>>
    BY DEF InnerKnows
  <1>2. inner[k].item \in Items /\ inner[k].item.age <= Reach(inner[k].item)
    BY <1>1, KnownIsFresh
  <1>3. AllHold'
    BY <1>1, <1>2, GivenKeeps DEF MetadataInv
  <1> QED BY <1>1, <1>3 DEF MetadataInv, RegistryIsFresh, InnerIsFresh, Kept

LEMMA RegistryKnowsKeeps ==
    ASSUME MetadataInv, NEW e \in Enrichers, NEW k \in Enrichable,
           RegistryKnows(e, k) \/ FallsBack(e, k)
    PROVE  MetadataInv'
  <1>1. k \in enricher[e].wanted /\ k \in DOMAIN registered
          /\ Brings(e, k, registered[k].item) /\ UNCHANGED registered
    <2>1. enricher[e].asked \subseteq enricher[e].wanted
      BY HoldsIs DEF MetadataInv, AllHold
    <2> QED BY <2>1 DEF RegistryKnows, FallsBack, Waits
  <1>2. registered[k].item \in Items /\ registered[k].item.age <= Reach(registered[k].item)
          /\ registered[k].item.age <= RegistryTime + RegistryTTL
    BY <1>1, KnownIsFresh
  <1>3. AllHold' /\ InnerIsFresh' /\ Kept(outer')
    BY <1>1, <1>2, BringsKeeps DEF MetadataInv
  <1>4. RegistryIsFresh'
    BY <1>1 DEF MetadataInv, RegistryIsFresh
  <1> QED BY <1>3, <1>4 DEF MetadataInv

LEMMA AsksRegistryKeeps ==
    ASSUME MetadataInv, NEW e \in Enrichers, NEW k \in Enrichable, AsksRegistry(e, k)
    PROVE  MetadataInv'
  <1> DEFINE r == enricher[e]
             new == [at |-> "waiting", wanted |-> r.wanted, asked |-> {k}, waited |-> 0]
  <1>1. /\ k \in r.wanted /\ enricher' = [enricher EXCEPT ![e] = new] /\ r.at = "running"
        /\ UNCHANGED <<registered, inner, outer, fetched>>
    BY DEF AsksRegistry
  <1>2. Holds(r, fetched[e]) /\ r \in Requests /\ r.waited = 0
    BY <1>1 DEF MetadataInv, AllHold, Holds
  <1> HIDE DEF r
  <1>4. new \in Requests /\ new.at = "waiting" /\ new.wanted = r.wanted /\ new.asked = {k}
          /\ new.waited = r.waited
    BY <1>1, <1>2 DEF Requests
  <1> HIDE DEF new
  <1>5. Since(new) = Since(r)
    BY <1>4 DEF Since
  <1>6. Holds(new, fetched[e])
    BY <1>1, <1>2, <1>4, <1>5 DEF Holds
  <1>7. AllHold'
    <2>1. DOMAIN enricher' = Enrichers /\ enricher' = [x \in Enrichers |-> enricher'[x]]
            /\ DOMAIN fetched' = Enrichers
      BY <1>1 DEF MetadataInv, AllHold
    <2>2. \A x \in Enrichers : Holds(enricher'[x], fetched'[x])
      BY <1>1, <1>6 DEF MetadataInv, AllHold
    <2> QED BY <2>1, <2>2 DEF AllHold
  <1> QED BY <1>1, <1>7 DEF MetadataInv, RegistryIsFresh, InnerIsFresh, Kept

LEMMA RegistryAnswersKeeps ==
    ASSUME MetadataInv, NEW e \in Enrichers, NEW k \in Enrichable, RegistryAnswers(e, k)
    PROVE  MetadataInv'
  <1>1. PICK what \in {"metadata", "unknown"} :
            /\ registered' = With(registered, k,
                                [item |-> [what |-> what, age |-> enricher[e].waited], kept |-> 0])
            /\ Brings(e, k, [what |-> what, age |-> enricher[e].waited])
    BY DEF RegistryAnswers
  <1>2. k \in enricher[e].wanted /\ enricher[e].waited \in 0 .. RegistryTime
    <2>1. enricher[e].asked \subseteq enricher[e].wanted /\ enricher[e].waited \in 0 .. RegistryTime
      BY HoldsIs DEF MetadataInv, AllHold
    <2> QED BY <2>1 DEF RegistryAnswers, Waits
  <1> DEFINE item == [what |-> what, age |-> enricher[e].waited]
             entry == [item |-> item, kept |-> 0]
  <1>3. item \in Items /\ item.what = what /\ item.age = enricher[e].waited
    BY <1>2, NewItem
  <1>4. Brings(e, k, item) /\ registered' = With(registered, k, entry)
    BY <1>1
  <1> HIDE DEF item
  <1>5. item.age \in Nat /\ item.age <= RegistryTime /\ item.what # "failed"
          /\ Reach(item) = RegistryTTL + InnerTTL + RegistryTime
    BY <1>1, <1>2, <1>3, ItemIs
  <1>6. item.age <= Reach(item) /\ item.age <= RegistryTime + RegistryTTL
    BY <1>5, TimesAreNatural
  <1>7. AllHold' /\ InnerIsFresh' /\ Kept(outer')
    BY <1>2, <1>3, <1>4, <1>6, BringsKeeps DEF MetadataInv
  <1>8. entry \in KeptItems(0 .. RegistryTTL - 1) /\ entry.item = item /\ entry.kept = 0
    BY <1>3, TimesAreNatural DEF KeptItems
  <1> HIDE DEF entry
  <1>9. RegistryIsFresh'
    <2>1. KeepsIn(registered, KeptItems(0 .. RegistryTTL - 1))
            /\ \A x \in DOMAIN registered :
                  /\ registered[x].item.what # "failed"
                  /\ registered[x].item.age <= RegistryTime + registered[x].kept
      BY DEF MetadataInv, RegistryIsFresh
    <2>2. /\ KeepsIn(registered', KeptItems(0 .. RegistryTTL - 1))
          /\ DOMAIN registered' = DOMAIN registered \cup {k} /\ registered'[k] = entry
          /\ \A x \in DOMAIN registered : x # k => registered'[x] = registered[x]
      BY <1>4, <1>8, <2>1 DEF With, KeepsIn
    <2>3. item.age <= RegistryTime + entry.kept
      BY <1>5, <1>8, TimesAreNatural
    <2>4. ASSUME NEW x \in DOMAIN registered'
          PROVE  registered'[x].item.what # "failed"
                   /\ registered'[x].item.age <= RegistryTime + registered'[x].kept
      <3>1. CASE x = k
        BY <3>1, <1>5, <1>8, <2>2, <2>3
      <3>2. CASE x # k
        BY <3>2, <2>1, <2>2
      <3> QED BY <3>1, <3>2
    <2> QED BY <2>2, <2>4 DEF RegistryIsFresh
  <1> QED BY <1>7, <1>9 DEF MetadataInv

LEMMA RegistryFailsKeeps ==
    ASSUME MetadataInv, NEW e \in Enrichers, NEW k \in Enrichable, RegistryFails(e, k)
    PROVE  MetadataInv'
  <1> DEFINE item == [what |-> "failed", age |-> 0]
  <1>1. Brings(e, k, item) /\ UNCHANGED registered
    BY DEF RegistryFails
  <1>2. k \in enricher[e].wanted
    <2>1. enricher[e].asked \subseteq enricher[e].wanted
      BY HoldsIs DEF MetadataInv, AllHold
    <2> QED BY <2>1 DEF RegistryFails, Waits
  <1>3. item \in Items /\ item.what = "failed" /\ item.age = 0
    BY NewItem, TimesAreNatural
  <1> HIDE DEF item
  <1>4. item.age <= Reach(item)
    BY <1>3, ItemIs
  <1>5. AllHold' /\ InnerIsFresh' /\ Kept(outer')
    BY <1>1, <1>2, <1>3, <1>4, BringsKeeps DEF MetadataInv
  <1>6. RegistryIsFresh'
    BY <1>1 DEF MetadataInv, RegistryIsFresh
  <1> QED BY <1>5, <1>6 DEF MetadataInv

\* A cache that has expired entries removed stays one, and loses no more than them.
LEMMA LessIsKept ==
    ASSUME NEW cache, Kept(cache), NEW keys
    PROVE  /\ Kept(Without(cache, keys))
           /\ Cardinality(DOMAIN Without(cache, keys)) <= Cardinality(DOMAIN cache)
           /\ \A k \in keys : k \in DOMAIN cache =>
                 Cardinality(DOMAIN Without(cache, keys)) <= Cardinality(DOMAIN cache) - 1
  <1> DEFINE left == Without(cache, keys)
  <1>1. KeepsIn(cache, KeptItems(0 .. OuterTTL + 1)) /\ Cardinality(DOMAIN cache) <= MaxCacheSize
          /\ DOMAIN cache \in SUBSET Enrichable
    BY DEF Kept, KeepsIn
  <1>2. /\ KeepsIn(left, KeptItems(0 .. OuterTTL + 1)) /\ DOMAIN left = DOMAIN cache \ keys
        /\ \A x \in DOMAIN left : left[x] = cache[x]
    BY <1>1, WithoutKeeps
  <1> HIDE DEF left
  <1>3. IsFiniteSet(DOMAIN cache) /\ Cardinality(DOMAIN cache) \in Nat
    BY <1>1, KeysCount
  <1>4. Cardinality(DOMAIN left) \in Nat /\ Cardinality(DOMAIN left) <= Cardinality(DOMAIN cache)
    BY <1>2, <1>3, FS_Subset, FS_CardinalityType
  <1>5. ASSUME NEW k \in keys, k \in DOMAIN cache
        PROVE  Cardinality(DOMAIN left) <= Cardinality(DOMAIN cache) - 1
    <2>1. Cardinality(DOMAIN cache \ {k}) = Cardinality(DOMAIN cache) - 1
            /\ IsFiniteSet(DOMAIN cache \ {k})
      BY <1>3, <1>5, FS_RemoveElement
    <2>2. DOMAIN left \subseteq DOMAIN cache \ {k}
      BY <1>2
    <2>3. Cardinality(DOMAIN left) <= Cardinality(DOMAIN cache \ {k})
      BY <2>1, <2>2, FS_Subset
    <2> QED BY <2>1, <2>3
  <1>6. Kept(left)
    <2>1. Cardinality(DOMAIN left) <= MaxCacheSize
      BY <1>1, <1>3, <1>4, TimesAreNatural
    <2> QED BY <1>2, <2>1 DEF Kept
  <1> QED BY <1>4, <1>5, <1>6 DEF left

LEMMA EnrichResponseKeeps ==
    ASSUME MetadataInv, NEW e \in Enrichers, NEW batch \in SUBSET Enrichable,
           EnrichResponse(e, batch)
    PROVE  MetadataInv'
  <1> DEFINE wanted == batch \ DOMAIN Found(batch)
  <1>1. outer' = Found(batch) /\ Proceeds(e, wanted, <<>>) /\ UNCHANGED <<registered, inner>>
    BY DEF EnrichResponse
  <1>2. Kept(outer')
    BY <1>1, LessIsKept DEF Found, MetadataInv
  <1>3. wanted \in SUBSET Enrichable
    OBVIOUS
  <1> HIDE DEF wanted
  <1>4. AllHold'
    BY <1>1, <1>3, NothingIsKept, ProceedsKeeps DEF MetadataInv
  <1> QED BY <1>1, <1>2, <1>4 DEF MetadataInv, RegistryIsFresh, InnerIsFresh

\* A cache that is set an item that is not late keeps its size and its bounds.
LEMMA SetKeeps ==
    ASSUME NEW cache, Kept(cache), NEW k \in Enrichable, NEW item \in Items,
           item.age <= Lateness(item), NEW room \in RoomFor(cache, k)
    PROVE  Kept(With(room, k, [item |-> item, kept |-> 0]))
  <1> DEFINE entry == [item |-> item, kept |-> 0]
             new == With(room, k, entry)
             size == Cardinality(DOMAIN cache)
  <1>1. DOMAIN cache \in SUBSET Enrichable /\ size <= MaxCacheSize
    BY DEF Kept, KeepsIn
  <1>2. IsFiniteSet(DOMAIN cache) /\ size \in Nat
    BY <1>1, KeysCount
  <1>3. /\ Kept(room)
        /\ \/ k \in DOMAIN cache /\ room = cache
           \/ size < MaxCacheSize /\ room = cache
           \/ Cardinality(DOMAIN room) <= size - 1
    <2>1. CASE size >= MaxCacheSize /\ k \notin DOMAIN cache
      <3>1. PICK m \in Eldest(cache) : room = Without(cache, {m})
        BY <2>1 DEF RoomFor
      <3>2. m \in DOMAIN cache
        BY DEF Eldest
      <3> QED BY <3>1, <3>2, LessIsKept
    <2>2. CASE ~(size >= MaxCacheSize /\ k \notin DOMAIN cache)
      <3>1. room = cache
        BY <2>2 DEF RoomFor
      <3> QED BY <3>1, <2>2, <1>2, TimesAreNatural
    <2> QED BY <2>1, <2>2
  <1> HIDE DEF size
  <1>4. KeepsIn(room, KeptItems(0 .. OuterTTL + 1)) /\ DOMAIN room \in SUBSET Enrichable
          /\ Cardinality(DOMAIN room) <= MaxCacheSize
    BY <1>3 DEF Kept, KeepsIn
  <1>5. entry \in KeptItems(0 .. OuterTTL + 1) /\ entry.item = item /\ entry.kept = 0
    BY TimesAreNatural DEF KeptItems
  <1> HIDE DEF entry
  <1>6. /\ KeepsIn(new, KeptItems(0 .. OuterTTL + 1)) /\ DOMAIN new = DOMAIN room \cup {k}
        /\ new[k] = entry /\ \A x \in DOMAIN room : x # k => new[x] = room[x]
    BY <1>4, <1>5 DEF With, KeepsIn
  <1> HIDE DEF new
  <1>7. Cardinality(DOMAIN new) <= MaxCacheSize
    <2>1. IsFiniteSet(DOMAIN room) /\ Cardinality(DOMAIN room) \in Nat
      BY <1>4, KeysCount
    <2>2. CASE k \in DOMAIN room
      <3>1. DOMAIN new = DOMAIN room
        BY <2>2, <1>6
      <3> QED BY <3>1, <1>4
    <2>3. CASE k \notin DOMAIN room
      <3>1. Cardinality(DOMAIN new) = Cardinality(DOMAIN room) + 1
        BY <2>1, <2>3, <1>6, FS_AddElement
      <3>2. Cardinality(DOMAIN room) < MaxCacheSize
        <4>1. k \in DOMAIN cache /\ room = cache => FALSE
          BY <2>3
        <4>2. size < MaxCacheSize /\ room = cache => Cardinality(DOMAIN room) < MaxCacheSize
          BY DEF size
        <4>3. Cardinality(DOMAIN room) <= size - 1 => Cardinality(DOMAIN room) < MaxCacheSize
          <5>1. size <= MaxCacheSize /\ size \in Nat
            BY <1>1, <1>2
          <5> QED BY <5>1, <2>1, TimesAreNatural
        <4> QED BY <1>3, <4>1, <4>2, <4>3
      <3> QED BY <3>1, <3>2, <2>1, TimesAreNatural
    <2> QED BY <2>2, <2>3
  <1>8. ASSUME NEW x \in DOMAIN new, new[x].kept <= OuterTTL
        PROVE  new[x].item.age <= Lateness(new[x].item) + new[x].kept
    <2>1. CASE x = k
      <3>1. item.age \in Nat /\ Reach(item) \in Nat
        BY ItemIs
      <3>2. Lateness(item) \in Int
        <4>1. TimeFor(Cardinality(Enrichable) - 1) \in Int
          BY TimeAdds, TimesAreNatural
        <4> QED BY <3>1, <4>1 DEF Lateness
      <3>3. item.age <= Lateness(item) + 0
        BY <3>1, <3>2
      <3> QED BY <2>1, <3>3, <1>5, <1>6
    <2>2. CASE x # k
      <3>1. x \in DOMAIN room /\ new[x] = room[x]
        BY <2>2, <1>6
      <3> QED BY <3>1, <1>3, <1>8 DEF Kept
    <2> QED BY <2>1, <2>2
  <1>9. Kept(new)
    BY <1>6, <1>7, <1>8 DEF Kept
  <1> QED BY <1>9 DEF new, entry

LEMMA SetsFetchedKeeps ==
    ASSUME MetadataInv, NEW e \in Enrichers, NEW k \in Enrichable, SetsFetched(e, k)
    PROVE  MetadataInv'
  <1> DEFINE got == fetched[e]
             left == Without(got, {k})
             n == Cardinality(Enrichable) - 1
  <1>1. /\ enricher[e].at = "running" /\ enricher[e].wanted = {} /\ k \in DOMAIN got
        /\ Proceeds(e, {}, left) /\ UNCHANGED <<registered, inner>>
    BY DEF SetsFetched
  <1>2. PICK room \in RoomFor(outer, k) : outer' = With(room, k, [item |-> got[k], kept |-> 0])
    BY DEF SetsFetched
  <1>3. Holds(enricher[e], got) /\ AllHold /\ Kept(outer)
    BY DEF MetadataInv, AllHold
  <1> HIDE DEF got
  <1>4. enricher[e].waited = 0
    BY <1>1, <1>3 DEF Holds
  <1>5. Cardinality(enricher[e].wanted) = 0
    BY <1>1, FS_EmptySet
  <1>6. Cardinality(Enrichable) - 1 - 0 = n /\ n \in Int /\ TimeFor(n) \in Int /\ TimeFor(n) + 0 = TimeFor(n)
    BY TimesAreNatural, TimeAdds
  <1> HIDE DEF n
  <1>7. /\ KeepsIn(got, Items) /\ \A x \in DOMAIN got : got[x] \in Items
        /\ \A x \in DOMAIN got : got[x].age <= Reach(got[x]) + TimeFor(n)
    <2>1. \A x \in DOMAIN got :
              got[x].age <= Reach(got[x])
                 + (TimeFor(Cardinality(Enrichable) - 1 - Cardinality(enricher[e].wanted)) + enricher[e].waited)
      BY <1>3, HoldsIs
    <2>2. TimeFor(Cardinality(Enrichable) - 1 - Cardinality(enricher[e].wanted)) + enricher[e].waited
            = TimeFor(n)
      BY <1>4, <1>5, <1>6
    <2>3. KeepsIn(got, Items) /\ \A x \in DOMAIN got : got[x] \in Items
      BY <1>3, HoldsIs
    <2> QED BY <2>1, <2>2, <2>3
  <1>8. got[k].age <= Lateness(got[k])
    BY <1>1, <1>7 DEF Lateness, n
  <1>9. Kept(outer')
    BY <1>1, <1>2, <1>3, <1>7, <1>8, SetKeeps
  <1>10. /\ KeepsIn(left, Items) /\ \A x \in DOMAIN left : x \in DOMAIN got /\ left[x] = got[x]
    BY <1>7, WithoutKeeps
  <1> HIDE DEF left
  <1>11. AllHold'
    <2>1. \A x \in DOMAIN left :
              left[x].age <= Reach(left[x]) + TimeFor(Cardinality(Enrichable) - 1 - Cardinality({}))
      <3>1. Cardinality(Enrichable) - 1 - Cardinality({}) = n
        BY <1>6, FS_EmptySet DEF n
      <3> QED BY <3>1, <1>7, <1>10
    <2> QED BY <2>1, <1>1, <1>3, <1>10, ProceedsKeeps
  <1> QED BY <1>1, <1>9, <1>11 DEF MetadataInv, RegistryIsFresh, InnerIsFresh

LEMMA MetadataInitially == MetadataInit => MetadataInv
  <1> SUFFICES ASSUME MetadataInit PROVE MetadataInv
    OBVIOUS
  <1>1. registered = <<>> /\ inner = <<>> /\ outer = <<>> /\ DOMAIN <<>> = {}
    BY NothingIsKept DEF MetadataInit
  <1>2. RegistryIsFresh
    BY <1>1, NothingIsKept DEF RegistryIsFresh
  <1>3. InnerIsFresh
    BY <1>1, NothingIsKept DEF InnerIsFresh
  <1>4. Kept(outer)
    BY <1>1, NothingIsKept, FS_EmptySet, TimesAreNatural DEF Kept
  <1>5. AllHold
    <2>1. Holds(NoRequest, <<>>)
      <3>1. NoRequest \in Requests /\ NoRequest.asked = {} /\ NoRequest.wanted = {}
              /\ NoRequest.waited = 0
        BY TimesAreNatural DEF Requests, NoRequest
      <3> QED BY <3>1, NothingIsKept DEF Holds
    <2> QED BY <2>1 DEF AllHold, MetadataInit
  <1> QED BY <1>2, <1>3, <1>4, <1>5 DEF MetadataInv

LEMMA ClearMetadataKeeps == ASSUME MetadataInv, ClearMetadata PROVE MetadataInv'
  <1>1. outer' = <<>> /\ UNCHANGED <<registered, inner, enricher, fetched>>
    BY DEF ClearMetadata
  <1>2. Kept(<<>>)
    BY NothingIsKept, FS_EmptySet, TimesAreNatural DEF Kept
  <1> QED BY <1>1, <1>2 DEF MetadataInv, RegistryIsFresh, InnerIsFresh, AllHold

\* A second makes an item a second older, or leaves it too old.
LEMMA OlderItemIs ==
    ASSUME NEW item \in Items
    PROVE  /\ OlderItem(item) \in Items /\ OlderItem(item).what = item.what
           /\ item.age \in Nat /\ OlderItem(item).age \in Nat /\ OlderItem(item).age <= item.age + 1
           /\ Reach(OlderItem(item)) = Reach(item) /\ Reach(item) \in Nat
           /\ Lateness(OlderItem(item)) = Lateness(item)
  <1> DEFINE age == IF item.age <= Oldest THEN item.age + 1 ELSE item.age
  <1>1. /\ item.age \in 0 .. Oldest + 1 /\ item.what \in {"metadata", "unknown", "failed"}
        /\ item = [what |-> item.what, age |-> item.age] /\ Reach(item) \in Nat
    BY ItemIs DEF Items
  <1>2. OlderItem(item) = [what |-> item.what, age |-> age]
    BY <1>1 DEF OlderItem
  <1>3. age \in 0 .. Oldest + 1 /\ age <= item.age + 1 /\ age \in Nat /\ item.age \in Nat
    BY <1>1, OldestIs
  <1> HIDE DEF age
  <1>4. OlderItem(item) \in Items /\ OlderItem(item).what = item.what /\ OlderItem(item).age = age
    BY <1>1, <1>2, <1>3 DEF Items
  <1>5. Reach(OlderItem(item)) = Reach(item)
    BY <1>4 DEF Reach
  <1> QED BY <1>1, <1>3, <1>4, <1>5 DEF Lateness

\* What a client keeps gets older with the time it is kept, and is gone when that is over.
LEMMA OlderThanKeeps ==
    ASSUME NEW cache, NEW ttl \in Nat \ {0}, NEW base \in Nat,
           KeepsIn(cache, KeptItems(0 .. ttl - 1)),
           \A k \in DOMAIN cache : cache[k].item.age <= base + cache[k].kept
    PROVE  /\ KeepsIn(OlderThan(cache, ttl), KeptItems(0 .. ttl - 1))
           /\ \A k \in DOMAIN OlderThan(cache, ttl) :
                 /\ k \in DOMAIN cache
                 /\ OlderThan(cache, ttl)[k].item.what = cache[k].item.what
                 /\ OlderThan(cache, ttl)[k].item.age <= base + OlderThan(cache, ttl)[k].kept
  <1> DEFINE left == {i \in DOMAIN cache : cache[i].kept + 1 < ttl}
             new == OlderThan(cache, ttl)
  <1>1. new = [k \in left |-> OlderEntry(cache[k])]
    BY DEF OlderThan
  <1>2. DOMAIN new = left /\ left \subseteq DOMAIN cache /\ DOMAIN cache \subseteq Enrichable
    BY <1>1 DEF KeepsIn
  <1>3. ASSUME NEW k \in left
        PROVE  /\ new[k] \in KeptItems(0 .. ttl - 1) /\ new[k].item.what = cache[k].item.what
               /\ new[k].item.age <= base + new[k].kept
    <2> DEFINE old == cache[k].item
               kept == cache[k].kept
               item == OlderItem(old)
    <2>1. cache[k] \in KeptItems(0 .. ttl - 1) /\ old.age <= base + kept /\ kept + 1 < ttl
      BY <1>2 DEF KeepsIn
    <2>2. old \in Items /\ kept \in 0 .. ttl - 1
      BY <2>1 DEF KeptItems
    <2>3. item \in Items /\ item.what = old.what /\ old.age \in Nat /\ item.age \in Nat
            /\ item.age <= old.age + 1
      BY <2>2, OlderItemIs
    <2>4. new[k] = [item |-> item, kept |-> kept + 1]
      BY <1>1 DEF OlderEntry
    <2> HIDE DEF old, kept, item, new, left
    <2>5. kept \in Nat
      BY <2>2
    <2>6. kept + 1 \in 0 .. ttl - 1
      BY <2>1, <2>5
    <2>7. \A a, b \in Nat : b <= a + 1 /\ a <= base + kept => b <= base + (kept + 1)
      BY <2>5
    <2>8. kept + 1 \in 0 .. ttl - 1 /\ item.age <= base + (kept + 1)
      BY <2>1, <2>3, <2>6, <2>7
    <2>9. new[k] \in KeptItems(0 .. ttl - 1) /\ new[k].item = item /\ new[k].kept = kept + 1
      BY <2>3, <2>4, <2>8 DEF KeptItems
    <2> QED BY <2>3, <2>8, <2>9 DEF old
  <1>4. new \in [left -> KeptItems(0 .. ttl - 1)]
    BY <1>1, <1>3
  <1> HIDE DEF new, left
  <1>5. KeepsIn(new, KeptItems(0 .. ttl - 1))
    BY <1>2, <1>4 DEF KeepsIn
  <1> QED BY <1>2, <1>3, <1>5 DEF new

LEMMA TickKeepsClients ==
    ASSUME MetadataInv, MetadataTick PROVE RegistryIsFresh' /\ InnerIsFresh'
  <1>1. registered' = OlderThan(registered, RegistryTTL) /\ inner' = OlderThan(inner, InnerTTL)
    BY DEF MetadataTick
  <1>2. RegistryIsFresh'
    <2>1. /\ KeepsIn(registered, KeptItems(0 .. RegistryTTL - 1))
          /\ \A k \in DOMAIN registered : registered[k].item.age <= RegistryTime + registered[k].kept
          /\ \A k \in DOMAIN registered : registered[k].item.what # "failed"
      BY DEF MetadataInv, RegistryIsFresh
    <2>2. RegistryTTL \in Nat \ {0} /\ RegistryTime \in Nat
      BY TimesAreNatural
    <2>3. /\ KeepsIn(registered', KeptItems(0 .. RegistryTTL - 1))
          /\ \A k \in DOMAIN registered' :
                /\ k \in DOMAIN registered /\ registered'[k].item.what = registered[k].item.what
                /\ registered'[k].item.age <= RegistryTime + registered'[k].kept
      BY <1>1, <2>1, <2>2, OlderThanKeeps
    <2> QED BY <2>1, <2>3 DEF RegistryIsFresh
  <1>3. InnerIsFresh'
    <2> DEFINE base == RegistryTime + RegistryTTL
    <2>1. /\ KeepsIn(inner, KeptItems(0 .. InnerTTL - 1))
          /\ \A k \in DOMAIN inner : inner[k].item.age <= base + inner[k].kept
          /\ \A k \in DOMAIN inner : inner[k].item.what = "metadata"
      BY DEF MetadataInv, InnerIsFresh
    <2>2. InnerTTL \in Nat \ {0} /\ base \in Nat
      BY TimesAreNatural
    <2> HIDE DEF base
    <2>3. /\ KeepsIn(inner', KeptItems(0 .. InnerTTL - 1))
          /\ \A k \in DOMAIN inner' :
                /\ k \in DOMAIN inner /\ inner'[k].item.what = inner[k].item.what
                /\ inner'[k].item.age <= base + inner'[k].kept
      BY <1>1, <2>1, <2>2, OlderThanKeeps
    <2> QED BY <2>1, <2>3 DEF InnerIsFresh, base
  <1> QED BY <1>2, <1>3

LEMMA TickKeepsOuter == ASSUME Kept(outer), MetadataTick PROVE Kept(outer')
  <1>1. outer' = [k \in DOMAIN outer |-> IF outer[k].kept <= OuterTTL THEN OlderEntry(outer[k]) ELSE outer[k]]
    BY DEF MetadataTick
  <1>2. /\ DOMAIN outer \subseteq Enrichable /\ Cardinality(DOMAIN outer) <= MaxCacheSize
        /\ \A k \in DOMAIN outer :
              /\ outer[k] \in KeptItems(0 .. OuterTTL + 1)
              /\ outer[k].kept <= OuterTTL =>
                    outer[k].item.age <= Lateness(outer[k].item) + outer[k].kept
    BY DEF Kept, KeepsIn
  <1>3. DOMAIN outer' = DOMAIN outer
    BY <1>1
  <1>4. ASSUME NEW k \in DOMAIN outer
        PROVE  /\ outer'[k] \in KeptItems(0 .. OuterTTL + 1)
               /\ outer'[k].kept <= OuterTTL =>
                     outer'[k].item.age <= Lateness(outer'[k].item) + outer'[k].kept
    <2>1. CASE outer[k].kept <= OuterTTL
      <3> DEFINE old == outer[k]
                 item == OlderItem(outer[k].item)
      <3>1. old.item \in Items /\ old.kept \in 0 .. OuterTTL + 1 /\ old.kept <= OuterTTL
              /\ old.item.age <= Lateness(old.item) + old.kept
        BY <1>2, <2>1 DEF KeptItems
      <3>2. item \in Items /\ old.item.age \in Nat /\ Reach(old.item) \in Nat
              /\ item.age \in Nat /\ item.age <= old.item.age + 1
              /\ Lateness(item) = Lateness(old.item)
        BY <3>1, OlderItemIs
      <3>3. outer'[k] = [item |-> item, kept |-> old.kept + 1]
        BY <1>1, <2>1 DEF OlderEntry
      <3> HIDE DEF old, item
      <3>4. Lateness(old.item) \in Int
        BY <3>2, TimeAdds, TimesAreNatural DEF Lateness
      <3>5. old.kept + 1 \in 0 .. OuterTTL + 1 /\ item.age <= Lateness(item) + (old.kept + 1)
        BY <3>1, <3>2, <3>4, TimesAreNatural
      <3> QED BY <3>2, <3>3, <3>5 DEF KeptItems
    <2>2. CASE ~(outer[k].kept <= OuterTTL)
      <3>1. outer'[k] = outer[k]
        BY <1>1, <2>2
      <3> QED BY <3>1, <1>2
    <2> QED BY <2>1, <2>2
  <1>5. outer' \in [DOMAIN outer' -> KeptItems(0 .. OuterTTL + 1)]
    BY <1>1, <1>3, <1>4
  <1> QED BY <1>2, <1>3, <1>4, <1>5 DEF Kept, KeepsIn

LEMMA TickKeepsRequests == ASSUME AllHold, MetadataTick PROVE AllHold'
  <1>1. /\ \A e \in Enrichers : enricher[e].at # "running" /\ enricher[e].waited < RegistryTime
        /\ enricher' = [e \in Enrichers |-> IF enricher[e].at = "idle" THEN enricher[e]
                                            ELSE [enricher[e] EXCEPT !.waited = @ + 1]]
        /\ fetched' = [e \in Enrichers |-> [k \in DOMAIN fetched[e] |-> OlderItem(fetched[e][k])]]
    BY DEF MetadataTick, NobodyRuns
  <1>2. ASSUME NEW e \in Enrichers PROVE Holds(enricher'[e], fetched'[e])
    <2> DEFINE r == enricher[e]
               s == enricher'[e]
               got == fetched[e]
               more == fetched'[e]
               time == TimeFor(Cardinality(Enrichable) - 1 - Cardinality(r.wanted))
    <2>1. Holds(r, got) /\ r \in Requests /\ r.at # "running" /\ r.waited < RegistryTime
            /\ (r.at = "idle" => DOMAIN got = {})
      BY <1>1 DEF AllHold, Holds
    <2>2. s = (IF r.at = "idle" THEN r ELSE [r EXCEPT !.waited = @ + 1])
            /\ more = [k \in DOMAIN got |-> OlderItem(got[k])]
      BY <1>1
    <2> HIDE DEF r, s, got, more
    <2>3. /\ KeepsIn(got, Items) /\ r.asked \subseteq r.wanted /\ DOMAIN got \cap r.wanted = {}
          /\ r.wanted \in SUBSET Enrichable /\ r.waited \in 0 .. RegistryTime
          /\ \A k \in DOMAIN got : got[k] \in Items /\ got[k].age <= Reach(got[k]) + (time + r.waited)
      BY <2>1, HoldsIs
    <2>4. time \in Int
      BY <2>3, KeysCount, TimeAdds, TimesAreNatural
    <2>5. /\ s \in Requests /\ s.at = r.at /\ s.wanted = r.wanted /\ s.asked = r.asked
          /\ s.waited = IF r.at = "idle" THEN r.waited ELSE r.waited + 1
      <3>1. CASE r.at = "idle"
        BY <3>1, <2>1, <2>2
      <3>2. CASE r.at # "idle"
        <4>1. s = [at |-> r.at, wanted |-> r.wanted, asked |-> r.asked, waited |-> r.waited + 1]
          BY <3>2, <2>1, <2>2 DEF Requests
        <4>2. r.waited + 1 \in 0 .. RegistryTime
          BY <2>1, <2>3, TimesAreNatural
        <4> QED BY <3>2, <4>1, <4>2, <2>1 DEF Requests
      <3> QED BY <3>1, <3>2
    <2>6. DOMAIN more = DOMAIN got /\ \A k \in DOMAIN got : more[k] = OlderItem(got[k])
      BY <2>2
    <2>7. KeepsIn(more, Items)
      BY <2>2, <2>3, <2>6, OlderItemIs DEF KeepsIn
    <2>8. Since(s) = time + s.waited
      BY <2>5 DEF Since
    <2> HIDE DEF time
    <2>9. ASSUME NEW k \in DOMAIN more PROVE more[k].age <= Reach(more[k]) + Since(s)
      <3> DEFINE item == got[k]
                 old == OlderItem(item)
      <3>1. r.at # "idle" /\ s.waited = r.waited + 1
        BY <2>1, <2>5, <2>6
      <3>2. item \in Items /\ item.age <= Reach(item) + (time + r.waited)
        BY <2>3, <2>6
      <3>3. item.age \in Nat /\ old.age \in Nat /\ old.age <= item.age + 1
              /\ Reach(old) = Reach(item) /\ Reach(item) \in Nat
        BY <3>2, OlderItemIs
      <3>4. more[k] = old
        BY <2>6
      <3> HIDE DEF item, old
      <3>5. old.age <= Reach(old) + (time + (r.waited + 1))
        BY <3>2, <3>3, <2>3, <2>4
      <3> QED BY <3>1, <3>4, <3>5, <2>8
    <2>10. s.at # "running"
      BY <2>1, <2>5
    <2>11. Holds(s, more)
      BY <2>1, <2>3, <2>5, <2>6, <2>7, <2>9, <2>10 DEF Holds
    <2> QED BY <2>11 DEF s, more
  <1>3. DOMAIN enricher' = Enrichers /\ enricher' = [e \in Enrichers |-> enricher'[e]]
          /\ DOMAIN fetched' = Enrichers
    BY <1>1
  <1> QED BY <1>2, <1>3 DEF AllHold

LEMMA MetadataInvIsInductive ==
    /\ MetadataInit => MetadataInv
    /\ MetadataInv /\ [MetadataNext]_metadataVars => MetadataInv'
  <1>1. ASSUME MetadataInv, MetadataTick PROVE MetadataInv'
    BY <1>1, TickKeepsClients, TickKeepsOuter, TickKeepsRequests DEF MetadataInv
  <1>2. ASSUME MetadataInv, UNCHANGED metadataVars PROVE MetadataInv'
    BY <1>2 DEF metadataVars, MetadataInv, RegistryIsFresh, InnerIsFresh, AllHold, Kept
  <1>3. ASSUME MetadataInv, MetadataNext PROVE MetadataInv'
    BY <1>1, <1>3, EnrichResponseKeeps, InnerKnowsKeeps, RegistryKnowsKeeps, AsksRegistryKeeps,
       RegistryAnswersKeeps, RegistryFailsKeeps, SetsFetchedKeeps, ClearMetadataKeeps
       DEF MetadataNext
  <1> QED BY <1>2, <1>3, MetadataInitially

\* What is kept within its time is late by what the caches and the waits add at most.
LEMMA InvBoundsGiven == MetadataInv => StaleMetadataIsBounded /\ StandInIsShort
  <1> SUFFICES ASSUME MetadataInv, NEW k \in DOMAIN outer, outer[k].kept <= OuterTTL
               PROVE  /\ outer[k].item.what # "failed" => outer[k].item.age <= Oldest
                      /\ outer[k].item.what = "failed" =>
                            outer[k].item.age <= OuterTTL + (Cardinality(Enrichable) - 1) * RegistryTime
    BY DEF StaleMetadataIsBounded, StandInIsShort, Given
  <1> DEFINE item == outer[k].item
             kept == outer[k].kept
             n == Cardinality(Enrichable) - 1
  <1>1. /\ item \in Items /\ kept \in 0 .. OuterTTL + 1 /\ kept <= OuterTTL
        /\ item.age <= Lateness(item) + kept
    BY DEF MetadataInv, Kept, KeepsIn, KeptItems
  <1>2. item.age \in Nat /\ Reach(item) \in Nat
          /\ (item.what # "failed" => Reach(item) = RegistryTTL + InnerTTL + RegistryTime)
          /\ (item.what = "failed" => Reach(item) = 0)
    BY <1>1, ItemIs
  <1>3. Lateness(item) = Reach(item) + TimeFor(n)
    BY DEF Lateness
  <1>4. /\ TimeFor(n) \in Int /\ Oldest = RegistryTTL + InnerTTL + OuterTTL + (TimeFor(n) + RegistryTime)
        /\ TimeFor(n) = (Cardinality(Enrichable) - 1) * RegistryTime
    <2>1. n \in Int /\ n + 1 = Cardinality(Enrichable)
      BY TimesAreNatural
    <2>2. TimeFor(n) \in Int /\ TimeFor(n + 1) = TimeFor(n) + RegistryTime
      BY <2>1, TimeAdds
    <2>3. Oldest = RegistryTTL + InnerTTL + OuterTTL + TimeFor(n + 1)
      BY <2>1, OldestIs
    <2>4. TimeFor(n) = (Cardinality(Enrichable) - 1) * RegistryTime
      BY DEF TimeFor
    <2> HIDE DEF n
    <2> QED BY <2>2, <2>3, <2>4
  <1> HIDE DEF item, kept, n
  <1>5. item.what # "failed" => item.age <= Oldest
    BY <1>1, <1>2, <1>3, <1>4, TimesAreNatural
  <1>6. item.what = "failed" => item.age <= OuterTTL + TimeFor(n)
    BY <1>1, <1>2, <1>3, <1>4, TimesAreNatural
  <1> QED BY <1>4, <1>5, <1>6 DEF item

LEMMA InvIsTyped == MetadataInv => MetadataTypeOK
  BY DEF MetadataInv, MetadataTypeOK, RegistryIsFresh, InnerIsFresh, Kept, AllHold, Holds

\* Whatever requests, failures and clearings interleave, no response is given what the
\* registry said longer ago than the three caches and the waits of a batch allow, no stand-in
\* longer than the outer cache and the waits of the others, and the outer cache keeps its size.
THEOREM MetadataKeepsItsPromise == MetadataSpec => []MetadataPromise
  <1>1. MetadataInv => MetadataPromise
    BY InvBoundsGiven, InvIsTyped DEF MetadataPromise, MetadataInv, Kept, CacheInBounds
  <1> QED BY <1>1, MetadataInvIsInductive, PTL DEF MetadataSpec
-------------------------------------------------------------------------------
(* The positions of a strategy.                                                *)

HIDE MetadataAssumption DEF MetadataAssumption
USE StrategyAssumption DEF StrategyAssumption

Listing == [instrument : Traded, quantity : 0 .. 1]

\* Requests past the check of the limits, and what those still add to the list.
Ordering == {o \in Openers : opener[o].at = "order"}
RoomIsLeft ==
    /\ Len(positions) + Cardinality(Ordering) < MaxPositions + Cardinality(Openers)
    /\ Exposure + Cardinality(Ordering) < SectorLimit + Cardinality(Openers)

\* An order is for a listed position; one for nothing was made when nothing was left.
FitsIn(list, sale) ==
    /\ sale.entry \in 1 .. Len(list)
    /\ sale.quantity = 0 => list[sale.entry].quantity = 0
OrdersFit ==
    /\ \A c \in Closers : closer[c] # NoOrder => FitsIn(positions, closer[c])
    /\ \A s \in Stoppers : stopper[s].order # NoOrder => FitsIn(positions, stopper[s].order)

\* What is sold of a closed position was ordered while it was open, by requests that have
\* no such order any more.
Selling(k) == {c \in Closers : closer[c] = [entry |-> k, quantity |-> 1]}
StopsSelling(k) == {s \in Stoppers : stopper[s].order = [entry |-> k, quantity |-> 1]}
Sales(k) == Cardinality(Selling(k)) + Cardinality(StopsSelling(k))
SoldOnce ==
    \A k \in 1 .. Len(positions) :
        /\ positions[k].quantity # 0 => sold[k] = 0
        /\ positions[k].quantity = 0 =>
              /\ sold[k] > 0
              /\ sold[k] + Sales(k) <= Cardinality(Closers) + Cardinality(Stoppers)

\* A stop has closed the first positions of the instruments it has passed, and is about to
\* close the first one of the instrument it is at.
FirstIn(list, k) == \A m \in 1 .. k - 1 : list[m].instrument # list[k].instrument
ClosedBefore(list, k) == \A m \in 1 .. k - 1 : FirstIn(list, m) => list[m].quantity = 0
BehindIn(list, stop) ==
    /\ stop.index \in 1 .. Len(list)
    /\ stop.order.entry \in 1 .. stop.index
    /\ FirstIn(list, stop.order.entry)
    /\ list[stop.order.entry].instrument = list[stop.index].instrument
    /\ ClosedBefore(list, stop.index)
StopsClose == \A s \in Stoppers : stopper[s].index # 0 => BehindIn(positions, stopper[s])

StrategyInv == StrategyTypeOK /\ RoomIsLeft /\ OrdersFit /\ SoldOnce /\ StopsClose

\* Sets of requests are counted.
LEMMA RequestsCount ==
    ASSUME NEW A, IsFiniteSet(A), NEW B \in SUBSET A
    PROVE  /\ IsFiniteSet(B) /\ Cardinality(A) \in Nat /\ Cardinality(B) \in Nat
           /\ Cardinality(B) <= Cardinality(A)
           /\ \A x \in A : x \notin B => Cardinality(B) + 1 <= Cardinality(A)
  <1>1. /\ IsFiniteSet(B) /\ Cardinality(A) \in Nat /\ Cardinality(B) \in Nat
        /\ Cardinality(B) <= Cardinality(A)
    BY FS_Subset, FS_CardinalityType
  <1>2. ASSUME NEW x \in A, x \notin B PROVE Cardinality(B) + 1 <= Cardinality(A)
    <2>1. Cardinality(B \cup {x}) = Cardinality(B) + 1
      BY <1>1, <1>2, FS_AddElement
    <2>2. Cardinality(B \cup {x}) <= Cardinality(A)
      BY <1>2, FS_Subset
    <2> QED BY <2>1, <2>2
  <1> QED BY <1>1, <1>2

LEMMA NumbersAre ==
    /\ MaxPositions \in Nat \ {0} /\ SectorLimit \in Nat \ {0}
    /\ Cardinality(Openers) \in Nat \ {0} /\ Cardinality(Closers) \in Nat \ {0}
    /\ Cardinality(Stoppers) \in Nat \ {0}
    /\ IsFiniteSet(Openers) /\ IsFiniteSet(Closers) /\ IsFiniteSet(Stoppers)
  BY FS_CardinalityType, FS_EmptySet

LEMMA LeastIs ==
    ASSUME NEW S \in SUBSET Nat, S # {}
    PROVE  \E m \in S : \A n \in S : m <= n
  <1> DEFINE lt == OpToRel(<, Nat)
  <1>1. IsWellFoundedOn(lt, Nat)
    BY NatLessThanWellFounded
  <1>2. \A x, y \in Nat : x < y => <<x, y>> \in lt
    BY DEF OpToRel
  <1> HIDE DEF lt
  <1>3. PICK m \in S : \A n \in S : ~(<<n, m>> \in lt)
    BY <1>1, WFMin
  <1>4. \A n \in S : ~(n < m)
    BY <1>2, <1>3
  <1> QED BY <1>3, <1>4

\* The first position of an instrument.
LEMMA FirstIs ==
    ASSUME positions \in Seq(Listing), NEW k \in 1 .. Len(positions)
    PROVE  LET f == First(positions[k].instrument)
           IN  /\ f \in 1 .. k /\ FirstIn(positions, f)
               /\ positions[f].instrument = positions[k].instrument
  <1> DEFINE i == positions[k].instrument
             f == First(i)
  <1>1. DOMAIN positions = 1 .. Len(positions) /\ Len(positions) \in Nat
    OBVIOUS
  <1>2. Held(i) \in SUBSET Nat /\ k \in Held(i)
    BY <1>1 DEF Held
  <1>3. \E m \in Held(i) : \A n \in Held(i) : m <= n
    BY <1>2, LeastIs
  <1>4. f \in Held(i) /\ \A n \in Held(i) : f <= n
    BY <1>3 DEF First
  <1> HIDE DEF f
  <1>5. f \in 1 .. Len(positions) /\ positions[f].instrument = i /\ f <= k
    BY <1>1, <1>2, <1>4 DEF Held
  <1>6. FirstIn(positions, f)
    <2> SUFFICES ASSUME NEW m \in 1 .. f - 1 PROVE positions[m].instrument # positions[f].instrument
      BY DEF FirstIn
    <2>1. m \in 1 .. Len(positions) /\ ~(f <= m)
      BY <1>5
    <2>2. m \notin Held(i)
      BY <2>1, <1>4
    <2> QED BY <2>1, <2>2, <1>1, <1>5 DEF Held
  <1> QED BY <1>5, <1>6 DEF f

\* A list that has grown, or in which positions were closed.
Grown(old, new) ==
    /\ Len(old) <= Len(new)
    /\ \A k \in 1 .. Len(old) :
          /\ new[k].instrument = old[k].instrument
          /\ old[k].quantity = 0 => new[k].quantity = 0

LEMMA GrownKeeps ==
    ASSUME NEW old \in Seq(Listing), NEW new \in Seq(Listing), Grown(old, new)
    PROVE  /\ \A sale : FitsIn(old, sale) => FitsIn(new, sale)
           /\ \A stop : BehindIn(old, stop) => BehindIn(new, stop)
  <1>1. Len(old) \in Nat /\ Len(new) \in Nat /\ Len(old) <= Len(new)
    BY DEF Grown
  <1>2. \A k \in 1 .. Len(old) : k \in 1 .. Len(new) /\ new[k].instrument = old[k].instrument
                                  /\ (old[k].quantity = 0 => new[k].quantity = 0)
    BY <1>1 DEF Grown
  <1>3. \A k \in 1 .. Len(old) : FirstIn(old, k) <=> FirstIn(new, k)
    <2> SUFFICES ASSUME NEW k \in 1 .. Len(old) PROVE FirstIn(old, k) <=> FirstIn(new, k)
      OBVIOUS
    <2>1. \A m \in 1 .. k - 1 : m \in 1 .. Len(old)
      BY <1>1
    <2> QED BY <1>2, <2>1 DEF FirstIn
  <1>4. ASSUME NEW sale, FitsIn(old, sale) PROVE FitsIn(new, sale)
    BY <1>2, <1>4 DEF FitsIn
  <1>5. ASSUME NEW stop, BehindIn(old, stop) PROVE BehindIn(new, stop)
    <2> DEFINE n == stop.index
               f == stop.order.entry
    <2>1. n \in 1 .. Len(old) /\ f \in 1 .. n /\ FirstIn(old, f)
            /\ old[f].instrument = old[n].instrument /\ ClosedBefore(old, n)
      BY <1>5 DEF BehindIn
    <2> HIDE DEF n, f
    <2>2. f \in 1 .. Len(old) /\ \A m \in 1 .. n - 1 : m \in 1 .. Len(old)
      BY <1>1, <2>1
    <2>3. ClosedBefore(new, n)
      BY <1>2, <1>3, <2>1, <2>2 DEF ClosedBefore
    <2>4. n \in 1 .. Len(new) /\ FirstIn(new, f) /\ new[f].instrument = new[n].instrument
      BY <1>2, <1>3, <2>1, <2>2
    <2> QED BY <2>1, <2>3, <2>4 DEF BehindIn, n, f
  <1> QED BY <1>4, <1>5

\* Closing a position leaves the list and the other positions as they are.
LEMMA FilledIs ==
    ASSUME positions \in Seq(Listing), NEW sale, sale.entry \in 1 .. Len(positions)
    PROVE  /\ Filled(sale) \in Seq(Listing) /\ Len(Filled(sale)) = Len(positions)
           /\ Filled(sale)[sale.entry].quantity = 0
           /\ \A k \in 1 .. Len(positions) : k # sale.entry => Filled(sale)[k] = positions[k]
           /\ Grown(positions, Filled(sale))
  <1> DEFINE e == sale.entry
             left == [positions[e] EXCEPT !.quantity = 0]
  <1>1. Filled(sale) = [positions EXCEPT ![e] = left]
    BY DEF Filled
  <1>2. positions[e] \in Listing /\ \A k \in 1 .. Len(positions) : positions[k] \in Listing
    OBVIOUS
  <1>3. left \in Listing /\ left.quantity = 0 /\ left.instrument = positions[e].instrument
    BY <1>2 DEF Listing
  <1> HIDE DEF left, e
  <1>4. e \in 1 .. Len(positions)
    BY DEF e
  <1> DEFINE new == [positions EXCEPT ![e] = left]
  <1>5. new \in Seq(Listing) /\ Len(new) = Len(positions)
          /\ \A k \in 1 .. Len(positions) : new[k] = IF k = e THEN left ELSE positions[k]
    <2> HIDE DEF Listing
    <2> QED BY <1>3, <1>4
  <1> HIDE DEF new
  <1>6. Grown(positions, new)
    BY <1>3, <1>5 DEF Grown
  <1>7. Filled(sale) = new
    BY <1>1 DEF new
  <1> QED BY <1>3, <1>4, <1>5, <1>6, <1>7 DEF e

LEMMA ExposureIs ==
    ASSUME NEW list \in Seq(Listing)
    PROVE  LET Open(l) == {k \in DOMAIN l : l[k].quantity # 0}
           IN  /\ IsFiniteSet(Open(list)) /\ Cardinality(Open(list)) \in Nat
               /\ \A new \in Seq(Listing) : Len(new) = Len(list) /\ Grown(list, new)
                     => Cardinality(Open(new)) <= Cardinality(Open(list))
  <1> DEFINE Open(l) == {k \in DOMAIN l : l[k].quantity # 0}
  <1>1. DOMAIN list = 1 .. Len(list) /\ Len(list) \in Nat
    OBVIOUS
  <1>2. IsFiniteSet(1 .. Len(list))
    BY <1>1, FS_Interval
  <1>3. Open(list) \in SUBSET (1 .. Len(list))
    BY <1>1
  <1>4. IsFiniteSet(Open(list)) /\ Cardinality(Open(list)) \in Nat
    <2> HIDE DEF Open
    <2> QED BY <1>2, <1>3, FS_Subset, FS_CardinalityType
  <1>5. ASSUME NEW new \in Seq(Listing), Len(new) = Len(list), Grown(list, new)
        PROVE  Cardinality(Open(new)) <= Cardinality(Open(list))
    <2>1. DOMAIN new = 1 .. Len(list)
      BY <1>5
    <2>2. Open(new) \subseteq Open(list)
      BY <1>1, <1>5, <2>1 DEF Grown
    <2> HIDE DEF Open
    <2> QED BY <1>4, <2>2, FS_Subset
  <1> QED BY <1>4, <1>5

LEMMA StrategyInitially == StrategyInit => StrategyInv
  <1> SUFFICES ASSUME StrategyInit PROVE StrategyInv
    OBVIOUS
  <1>1. (CHOOSE i \in Traded : TRUE) \in Traded
    OBVIOUS
  <1>2. positions = <<>> /\ Len(positions) = 0 /\ DOMAIN positions = {}
    BY DEF StrategyInit
  <1>3. NoOrder \in Orders /\ NoOrder.entry = 0
    BY DEF Orders, NoOrder
  <1>4. StrategyTypeOK
    <2>1. opener \in [Openers -> [at : {"idle", "metadata", "order"}, instrument : Traded]]
      BY <1>1 DEF StrategyInit
    <2>2. closer \in [Closers -> Orders]
            /\ stopper \in [Stoppers -> [index : {0} \cup Entries, order : Orders]]
            /\ \A s \in Stoppers : (stopper[s].index = 0) = (stopper[s].order = NoOrder)
      BY <1>3 DEF StrategyInit
    <2>3. positions \in Seq([instrument : Traded, quantity : 0 .. 1])
      BY <1>2
    <2> QED BY <2>1, <2>2, <2>3 DEF StrategyInit, StrategyTypeOK
  <1>5. Ordering = {} /\ {k \in DOMAIN positions : positions[k].quantity # 0} = {}
    BY <1>2 DEF StrategyInit, Ordering
  <1>6. Cardinality(Ordering) = 0 /\ Exposure = 0
    BY <1>5, FS_EmptySet DEF Exposure
  <1>7. RoomIsLeft
    BY <1>2, <1>6, NumbersAre DEF RoomIsLeft
  <1>8. OrdersFit /\ SoldOnce /\ StopsClose
    BY <1>2 DEF StrategyInit, OrdersFit, SoldOnce, StopsClose
  <1> QED BY <1>4, <1>7, <1>8 DEF StrategyInv

LEMMA OpenersKeep ==
    ASSUME StrategyInv, UNCHANGED <<positions, closer, stopper, sold>>,
           opener' \in [Openers -> [at : {"idle", "metadata", "order"}, instrument : Traded]],
           strategyStatus' \in {"inactive", "active"},
           \/ Ordering' \subseteq Ordering
           \/ RoomForPosition
    PROVE  StrategyInv'
  <1>1. StrategyTypeOK'
    BY DEF StrategyInv, StrategyTypeOK
  <1>2. OrdersFit' /\ SoldOnce' /\ StopsClose'
    BY DEF StrategyInv, OrdersFit, SoldOnce, Sales, Selling, StopsSelling, StopsClose
  <1>3. Exposure' = Exposure /\ Len(positions') = Len(positions)
    BY DEF Exposure
  <1>4. Exposure \in Nat /\ Len(positions) \in Nat
    <2>1. positions \in Seq(Listing)
      BY DEF StrategyInv, StrategyTypeOK, Listing
    <2>2. Len(positions) \in Nat
      BY <2>1
    <2> HIDE DEF Listing
    <2> QED BY <2>1, <2>2, ExposureIs DEF Exposure
  <1>5. Ordering' \in SUBSET Openers /\ Ordering \in SUBSET Openers
    BY DEF Ordering
  <1>6. /\ Cardinality(Ordering') \in Nat /\ Cardinality(Ordering) \in Nat
        /\ Cardinality(Ordering') <= Cardinality(Openers)
        /\ Ordering' \subseteq Ordering => Cardinality(Ordering') <= Cardinality(Ordering)
    <2>1. Cardinality(Ordering') \in Nat /\ Cardinality(Ordering) \in Nat
            /\ Cardinality(Ordering') <= Cardinality(Openers) /\ IsFiniteSet(Ordering)
      BY <1>5, RequestsCount, NumbersAre
    <2>2. ASSUME Ordering' \subseteq Ordering PROVE Cardinality(Ordering') <= Cardinality(Ordering)
      BY <2>1, <2>2, FS_Subset
    <2> QED BY <2>1, <2>2
  <1>7. RoomIsLeft'
    <2> DEFINE old == Cardinality(Ordering)
               new == Cardinality(Ordering')
               most == Cardinality(Openers)
               l == Len(positions)
               x == Exposure
    <2>1. l + old < MaxPositions + most /\ x + old < SectorLimit + most
      BY DEF StrategyInv, RoomIsLeft
    <2>2. old \in Nat /\ new \in Nat /\ most \in Nat /\ l \in Nat /\ x \in Nat /\ new <= most
      BY <1>4, <1>6, NumbersAre
    <2>3. new <= old \/ (l < MaxPositions /\ x + 1 <= SectorLimit)
      BY <1>6 DEF RoomForPosition
    <2> HIDE DEF old, new, most, l, x
    <2>4. l + new < MaxPositions + most /\ x + new < SectorLimit + most
      BY <2>1, <2>2, <2>3, NumbersAre
    <2> QED BY <2>4, <1>3 DEF RoomIsLeft, new, most, l, x
  <1> QED BY <1>1, <1>2, <1>7 DEF StrategyInv

LEMMA OpeningKeeps ==
    ASSUME StrategyInv, NEW o \in Openers,
           \/ StartStrategy
           \/ \E i \in Traded : OpenPosition(o, i)
           \/ CheckLimits(o) \/ OpeningFails(o)
    PROVE  StrategyInv'
  <1>1. opener \in [Openers -> [at : {"idle", "metadata", "order"}, instrument : Traded]]
          /\ strategyStatus \in {"inactive", "active"}
    BY DEF StrategyInv, StrategyTypeOK
  <1>2. CASE StartStrategy
    BY <1>1, <1>2, OpenersKeep DEF StartStrategy, Ordering
  <1>3. CASE \E i \in Traded : OpenPosition(o, i)
    <2>1. PICK i \in Traded : OpenPosition(o, i)
      BY <1>3
    <2>2. UNCHANGED <<strategyStatus, positions, closer, stopper, sold>>
            /\ opener' = [opener EXCEPT ![o] = [at |-> "metadata", instrument |-> i]]
      BY <2>1 DEF OpenPosition
    <2>3. opener' \in [Openers -> [at : {"idle", "metadata", "order"}, instrument : Traded]]
            /\ Ordering' \subseteq Ordering
      BY <1>1, <2>2 DEF Ordering
    <2> QED BY <1>1, <2>2, <2>3, OpenersKeep
  <1>4. CASE CheckLimits(o)
    <2>1. UNCHANGED <<strategyStatus, positions, closer, stopper, sold>>
            /\ OpenerGoes(o, IF RoomForPosition THEN "order" ELSE "idle")
      BY <1>4 DEF CheckLimits
    <2>2. opener' \in [Openers -> [at : {"idle", "metadata", "order"}, instrument : Traded]]
      BY <1>1, <2>1 DEF OpenerGoes
    <2>3. ~RoomForPosition => Ordering' \subseteq Ordering
      BY <1>1, <2>1 DEF OpenerGoes, Ordering
    <2> QED BY <1>1, <2>1, <2>2, <2>3, OpenersKeep
  <1>5. CASE OpeningFails(o)
    <2>1. UNCHANGED <<strategyStatus, positions, closer, stopper, sold>>
            /\ OpenerGoes(o, "idle")
      BY <1>5 DEF OpeningFails
    <2>2. opener' \in [Openers -> [at : {"idle", "metadata", "order"}, instrument : Traded]]
            /\ Ordering' \subseteq Ordering
      BY <1>1, <2>1 DEF OpenerGoes, Ordering
    <2> QED BY <1>1, <2>1, <2>2, OpenersKeep
  <1> QED BY <1>2, <1>3, <1>4, <1>5

LEMMA OpeningOrderedKeeps ==
    ASSUME StrategyInv, NEW o \in Openers, OpeningOrdered(o) PROVE StrategyInv'
  <1> DEFINE fresh == [instrument |-> opener[o].instrument, quantity |-> 1]
             l == Len(positions)
  <1>1. /\ opener[o].at = "order" /\ positions' = Append(positions, fresh)
        /\ OpenerGoes(o, "idle") /\ UNCHANGED <<strategyStatus, closer, stopper, sold>>
    BY DEF OpeningOrdered
  <1>2. /\ opener \in [Openers -> [at : {"idle", "metadata", "order"}, instrument : Traded]]
        /\ positions \in Seq(Listing) /\ l \in Nat /\ fresh \in Listing
        /\ sold \in [Entries -> Nat] /\ \A k \in Entries : k > l => sold[k] = 0
    BY DEF StrategyInv, StrategyTypeOK, Listing
  <1>3. opener' \in [Openers -> [at : {"idle", "metadata", "order"}, instrument : Traded]]
          /\ Ordering' \in SUBSET Ordering /\ o \in Ordering /\ o \notin Ordering'
    BY <1>1, <1>2 DEF OpenerGoes, Ordering
  <1>4. /\ Cardinality(Ordering') \in Nat /\ Cardinality(Ordering) \in Nat
        /\ Cardinality(Ordering') + 1 <= Cardinality(Ordering)
    <2>1. IsFiniteSet(Ordering)
      BY RequestsCount, NumbersAre DEF Ordering
    <2> QED BY <2>1, <1>3, RequestsCount
  <1>5. /\ positions' \in Seq(Listing) /\ Len(positions') = l + 1
        /\ \A k \in 1 .. l : positions'[k] = positions[k]
        /\ positions'[l + 1] = fresh
    <2> HIDE DEF fresh, Listing
    <2> QED BY <1>1, <1>2
  <1> HIDE DEF l
  <1>6. Grown(positions, positions')
    BY <1>2, <1>5 DEF Grown, l
  <1>7. Exposure \in Nat /\ Exposure' \in Nat /\ Exposure' <= Exposure + 1
    <2> DEFINE Open == {k \in DOMAIN positions : positions[k].quantity # 0}
               Now == {k \in DOMAIN positions' : positions'[k].quantity # 0}
    <2>1. IsFiniteSet(Open) /\ Cardinality(Open) \in Nat
            /\ IsFiniteSet(Now) /\ Cardinality(Now) \in Nat
      BY <1>2, <1>5, ExposureIs
    <2>2. Now \subseteq Open \cup {l + 1} /\ l + 1 \notin Open
      <3>1. DOMAIN positions = 1 .. l /\ DOMAIN positions' = 1 .. l + 1
        BY <1>2, <1>5 DEF l
      <3> QED BY <3>1, <1>2, <1>5
    <2>3. Exposure = Cardinality(Open) /\ Exposure' = Cardinality(Now)
      BY DEF Exposure
    <2> HIDE DEF Open, Now
    <2>4. Cardinality(Open \cup {l + 1}) = Cardinality(Open) + 1 /\ IsFiniteSet(Open \cup {l + 1})
      BY <2>1, <2>2, FS_AddElement
    <2>5. Cardinality(Now) <= Cardinality(Open \cup {l + 1})
      BY <2>2, <2>4, FS_Subset
    <2> QED BY <2>1, <2>3, <2>4, <2>5
  <1>8. RoomIsLeft' /\ l + 1 \in Entries
    <2> DEFINE old == Cardinality(Ordering)
               new == Cardinality(Ordering')
               most == Cardinality(Openers)
               x == Exposure
               y == Exposure'
    <2>1. l + old < MaxPositions + most /\ x + old < SectorLimit + most
      BY DEF StrategyInv, RoomIsLeft, l
    <2>2. old \in Nat /\ new \in Nat /\ new + 1 <= old /\ most \in Nat
            /\ x \in Nat /\ y \in Nat /\ y <= x + 1
      BY <1>4, <1>7, NumbersAre
    <2>3. Entries = 1 .. (MaxPositions + most - 1)
      BY DEF Entries
    <2> HIDE DEF old, new, most, x, y
    <2>4. (l + 1) + new < MaxPositions + most /\ y + new < SectorLimit + most
      BY <1>2, <2>1, <2>2, NumbersAre
    <2>5. l + 1 \in 1 .. (MaxPositions + most - 1)
      BY <1>2, <2>1, <2>2, NumbersAre
    <2> QED BY <1>5, <2>3, <2>4, <2>5 DEF RoomIsLeft, new, most, y
  <1>9. OrdersFit' /\ StopsClose'
    <2>1. /\ \A sale : FitsIn(positions, sale) => FitsIn(positions', sale)
          /\ \A stop : BehindIn(positions, stop) => BehindIn(positions', stop)
      BY <1>2, <1>5, <1>6, GrownKeeps
    <2> QED BY <1>1, <2>1 DEF StrategyInv, OrdersFit, StopsClose
  <1>10. SoldOnce'
    <2> SUFFICES ASSUME NEW k \in 1 .. Len(positions')
                 PROVE  /\ positions'[k].quantity # 0 => sold[k] = 0
                        /\ positions'[k].quantity = 0 =>
                              /\ sold[k] > 0
                              /\ sold[k] + Sales(k) <= Cardinality(Closers) + Cardinality(Stoppers)
      BY <1>1 DEF SoldOnce, Sales, Selling, StopsSelling
    <2>1. CASE k = l + 1
      BY <1>2, <1>5, <1>8, <2>1
    <2>2. CASE k # l + 1
      <3>1. k \in 1 .. l /\ k \in 1 .. Len(positions)
        BY <1>2, <1>5, <2>2 DEF l
      <3> QED BY <3>1, <1>5 DEF StrategyInv, SoldOnce
    <2> QED BY <2>1, <2>2
  <1>11. StrategyTypeOK'
    <2>1. \A k \in Entries : k > Len(positions') => sold'[k] = 0
      <3>1. \A k \in Entries : k \in Int
        BY NumbersAre DEF Entries
      <3> QED BY <3>1, <1>1, <1>2, <1>5
    <2>2. positions' \in Seq([instrument : Traded, quantity : 0 .. 1])
      BY <1>5 DEF Listing
    <2> QED BY <1>1, <1>2, <1>3, <2>1, <2>2 DEF StrategyInv, StrategyTypeOK
  <1> QED BY <1>8, <1>9, <1>10, <1>11 DEF StrategyInv

\* Requests that order nothing new of a position are no more than before, and fewer when
\* one of them is done.
NothingNew(k) == Selling(k)' \subseteq Selling(k) /\ StopsSelling(k)' \subseteq StopsSelling(k)

LEMMA SalesAre ==
    ASSUME NEW k
    PROVE  /\ Sales(k) \in Nat /\ Sales(k)' \in Nat
           /\ Sales(k) <= Cardinality(Closers) + Cardinality(Stoppers)
           /\ NothingNew(k) => Sales(k)' <= Sales(k)
           /\ NothingNew(k) /\ (\/ Selling(k)' # Selling(k)
                                \/ StopsSelling(k)' # StopsSelling(k))
                 => Sales(k)' + 1 <= Sales(k)
  <1>1. /\ Selling(k) \in SUBSET Closers /\ Selling(k)' \in SUBSET Closers
        /\ StopsSelling(k) \in SUBSET Stoppers /\ StopsSelling(k)' \in SUBSET Stoppers
    BY DEF Selling, StopsSelling
  <1> DEFINE A == Selling(k)
             B == StopsSelling(k)
             C == Selling(k)'
             D == StopsSelling(k)'
  <1>2. /\ IsFiniteSet(A) /\ Cardinality(A) \in Nat /\ Cardinality(A) <= Cardinality(Closers)
        /\ IsFiniteSet(B) /\ Cardinality(B) \in Nat /\ Cardinality(B) <= Cardinality(Stoppers)
        /\ Cardinality(C) \in Nat /\ Cardinality(D) \in Nat
    BY <1>1, RequestsCount, NumbersAre
  <1>3. Sales(k) = Cardinality(A) + Cardinality(B) /\ Sales(k)' = Cardinality(C) + Cardinality(D)
    BY DEF Sales
  <1>4. NothingNew(k) <=> C \subseteq A /\ D \subseteq B
    BY DEF NothingNew
  <1> HIDE DEF A, B, C, D
  <1>5. C \subseteq A => Cardinality(C) <= Cardinality(A) /\ (C # A => Cardinality(C) + 1 <= Cardinality(A))
    BY <1>2, RequestsCount
  <1>6. D \subseteq B => Cardinality(D) <= Cardinality(B) /\ (D # B => Cardinality(D) + 1 <= Cardinality(B))
    BY <1>2, RequestsCount
  <1>7. /\ Sales(k) \in Nat /\ Sales(k)' \in Nat
        /\ Sales(k) <= Cardinality(Closers) + Cardinality(Stoppers)
        /\ NothingNew(k) => Sales(k)' <= Sales(k)
        /\ NothingNew(k) /\ (C # A \/ D # B) => Sales(k)' + 1 <= Sales(k)
    BY <1>2, <1>3, <1>4, <1>5, <1>6, NumbersAre
  <1> QED BY <1>7 DEF A, B, C, D

LEMMA ListedAreEntries ==
    ASSUME StrategyInv, NEW k \in 1 .. Len(positions)
    PROVE  k \in Entries /\ sold[k] \in Nat
  <1>1. Len(positions) \in Nat /\ Cardinality(Ordering) \in Nat
    BY RequestsCount, NumbersAre DEF Ordering, StrategyInv, StrategyTypeOK
  <1>2. Len(positions) + Cardinality(Ordering) < MaxPositions + Cardinality(Openers)
    BY DEF StrategyInv, RoomIsLeft
  <1> DEFINE most == Cardinality(Openers)
             old == Cardinality(Ordering)
             l == Len(positions)
  <1>3. l \in Nat /\ most \in Nat /\ old \in Nat /\ l + old < MaxPositions + most /\ k \in 1 .. l
    BY <1>1, <1>2, NumbersAre
  <1>4. Entries = 1 .. (MaxPositions + most - 1)
    BY DEF Entries
  <1> HIDE DEF most, old, l
  <1>5. k \in Entries
    BY <1>3, <1>4, NumbersAre
  <1>6. sold \in [Entries -> Nat]
    BY DEF StrategyInv, StrategyTypeOK
  <1> QED BY <1>5, <1>6

\* While nothing is sold no more requests sell what is closed.
LEMMA SalesRest ==
    ASSUME StrategyInv, UNCHANGED <<positions, sold>>,
           \A k \in 1 .. Len(positions) : positions[k].quantity = 0 => NothingNew(k)
    PROVE  SoldOnce'
  <1> SUFFICES ASSUME NEW k \in 1 .. Len(positions)
               PROVE  /\ positions[k].quantity # 0 => sold[k] = 0
                      /\ positions[k].quantity = 0 =>
                            /\ sold[k] > 0
                            /\ sold[k] + Sales(k)' <= Cardinality(Closers) + Cardinality(Stoppers)
    BY DEF SoldOnce
  <1>1. /\ positions[k].quantity # 0 => sold[k] = 0
        /\ positions[k].quantity = 0 =>
              sold[k] > 0 /\ sold[k] + Sales(k) <= Cardinality(Closers) + Cardinality(Stoppers)
    BY DEF StrategyInv, SoldOnce
  <1>2. positions[k].quantity = 0 => Sales(k)' <= Sales(k)
    BY SalesAre
  <1>3. Sales(k) \in Nat /\ Sales(k)' \in Nat /\ sold[k] \in Nat
    BY SalesAre, ListedAreEntries
  <1> QED BY <1>1, <1>2, <1>3, NumbersAre

\* An order that is done is one less to come, and sells what it was for.
LEMMA SalesGoOn ==
    ASSUME StrategyInv, NEW sale \in Orders, sale # NoOrder, FitsIn(positions, sale),
           positions' = Filled(sale), sold' = SoldBy(sale),
           \A k \in 1 .. Len(positions) : positions'[k].quantity = 0 => NothingNew(k),
           sale.quantity = 1 => \/ Selling(sale.entry)' # Selling(sale.entry)
                                 \/ StopsSelling(sale.entry)' # StopsSelling(sale.entry)
    PROVE  SoldOnce' /\ sold' \in [Entries -> Nat] /\ \A k \in Entries : k > Len(positions) => sold'[k] = 0
  <1> DEFINE e == sale.entry
             q == sale.quantity
             all == Cardinality(Closers) + Cardinality(Stoppers)
  <1>0. positions \in Seq(Listing) /\ sold \in [Entries -> Nat] /\ all \in Nat
          /\ \A k \in Entries : k > Len(positions) => sold[k] = 0
    BY NumbersAre DEF StrategyInv, StrategyTypeOK, Listing
  <1>1. e \in 1 .. Len(positions) /\ e \in Entries /\ q \in 0 .. 1 /\ sold[e] \in Nat
          /\ (q = 0 => positions[e].quantity = 0)
    BY ListedAreEntries DEF FitsIn, Orders
  <1>2. sold' = [sold EXCEPT ![e] = @ + q]
    BY DEF SoldBy
  <1>3. /\ Len(positions') = Len(positions) /\ positions'[e].quantity = 0
        /\ \A k \in 1 .. Len(positions) : k # e => positions'[k] = positions[k]
    BY <1>0, <1>1, FilledIs
  <1>4. /\ q = 1 => \/ Selling(e)' # Selling(e)
                    \/ StopsSelling(e)' # StopsSelling(e)
        /\ NothingNew(e)
    BY <1>1, <1>3
  <1>5. /\ Sales(e) \in Nat /\ Sales(e)' \in Nat /\ Sales(e) <= all
        /\ Sales(e)' <= Sales(e) /\ (q = 1 => Sales(e)' + 1 <= Sales(e))
    BY <1>4, SalesAre
  <1> HIDE DEF e, q, all
  <1>6. sold' \in [Entries -> Nat] /\ sold'[e] = sold[e] + q
          /\ \A k \in Entries : k # e => sold'[k] = sold[k]
    BY <1>0, <1>1, <1>2
  <1>7. sold'[e] > 0 /\ sold'[e] + Sales(e)' <= all
    <2>1. /\ positions[e].quantity # 0 => sold[e] = 0
          /\ positions[e].quantity = 0 => sold[e] > 0 /\ sold[e] + Sales(e) <= all
      BY <1>1 DEF StrategyInv, SoldOnce, all
    <2> QED BY <2>1, <1>0, <1>1, <1>5, <1>6
  <1>8. ASSUME NEW k \in 1 .. Len(positions), k # e
        PROVE  /\ positions'[k].quantity # 0 => sold'[k] = 0
               /\ positions'[k].quantity = 0 => sold'[k] > 0 /\ sold'[k] + Sales(k)' <= all
    <2>1. /\ positions[k].quantity # 0 => sold[k] = 0
          /\ positions[k].quantity = 0 => sold[k] > 0 /\ sold[k] + Sales(k) <= all
      BY DEF StrategyInv, SoldOnce, all
    <2>2. positions'[k] = positions[k] /\ sold'[k] = sold[k] /\ sold[k] \in Nat
      BY <1>3, <1>6, <1>8, ListedAreEntries
    <2>3. positions[k].quantity = 0 => Sales(k)' <= Sales(k)
      BY <2>2, SalesAre
    <2>4. Sales(k) \in Nat /\ Sales(k)' \in Nat
      BY SalesAre
    <2> QED BY <2>1, <2>2, <2>3, <2>4, <1>0
  <1>9. ASSUME NEW k \in 1 .. Len(positions)
        PROVE  /\ positions'[k].quantity # 0 => sold'[k] = 0
               /\ positions'[k].quantity = 0 => sold'[k] > 0 /\ sold'[k] + Sales(k)' <= all
    BY <1>3, <1>7, <1>8
  <1>10. SoldOnce'
    BY <1>3, <1>9 DEF SoldOnce, all
  <1>11. ASSUME NEW k \in Entries, k > Len(positions) PROVE sold'[k] = 0
    <2>1. k # e
      BY <1>0, <1>1, <1>11 DEF Entries
    <2> QED BY <2>1, <1>0, <1>6, <1>11
  <1> QED BY <1>6, <1>10, <1>11

StopType == [index : {0} \cup Entries, order : Orders]

\* What requests to close and to stop may do: keep what they ask for, end, or ask for
\* something that fits the list as it is now.
LEMMA RequestsKeep ==
    ASSUME StrategyInv, opener' = opener, strategyStatus' \in {"inactive", "active"},
           positions' \in Seq(Listing), Len(positions') = Len(positions),
           Grown(positions, positions'),
           closer' \in [Closers -> Orders], stopper' \in [Stoppers -> StopType],
           \A c \in Closers : \/ closer'[c] = closer[c]
                              \/ closer'[c] = NoOrder
                              \/ FitsIn(positions', closer'[c]),
           \A s \in Stoppers : (stopper'[s].index = 0) = (stopper'[s].order = NoOrder),
           \A s \in Stoppers : \/ stopper'[s] = stopper[s]
                               \/ stopper'[s].index = 0
                               \/ /\ FitsIn(positions', stopper'[s].order)
                                  /\ BehindIn(positions', stopper'[s]),
           sold' \in [Entries -> Nat], \A k \in Entries : k > Len(positions) => sold'[k] = 0,
           SoldOnce'
    PROVE  StrategyInv'
  <1>1. StrategyTypeOK'
    BY DEF StrategyInv, StrategyTypeOK, Listing, StopType
  <1>0. positions \in Seq(Listing)
    BY DEF StrategyInv, StrategyTypeOK, Listing
  <1>2. RoomIsLeft'
    <2>1. Ordering' = Ordering
      BY DEF Ordering
    <2>2. Exposure \in Nat /\ Exposure' \in Nat /\ Exposure' <= Exposure
      BY <1>0, ExposureIs DEF Exposure
    <2>3. Cardinality(Ordering) \in Nat
      BY RequestsCount, NumbersAre DEF Ordering
    <2>4. /\ Len(positions) + Cardinality(Ordering) < MaxPositions + Cardinality(Openers)
          /\ Exposure + Cardinality(Ordering) < SectorLimit + Cardinality(Openers)
      BY DEF StrategyInv, RoomIsLeft
    <2> DEFINE x == Exposure
               y == Exposure'
               o == Cardinality(Ordering)
    <2>5. x \in Nat /\ y \in Nat /\ y <= x /\ o \in Nat /\ x + o < SectorLimit + Cardinality(Openers)
      BY <2>2, <2>3, <2>4
    <2> HIDE DEF x, y, o
    <2>6. y + o < SectorLimit + Cardinality(Openers)
      BY <2>5, NumbersAre
    <2> QED BY <2>1, <2>4, <2>6 DEF RoomIsLeft, y, o
  <1>3. /\ \A sale : FitsIn(positions, sale) => FitsIn(positions', sale)
        /\ \A stop : BehindIn(positions, stop) => BehindIn(positions', stop)
    BY <1>0, GrownKeeps
  <1>4. OrdersFit'
    BY <1>3 DEF StrategyInv, OrdersFit
  <1>5. StopsClose'
    BY <1>3 DEF StrategyInv, StopsClose
  <1> QED BY <1>1, <1>2, <1>4, <1>5 DEF StrategyInv

LEMMA RestingIsGrown ==
    ASSUME StrategyInv, positions' = positions
    PROVE  /\ positions' \in Seq(Listing) /\ Len(positions') = Len(positions)
           /\ Grown(positions, positions')
           /\ closer \in [Closers -> Orders] /\ stopper \in [Stoppers -> StopType]
           /\ \A s \in Stoppers : (stopper[s].index = 0) = (stopper[s].order = NoOrder)
           /\ sold \in [Entries -> Nat] /\ \A k \in Entries : k > Len(positions) => sold[k] = 0
           /\ strategyStatus \in {"inactive", "active"}
  <1>1. positions \in Seq(Listing) /\ Len(positions) \in Nat
    BY DEF StrategyInv, StrategyTypeOK, Listing
  <1> QED BY <1>1 DEF StrategyInv, StrategyTypeOK, StopType, Grown

LEMMA NoOrderIs == NoOrder \in Orders /\ NoOrder.entry = 0 /\ NoOrder.quantity = 0
  BY DEF Orders, NoOrder

LEMMA ClosingKeeps ==
    ASSUME StrategyInv, NEW c \in Closers,
           (\E i \in Traded : ClosePosition(c, i)) \/ ClosingFails(c)
    PROVE  StrategyInv'
  <1>1. CASE \E i \in Traded : ClosePosition(c, i)
    <2>1. PICK i \in Traded : ClosePosition(c, i)
      BY <1>1
    <2>2. /\ closer[c] = NoOrder /\ Held(i) # {}
          /\ closer' = [closer EXCEPT ![c] = ClosingOrder(i)]
          /\ UNCHANGED <<strategyStatus, positions, opener, stopper, sold>>
      BY <2>1 DEF ClosePosition
    <2>3. /\ positions' \in Seq(Listing) /\ Len(positions') = Len(positions)
          /\ Grown(positions, positions')
          /\ closer \in [Closers -> Orders] /\ stopper \in [Stoppers -> StopType]
          /\ \A s \in Stoppers : (stopper[s].index = 0) = (stopper[s].order = NoOrder)
          /\ sold \in [Entries -> Nat] /\ \A k \in Entries : k > Len(positions) => sold[k] = 0
          /\ strategyStatus \in {"inactive", "active"}
      BY <2>2, RestingIsGrown
    <2> DEFINE f == First(i)
    <2>4. f \in 1 .. Len(positions) /\ f \in Entries
      <3>1. PICK k : k \in Held(i)
        BY <2>2
      <3>2. positions \in Seq(Listing) /\ DOMAIN positions = 1 .. Len(positions) /\ Len(positions) \in Nat
        BY <2>2, <2>3
      <3>3. k \in 1 .. Len(positions) /\ positions[k].instrument = i
        BY <3>1, <3>2 DEF Held
      <3>4. f \in 1 .. k
        BY <3>2, <3>3, FirstIs
      <3>5. f \in 1 .. Len(positions)
        BY <3>2, <3>3, <3>4
      <3> QED BY <3>5, ListedAreEntries
    <2>5. positions[f].quantity \in 0 .. 1
      <3>1. positions[f] \in Listing
        <4> HIDE DEF Listing, f
        <4> QED BY <2>2, <2>3, <2>4
      <3> QED BY <3>1 DEF Listing
    <2> DEFINE q == positions[f].quantity
               sale == [entry |-> f, quantity |-> q]
    <2>6. sale = ClosingOrder(i)
      BY DEF ClosingOrder
    <2> HIDE DEF f, q
    <2>7. sale \in Orders /\ sale.entry = f /\ sale.quantity = q
      BY <2>4, <2>5 DEF Orders, q
    <2>8. FitsIn(positions', sale)
      BY <2>2, <2>4, <2>7 DEF FitsIn, q
    <2>9. closer' \in [Closers -> Orders]
            /\ \A d \in Closers : closer'[d] = closer[d] \/ FitsIn(positions', closer'[d])
      <3>1. \A d \in Closers : closer'[d] = IF d = c THEN sale ELSE closer[d]
        BY <2>2, <2>3, <2>6
      <3>2. closer' \in [Closers -> Orders]
        BY <2>2, <2>3, <2>6, <2>7
      <3> QED BY <3>1, <3>2, <2>8
    <2>10. SoldOnce'
      <3> SUFFICES ASSUME NEW k \in 1 .. Len(positions), positions[k].quantity = 0
                   PROVE  NothingNew(k)
        BY <2>2, SalesRest
      <3>1. closer'[c] # [entry |-> k, quantity |-> 1]
        <4>1. closer'[c] = sale
          BY <2>2, <2>3, <2>6
        <4>2. f = k => q = 0
          BY DEF q
        <4> QED BY <4>1, <4>2, <2>7
      <3>2. Selling(k)' \subseteq Selling(k)
        <4>1. \A d \in Closers : d # c => closer'[d] = closer[d]
          BY <2>2, <2>3
        <4> QED BY <4>1, <3>1 DEF Selling
      <3> QED BY <2>2, <3>2 DEF NothingNew, StopsSelling
    <2> QED BY <2>2, <2>3, <2>9, <2>10, RequestsKeep
  <1>2. CASE ClosingFails(c)
    <2>1. /\ closer' = [closer EXCEPT ![c] = NoOrder]
          /\ UNCHANGED <<strategyStatus, positions, opener, stopper, sold>>
      BY <1>2 DEF ClosingFails
    <2>2. /\ positions' \in Seq(Listing) /\ Len(positions') = Len(positions)
          /\ Grown(positions, positions')
          /\ closer \in [Closers -> Orders] /\ stopper \in [Stoppers -> StopType]
          /\ \A s \in Stoppers : (stopper[s].index = 0) = (stopper[s].order = NoOrder)
          /\ sold \in [Entries -> Nat] /\ \A k \in Entries : k > Len(positions) => sold[k] = 0
          /\ strategyStatus \in {"inactive", "active"}
      BY <2>1, RestingIsGrown
    <2>3. closer' \in [Closers -> Orders]
            /\ \A d \in Closers : closer'[d] = closer[d] \/ closer'[d] = NoOrder
      BY <2>1, <2>2, NoOrderIs
    <2>4. SoldOnce'
      <3> SUFFICES ASSUME NEW k \in 1 .. Len(positions), positions[k].quantity = 0
                   PROVE  NothingNew(k)
        BY <2>1, SalesRest
      <3>1. NoOrder # [entry |-> k, quantity |-> 1]
        BY NoOrderIs
      <3> QED BY <2>1, <2>3, <3>1 DEF NothingNew, Selling, StopsSelling
    <2> QED BY <2>1, <2>2, <2>3, <2>4, RequestsKeep
  <1> QED BY <1>1, <1>2

LEMMA ClosingOrderedKeeps ==
    ASSUME StrategyInv, NEW c \in Closers, ClosingOrdered(c) PROVE StrategyInv'
  <1>0. closer[c] \in Orders
    BY DEF StrategyInv, StrategyTypeOK
  <1> SUFFICES ASSUME NEW sale \in Orders, closer[c] = sale PROVE StrategyInv'
    BY <1>0
  <1>1. /\ sale # NoOrder /\ positions' = Filled(sale) /\ sold' = SoldBy(sale)
        /\ closer' = [closer EXCEPT ![c] = NoOrder]
        /\ UNCHANGED <<strategyStatus, opener, stopper>>
    BY DEF ClosingOrdered
  <1>2. /\ closer \in [Closers -> Orders] /\ stopper \in [Stoppers -> StopType]
        /\ \A s \in Stoppers : (stopper[s].index = 0) = (stopper[s].order = NoOrder)
        /\ strategyStatus \in {"inactive", "active"} /\ positions \in Seq(Listing)
    BY DEF StrategyInv, StrategyTypeOK, StopType, Listing
  <1>3. FitsIn(positions, sale)
    BY <1>1, <1>2 DEF StrategyInv, OrdersFit
  <1>4. positions' \in Seq(Listing) /\ Len(positions') = Len(positions) /\ Grown(positions, positions')
    BY <1>1, <1>2, <1>3, FilledIs DEF FitsIn
  <1>5. closer' \in [Closers -> Orders] /\ closer'[c] = NoOrder
          /\ \A d \in Closers : closer'[d] = closer[d] \/ closer'[d] = NoOrder
    BY <1>1, <1>2, NoOrderIs
  <1>6. \A k \in 1 .. Len(positions) : NothingNew(k)
    <2> SUFFICES ASSUME NEW k \in 1 .. Len(positions) PROVE NothingNew(k)
      OBVIOUS
    <2>1. NoOrder # [entry |-> k, quantity |-> 1]
      BY NoOrderIs
    <2> QED BY <1>1, <1>5, <2>1 DEF NothingNew, Selling, StopsSelling
  <1>7. sale.quantity = 1 => Selling(sale.entry)' # Selling(sale.entry)
    <2> SUFFICES ASSUME sale.quantity = 1
                 PROVE  c \in Selling(sale.entry) /\ c \notin Selling(sale.entry)'
      OBVIOUS
    <2>1. sale = [entry |-> sale.entry, quantity |-> 1]
      BY <1>1 DEF Orders, NoOrder
    <2>2. closer'[c].quantity = 0
      BY <1>5, NoOrderIs
    <2> QED BY <2>1, <2>2 DEF Selling
  <1>8. SoldOnce' /\ sold' \in [Entries -> Nat] /\ \A k \in Entries : k > Len(positions) => sold'[k] = 0
    BY <1>1, <1>3, <1>6, <1>7, SalesGoOn
  <1> QED BY <1>1, <1>2, <1>4, <1>5, <1>8, RequestsKeep

\* A stop that has passed k - 1 positions goes on to one it has not, or has passed them all.
LEMMA StopGoesOnKeeps ==
    ASSUME StrategyInv, NEW s \in Stoppers, NEW k \in 1 .. Len(positions) + 1,
           positions' \in Seq(Listing), Len(positions') = Len(positions),
           Grown(positions, positions'), ClosedBefore(positions', k), StopGoesOn(s, k)
    PROVE  /\ stopper' \in [Stoppers -> StopType]
           /\ \A t \in Stoppers : (stopper'[t].index = 0) = (stopper'[t].order = NoOrder)
           /\ \A t \in Stoppers : t # s => stopper'[t] = stopper[t]
           /\ \/ stopper'[s].index = 0 /\ stopper'[s].order = NoOrder
              \/ /\ FitsIn(positions', stopper'[s].order) /\ BehindIn(positions', stopper'[s])
                 /\ stopper'[s].order.quantity = positions'[stopper'[s].order.entry].quantity
           /\ strategyStatus' \in {"inactive", "active"}
           /\ strategyStatus' # strategyStatus => ClosedBefore(positions', Len(positions) + 1)
  <1> DEFINE open == OpenFrom(k, positions')
             l == Len(positions)
  <1>1. /\ positions \in Seq(Listing) /\ l \in Nat /\ stopper \in [Stoppers -> StopType]
        /\ \A t \in Stoppers : (stopper[t].index = 0) = (stopper[t].order = NoOrder)
        /\ strategyStatus \in {"inactive", "active"} /\ DOMAIN positions' = 1 .. l
    BY DEF StrategyInv, StrategyTypeOK, StopType, Listing
  <1>2. open = {m \in 1 .. l : m >= k /\ positions'[m].quantity # 0}
    BY <1>1 DEF OpenFrom
  <1>3. CASE open = {}
    <2>1. stopper' = [stopper EXCEPT ![s] = [index |-> 0, order |-> NoOrder]]
            /\ strategyStatus' = "inactive"
      BY <1>3 DEF StopGoesOn
    <2>2. [index |-> 0, order |-> NoOrder] \in StopType
      BY NoOrderIs DEF StopType
    <2>3. ClosedBefore(positions', l + 1)
      <3> SUFFICES ASSUME NEW m \in 1 .. l, FirstIn(positions', m) PROVE positions'[m].quantity = 0
        BY <1>1 DEF ClosedBefore
      <3>1. CASE m >= k
        BY <3>1, <1>2, <1>3
      <3>2. CASE ~(m >= k)
        <4>1. m \in 1 .. k - 1
          BY <3>2, <1>1
        <4> QED BY <4>1 DEF ClosedBefore
      <3> QED BY <3>1, <3>2
    <2> QED BY <1>1, <2>1, <2>2, <2>3
  <1>4. CASE open # {}
    <2> DEFINE next == CHOOSE m \in open : \A n \in open : m <= n
    <2>1. open \in SUBSET Nat
      BY <1>1, <1>2
    <2>2. \E m \in open : \A n \in open : m <= n
      <3> HIDE DEF open
      <3> QED BY <1>4, <2>1, LeastIs
    <2>3. next \in open /\ \A n \in open : next <= n
      <3> HIDE DEF open
      <3> QED BY <2>2
    <2> DEFINE f == First(positions[next].instrument)
               q == positions'[f].quantity
               stop == [index |-> next, order |-> [entry |-> f, quantity |-> q]]
    <2>4. stopper' = [stopper EXCEPT ![s] = stop] /\ strategyStatus' = strategyStatus
      BY <1>4 DEF StopGoesOn
    <2> HIDE DEF open, next
    <2>5. next \in 1 .. l /\ next >= k /\ \A m \in 1 .. next - 1 : m >= k => positions'[m].quantity = 0
      <3>1. next \in 1 .. l /\ next >= k
        BY <1>2, <2>3
      <3>2. ASSUME NEW m \in 1 .. next - 1, m >= k PROVE positions'[m].quantity = 0
        <4>1. m \in 1 .. l /\ ~(next <= m)
          BY <1>1, <3>1
        <4>2. m \notin open
          BY <4>1, <2>3
        <4> QED BY <4>1, <4>2, <1>2, <3>2
      <3> QED BY <3>1, <3>2
    <2>6. f \in 1 .. next /\ FirstIn(positions, f) /\ positions[f].instrument = positions[next].instrument
      BY <1>1, <2>5, FirstIs
    <2> HIDE DEF f
    <2>7. f \in 1 .. l
      BY <1>1, <2>5, <2>6
    <2>8. \A m \in 1 .. l : positions'[m].instrument = positions[m].instrument
      BY DEF Grown
    <2>9. FirstIn(positions', f)
      <3>1. \A m \in 1 .. f - 1 : m \in 1 .. l
        BY <1>1, <2>7
      <3> QED BY <2>6, <2>7, <2>8, <3>1 DEF FirstIn
    <2>10. ClosedBefore(positions', next)
      <3> SUFFICES ASSUME NEW m \in 1 .. next - 1, FirstIn(positions', m)
                   PROVE  positions'[m].quantity = 0
        BY DEF ClosedBefore
      <3>1. CASE m >= k
        BY <3>1, <2>5
      <3>2. CASE ~(m >= k)
        <4>1. m \in 1 .. k - 1
          BY <3>2, <1>1, <2>5
        <4> QED BY <4>1 DEF ClosedBefore
      <3> QED BY <3>1, <3>2
    <2>11. f \in Entries /\ next \in Entries
      BY <2>5, <2>7, ListedAreEntries
    <2>12. q \in 0 .. 1
      <3>1. positions'[f] \in Listing
        <4> HIDE DEF Listing
        <4> QED BY <1>1, <2>7
      <3> QED BY <3>1 DEF Listing
    <2>13. stop \in StopType /\ stop.index = next /\ stop.order.entry = f /\ stop.order.quantity = q
             /\ stop.order # NoOrder /\ stop.index # 0
      <3> HIDE DEF q
      <3>1. [entry |-> f, quantity |-> q] \in Orders
        BY <2>11, <2>12 DEF Orders
      <3>2. f # 0 /\ next # 0
        BY <2>5, <2>7, <1>1
      <3> QED BY <3>1, <3>2, <2>11, NoOrderIs DEF StopType
    <2> HIDE DEF stop
    <2>14. FitsIn(positions', stop.order) /\ BehindIn(positions', stop)
      <3>1. FitsIn(positions', stop.order)
        BY <2>7, <2>13 DEF FitsIn
      <3>2. BehindIn(positions', stop)
        BY <2>5, <2>6, <2>7, <2>8, <2>9, <2>10, <2>13 DEF BehindIn
      <3> QED BY <3>1, <3>2
    <2>15. stopper'[s] = stop /\ \A t \in Stoppers : t # s => stopper'[t] = stopper[t]
      BY <1>1, <2>4
    <2>16. stopper' \in [Stoppers -> StopType]
      <3> HIDE DEF StopType
      <3> QED BY <1>1, <2>4, <2>13
    <2> QED BY <1>1, <2>4, <2>13, <2>14, <2>15, <2>16
  <1> QED BY <1>3, <1>4

LEMMA StopStrategyKeeps ==
    ASSUME StrategyInv, NEW s \in Stoppers, StopStrategy(s)
    PROVE  /\ StrategyInv'
           /\ strategyStatus' # strategyStatus => ClosedBefore(positions', Len(positions') + 1)
  <1>1. /\ stopper[s].index = 0 /\ StopGoesOn(s, 1)
        /\ UNCHANGED <<positions, opener, closer, sold>>
    BY DEF StopStrategy
  <1>2. /\ positions' \in Seq(Listing) /\ Len(positions') = Len(positions)
        /\ Grown(positions, positions')
        /\ closer \in [Closers -> Orders] /\ stopper \in [Stoppers -> StopType]
        /\ \A t \in Stoppers : (stopper[t].index = 0) = (stopper[t].order = NoOrder)
        /\ sold \in [Entries -> Nat] /\ \A k \in Entries : k > Len(positions) => sold[k] = 0
    BY <1>1, RestingIsGrown
  <1>3. 1 \in 1 .. Len(positions) + 1 /\ ClosedBefore(positions', 1)
    <2>1. Len(positions) \in Nat
      BY <1>1, <1>2
    <2> QED BY <2>1 DEF ClosedBefore
  <1>4. /\ stopper' \in [Stoppers -> StopType]
        /\ \A t \in Stoppers : (stopper'[t].index = 0) = (stopper'[t].order = NoOrder)
        /\ \A t \in Stoppers : t # s => stopper'[t] = stopper[t]
        /\ \/ stopper'[s].index = 0 /\ stopper'[s].order = NoOrder
           \/ /\ FitsIn(positions', stopper'[s].order) /\ BehindIn(positions', stopper'[s])
              /\ stopper'[s].order.quantity = positions'[stopper'[s].order.entry].quantity
        /\ strategyStatus' \in {"inactive", "active"}
        /\ strategyStatus' # strategyStatus => ClosedBefore(positions', Len(positions) + 1)
    BY <1>1, <1>2, <1>3, StopGoesOnKeeps
  <1>5. SoldOnce'
    <2> SUFFICES ASSUME NEW k \in 1 .. Len(positions), positions[k].quantity = 0
                 PROVE  NothingNew(k)
      BY <1>1, SalesRest
    <2>1. stopper'[s].order # [entry |-> k, quantity |-> 1]
      BY <1>1, <1>4, NoOrderIs
    <2> QED BY <1>1, <1>4, <2>1 DEF NothingNew, Selling, StopsSelling
  <1>6. StrategyInv'
    BY <1>1, <1>2, <1>4, <1>5, RequestsKeep
  <1> QED BY <1>2, <1>4, <1>6

LEMMA StopCloseOrderedKeeps ==
    ASSUME StrategyInv, NEW s \in Stoppers, StopCloseOrdered(s)
    PROVE  /\ StrategyInv'
           /\ strategyStatus' # strategyStatus => ClosedBefore(positions', Len(positions') + 1)
  <1>0. stopper[s] \in StopType
    BY DEF StrategyInv, StrategyTypeOK, StopType
  <1> SUFFICES ASSUME NEW sale \in Orders, NEW n \in {0} \cup Entries,
                      stopper[s].order = sale, stopper[s].index = n
               PROVE  /\ StrategyInv'
                      /\ strategyStatus' # strategyStatus =>
                            ClosedBefore(positions', Len(positions') + 1)
    BY <1>0 DEF StopType
  <1>1. /\ n # 0 /\ positions' = Filled(sale) /\ sold' = SoldBy(sale)
        /\ StopGoesOn(s, n + 1) /\ UNCHANGED <<opener, closer>>
    BY DEF StopCloseOrdered
  <1>2. /\ closer \in [Closers -> Orders] /\ stopper \in [Stoppers -> StopType]
        /\ sale # NoOrder /\ positions \in Seq(Listing) /\ Len(positions) \in Nat
    BY <1>1 DEF StrategyInv, StrategyTypeOK, StopType, Listing
  <1>3. FitsIn(positions, sale) /\ BehindIn(positions, stopper[s])
    BY <1>1, <1>2 DEF StrategyInv, OrdersFit, StopsClose
  <1>4. /\ positions' \in Seq(Listing) /\ Len(positions') = Len(positions)
        /\ Grown(positions, positions') /\ positions'[sale.entry].quantity = 0
    BY <1>1, <1>2, <1>3, FilledIs DEF FitsIn
  <1>5. n + 1 \in 1 .. Len(positions) + 1 /\ ClosedBefore(positions', n + 1)
    <2>1. BehindIn(positions', stopper[s])
      BY <1>2, <1>3, <1>4, GrownKeeps
    <2>2. /\ n \in 1 .. Len(positions) /\ sale.entry \in 1 .. n
          /\ positions'[sale.entry].instrument = positions'[n].instrument
          /\ ClosedBefore(positions', n)
      BY <1>4, <2>1 DEF BehindIn
    <2>3. ASSUME NEW m \in 1 .. n, FirstIn(positions', m) PROVE positions'[m].quantity = 0
      <3>1. CASE m = n
        <4>1. sale.entry = n
          <5>1. sale.entry \in 1 .. n - 1 \/ sale.entry = n
            BY <2>2
          <5> QED BY <5>1, <2>2, <2>3, <3>1 DEF FirstIn
        <4> QED BY <4>1, <3>1, <1>4
      <3>2. CASE m # n
        <4>1. m \in 1 .. n - 1
          BY <2>2, <3>2
        <4> QED BY <4>1, <2>2, <2>3 DEF ClosedBefore
      <3> QED BY <3>1, <3>2
    <2>4. n \in Nat /\ (n + 1) - 1 = n /\ n + 1 \in 1 .. Len(positions) + 1
      BY <1>2, <2>2
    <2> QED BY <2>3, <2>4 DEF ClosedBefore
  <1>6. /\ stopper' \in [Stoppers -> StopType]
        /\ \A t \in Stoppers : (stopper'[t].index = 0) = (stopper'[t].order = NoOrder)
        /\ \A t \in Stoppers : t # s => stopper'[t] = stopper[t]
        /\ \/ stopper'[s].index = 0 /\ stopper'[s].order = NoOrder
           \/ /\ FitsIn(positions', stopper'[s].order) /\ BehindIn(positions', stopper'[s])
              /\ stopper'[s].order.quantity = positions'[stopper'[s].order.entry].quantity
        /\ strategyStatus' \in {"inactive", "active"}
        /\ strategyStatus' # strategyStatus => ClosedBefore(positions', Len(positions) + 1)
    BY <1>1, <1>4, <1>5, StopGoesOnKeeps
  <1>7. \A k \in 1 .. Len(positions) :
            positions'[k].quantity = 0 => stopper'[s].order # [entry |-> k, quantity |-> 1]
    BY <1>6, NoOrderIs
  <1>8. \A k \in 1 .. Len(positions) : positions'[k].quantity = 0 => NothingNew(k)
    BY <1>1, <1>6, <1>7 DEF NothingNew, Selling, StopsSelling
  <1>9. sale.quantity = 1 => StopsSelling(sale.entry)' # StopsSelling(sale.entry)
    <2> SUFFICES ASSUME sale.quantity = 1
                 PROVE  s \in StopsSelling(sale.entry) /\ s \notin StopsSelling(sale.entry)'
      OBVIOUS
    <2>1. sale = [entry |-> sale.entry, quantity |-> 1]
      BY <1>2 DEF Orders, NoOrder
    <2>2. stopper'[s].order # [entry |-> sale.entry, quantity |-> 1]
      BY <1>3, <1>4, <1>7 DEF FitsIn
    <2> QED BY <2>1, <2>2 DEF StopsSelling
  <1>10. SoldOnce' /\ sold' \in [Entries -> Nat] /\ \A k \in Entries : k > Len(positions) => sold'[k] = 0
    BY <1>1, <1>2, <1>3, <1>8, <1>9, SalesGoOn
  <1>11. StrategyInv'
    BY <1>1, <1>2, <1>4, <1>6, <1>10, RequestsKeep
  <1> QED BY <1>4, <1>6, <1>11

LEMMA StopFailsKeeps ==
    ASSUME StrategyInv, NEW s \in Stoppers, StopFails(s) PROVE StrategyInv'
  <1>1. /\ stopper' = [stopper EXCEPT ![s] = [index |-> 0, order |-> NoOrder]]
        /\ UNCHANGED <<strategyStatus, positions, opener, closer, sold>>
    BY DEF StopFails
  <1>2. /\ positions' \in Seq(Listing) /\ Len(positions') = Len(positions)
        /\ Grown(positions, positions')
        /\ closer \in [Closers -> Orders] /\ stopper \in [Stoppers -> StopType]
        /\ \A t \in Stoppers : (stopper[t].index = 0) = (stopper[t].order = NoOrder)
        /\ sold \in [Entries -> Nat] /\ \A k \in Entries : k > Len(positions) => sold[k] = 0
        /\ strategyStatus \in {"inactive", "active"}
    BY <1>1, RestingIsGrown
  <1>3. [index |-> 0, order |-> NoOrder] \in StopType
    BY NoOrderIs DEF StopType
  <1>4. /\ stopper' \in [Stoppers -> StopType]
        /\ stopper'[s].index = 0 /\ stopper'[s].order = NoOrder
        /\ \A t \in Stoppers : t # s => stopper'[t] = stopper[t]
    BY <1>1, <1>2, <1>3
  <1>5. SoldOnce'
    <2> SUFFICES ASSUME NEW k \in 1 .. Len(positions), positions[k].quantity = 0
                 PROVE  NothingNew(k)
      BY <1>1, SalesRest
    <2>1. NoOrder # [entry |-> k, quantity |-> 1]
      BY NoOrderIs
    <2> QED BY <1>1, <1>4, <2>1 DEF NothingNew, Selling, StopsSelling
  <1>6. \A t \in Stoppers : (stopper'[t].index = 0) = (stopper'[t].order = NoOrder)
    BY <1>2, <1>4
  <1> QED BY <1>1, <1>2, <1>4, <1>5, <1>6, RequestsKeep

LEMMA StrategyInvIsInductive ==
    /\ StrategyInit => StrategyInv
    /\ StrategyInv /\ [StrategyNext]_strategyVars => StrategyInv'
  <1>1. ASSUME StrategyInv, UNCHANGED strategyVars PROVE StrategyInv'
    <2>1. UNCHANGED <<strategyStatus, positions, opener, closer, stopper, sold>>
      BY <1>1 DEF strategyVars
    <2> QED BY <1>1, <2>1, OpenersKeep DEF Ordering, StrategyInv, StrategyTypeOK
  <1>2. ASSUME StrategyInv, StrategyNext PROVE StrategyInv'
    <2>1. \A o \in Openers :
              (StartStrategy \/ (\E i \in Traded : OpenPosition(o, i))
               \/ CheckLimits(o) \/ OpeningFails(o) \/ OpeningOrdered(o)) => StrategyInv'
      BY <1>2, OpeningKeeps, OpeningOrderedKeeps
    <2>2. \A c \in Closers :
              ((\E i \in Traded : ClosePosition(c, i)) \/ ClosingOrdered(c) \/ ClosingFails(c))
                  => StrategyInv'
      BY <1>2, ClosingKeeps, ClosingOrderedKeeps
    <2>3. \A s \in Stoppers : StopStrategy(s) \/ StopStep(s) => StrategyInv'
      BY <1>2, StopStrategyKeeps, StopCloseOrderedKeeps, StopFailsKeeps DEF StopStep
    <2>4. CASE StartStrategy
      <3>1. PICK o \in Openers : TRUE
        OBVIOUS
      <3> QED BY <2>1, <2>4, <3>1
    <2>5. CASE \E o \in Openers : (\E i \in Traded : OpenPosition(o, i))
                  \/ CheckLimits(o) \/ OpeningOrdered(o) \/ OpeningFails(o)
      BY <2>1, <2>5
    <2>6. CASE \E c \in Closers : (\E i \in Traded : ClosePosition(c, i))
                  \/ ClosingOrdered(c) \/ ClosingFails(c)
      BY <2>2, <2>6
    <2>7. CASE \E s \in Stoppers : StopStrategy(s) \/ StopStep(s)
      BY <2>3, <2>7
    <2> QED BY <1>2, <2>4, <2>5, <2>6, <2>7 DEF StrategyNext
  <1> QED BY <1>1, <1>2, StrategyInitially

LEMMA FirstsAre ==
    positions \in Seq(Listing)
        => \A k \in Firsts : k \in 1 .. Len(positions) /\ FirstIn(positions, k)
  <1> SUFFICES ASSUME positions \in Seq(Listing), NEW m \in DOMAIN positions
               PROVE  /\ First(positions[m].instrument) \in 1 .. Len(positions)
                      /\ FirstIn(positions, First(positions[m].instrument))
    BY DEF Firsts
  <1>1. m \in 1 .. Len(positions) /\ Len(positions) \in Nat
    OBVIOUS
  <1>2. First(positions[m].instrument) \in 1 .. m
          /\ FirstIn(positions, First(positions[m].instrument))
    BY <1>1, FirstIs
  <1> QED BY <1>1, <1>2

\* Only a stop that has passed all positions ends the strategy.
LEMMA StopsInOrder ==
    ASSUME StrategyInv, StrategyNext, strategyStatus = "active", strategyStatus' = "inactive"
    PROVE  \A k \in Firsts' : positions'[k].quantity = 0
  <1>1. PICK s \in Stoppers : StopStrategy(s) \/ StopCloseOrdered(s)
    BY DEF StrategyNext, StartStrategy, OpenPosition, CheckLimits, OpeningOrdered, OpeningFails,
           ClosePosition, ClosingOrdered, ClosingFails, StopStep, StopFails
  <1>2. StrategyInv' /\ ClosedBefore(positions', Len(positions') + 1)
    BY <1>1, StopStrategyKeeps, StopCloseOrderedKeeps
  <1>3. positions' \in Seq(Listing)
    BY <1>2 DEF StrategyInv, StrategyTypeOK, Listing
  <1>4. (positions \in Seq(Listing)
            => \A k \in Firsts : k \in 1 .. Len(positions) /\ FirstIn(positions, k))'
    BY FirstsAre, PTL
  <1>5. \A k \in Firsts' : k \in 1 .. Len(positions') /\ FirstIn(positions', k)
    BY <1>3, <1>4 DEF FirstIn
  <1>6. \A k \in 1 .. Len(positions') : FirstIn(positions', k) => positions'[k].quantity = 0
    <2>1. Len(positions') \in Nat
      BY <1>3
    <2> QED BY <1>2, <2>1 DEF ClosedBefore
  <1> QED BY <1>5, <1>6

LEMMA InvKeepsLimits == StrategyInv => PositionsInBounds /\ ExposureInBounds /\ SoldPerRequest
  <1> SUFFICES ASSUME StrategyInv PROVE PositionsInBounds /\ ExposureInBounds /\ SoldPerRequest
    OBVIOUS
  <1>0. positions \in Seq(Listing) /\ Len(positions) \in Nat /\ DOMAIN positions = 1 .. Len(positions)
    BY DEF StrategyInv, StrategyTypeOK, Listing
  <1>1. PositionsInBounds /\ ExposureInBounds
    <2>1. Cardinality(Ordering) \in Nat
      BY RequestsCount, NumbersAre DEF Ordering
    <2>2. Exposure \in Nat
      BY <1>0, ExposureIs DEF Exposure
    <2>3. /\ Len(positions) + Cardinality(Ordering) < MaxPositions + Cardinality(Openers)
          /\ Exposure + Cardinality(Ordering) < SectorLimit + Cardinality(Openers)
      BY DEF StrategyInv, RoomIsLeft
    <2> DEFINE x == Exposure
               o == Cardinality(Ordering)
               l == Len(positions)
    <2>4. /\ x \in Nat /\ o \in Nat /\ l \in Nat
          /\ l + o < MaxPositions + Cardinality(Openers) /\ x + o < SectorLimit + Cardinality(Openers)
      BY <1>0, <2>1, <2>2, <2>3
    <2> HIDE DEF x, o, l
    <2>5. l < MaxPositions + Cardinality(Openers) /\ x < SectorLimit + Cardinality(Openers)
      BY <2>4, NumbersAre
    <2> QED BY <2>5 DEF PositionsInBounds, ExposureInBounds, x, l
  <1>2. ASSUME NEW k \in DOMAIN positions
        PROVE  /\ sold[k] <= Cardinality(Closers) + Cardinality(Stoppers)
               /\ positions[k].quantity = 0 => sold[k] > 0
    <2>1. /\ positions[k].quantity # 0 => sold[k] = 0
          /\ positions[k].quantity = 0 =>
                sold[k] > 0 /\ sold[k] + Sales(k) <= Cardinality(Closers) + Cardinality(Stoppers)
      BY <1>0 DEF StrategyInv, SoldOnce
    <2>2. Sales(k) \in Nat /\ sold[k] \in Nat
      BY <1>0, SalesAre, ListedAreEntries
    <2> QED BY <2>1, <2>2, NumbersAre
  <1> QED BY <1>1, <1>2 DEF SoldPerRequest

\* However requests to open, to close and to stop overlap, the limits are passed by no more
\* than the requests that overlapped, a position is sold no more often than requests were
\* closing it, and a stop that ends in good order leaves no first position open.
THEOREM StrategyKeepsItsPromise == StrategySpec => StrategyPromise
  <1>1. StrategyInv => StrategyTypeOK /\ PositionsInBounds /\ ExposureInBounds /\ SoldPerRequest
    BY InvKeepsLimits DEF StrategyInv
  <1>2. StrategyInv /\ [StrategyNext]_strategyVars
          => [(strategyStatus = "active" /\ strategyStatus' = "inactive")
                 => \A k \in Firsts' : positions'[k].quantity = 0]_strategyVars
    BY StopsInOrder
  <1> QED BY <1>1, <1>2, StrategyInvIsInductive, PTL DEF StrategySpec, StrategyPromise, StopClosesFirsts

HIDE StrategyAssumption DEF StrategyAssumption

-------------------------------------------------------------------------------
(* The services together.                                                      *)

\* Beside the other services of the run too, the caches and the clients of the brokers
\* keep what they promise.
THEOREM ClientsKeepTheirPromise == PartsSpec => []ClientsPromise
  <1>1. PartsInit => MetadataInit /\ BrokersInit
    BY DEF PartsInit
  <1>2. [PartsNext]_<<part, allVars>> => [MetadataNext]_metadataVars /\ [BrokersNext]_brokerVars
    BY DEF PartsNext, allVars, BesideStops, BesideStrategies, BesideAlerts, BesideMetadata,
           BesideBrokers
  <1>3. MetadataSpec => []MetadataPromise
    BY MetadataKeepsItsPromise
  <1>4. BrokersSpec => []BrokersPromise
    BY BrokersKeepTheirPromise
  <1> QED BY <1>1, <1>2, <1>3, <1>4, PTL DEF PartsSpec, MetadataSpec, BrokersSpec, ClientsPromise

-------------------------------------------------------------------------------
(* The alerts.                                                                 *)

USE AlertAssumption DEF AlertAssumption

AlertRecords ==
    [status : Statuses, instrument : Watchables, kind : AlertKinds,
     failures : 0 .. MaxCheckFailures]

\* An alert that is not settled may fail once more; who was notified is settled; and a
\* cancellation under way is one of a cancelled alert.
AlertIsFine(a) ==
    /\ alert[a].status \in {"new", "active"} => alert[a].failures < MaxCheckFailures
    /\ alert[a].status = "new" => a \notin listed \cup withdrawing
    /\ notified[a] # 0 => alert[a].status \notin {"new", "active"}
    /\ a \in withdrawing => alert[a].status = "cancelled"

AlertSets ==
    /\ listed \subseteq AlertIds /\ pastDue \subseteq AlertIds /\ withdrawing \subseteq AlertIds
    /\ monitored \subseteq Watchables /\ visiting \subseteq monitored
    /\ monitoring \in {"off", "asleep", "checking", "cleaning", "cancelled"}

AlertsInv ==
    /\ alert \in [AlertIds -> AlertRecords]
    /\ notified \in [AlertIds -> Nat]
    /\ AlertSets
    /\ \A a \in AlertIds : AlertIsFine(a)
    /\ WatchedWhileActive

LEMMA AlertsInitially == AlertsInit => AlertsInv
  <1> SUFFICES ASSUME AlertsInit PROVE AlertsInv
    OBVIOUS
  <1>1. alert \in [AlertIds -> AlertRecords] /\ notified \in [AlertIds -> Nat]
    BY DEF AlertsInit, AlertRecords, Statuses
  <1>2. \A a \in AlertIds : alert[a].status = "new" /\ alert[a].failures = 0
    BY DEF AlertsInit
  <1>3. AlertSets /\ WatchedWhileActive
    BY DEF AlertsInit, AlertSets, WatchedWhileActive, Active
  <1>4. \A a \in AlertIds : AlertIsFine(a)
    BY <1>2 DEF AlertsInit, AlertIsFine
  <1> QED BY <1>1, <1>3, <1>4 DEF AlertsInv

\* What a change of the status does to the records.
LEMMA StatusChanges ==
    ASSUME alert \in [AlertIds -> AlertRecords], NEW a \in AlertIds, NEW s \in Statuses,
           alert' = [alert EXCEPT ![a].status = s]
    PROVE  /\ alert' \in [AlertIds -> AlertRecords]
           /\ alert'[a].status = s /\ alert'[a].failures = alert[a].failures
           /\ alert'[a].instrument = alert[a].instrument
           /\ \A b \in AlertIds : b # a => alert'[b] = alert[b]
  <1> DEFINE record == alert[a]
  <1>1. record \in AlertRecords
    OBVIOUS
  <1>2. alert' = [alert EXCEPT ![a] = [record EXCEPT !.status = s]]
    OBVIOUS
  <1> DEFINE new == [record EXCEPT !.status = s]
  <1>3. /\ new \in AlertRecords /\ new.status = s /\ new.failures = record.failures
        /\ new.instrument = record.instrument
    <2> HIDE DEF record
    <2> QED BY <1>1 DEF AlertRecords
  <1>4. alert' = [alert EXCEPT ![a] = new] /\ record = alert[a]
    BY <1>2
  <1> HIDE DEF new, record
  <1> QED BY <1>3, <1>4

\* What a check makes of an active alert.
LEMMA EvaluatedIs ==
    ASSUME NEW a \in AlertIds, alert[a] \in AlertRecords, alert[a].status = "active",
           alert[a].failures < MaxCheckFailures, NEW triggers \in BOOLEAN
    PROVE  /\ Evaluated(a, triggers) \in AlertRecords
           /\ Evaluated(a, triggers).instrument = alert[a].instrument
           /\ Evaluated(a, triggers).status # "new" /\ Evaluated(a, triggers).status # "cancelled"
           /\ Evaluated(a, triggers).status = "active" =>
                 Evaluated(a, triggers).failures < MaxCheckFailures
           /\ triggers /\ alert[a].kind = "price" /\ a \notin pastDue =>
                 Evaluated(a, triggers).status = "triggered"
  <1> DEFINE record == alert[a]  done == [record EXCEPT !.status = "triggered"]
  <1>1. /\ record \in AlertRecords /\ record.status = "active" /\ record.failures < MaxCheckFailures
        /\ record.failures \in Nat
    BY DEF AlertRecords
  <1>2. /\ done \in AlertRecords /\ done.status = "triggered" /\ done.failures = record.failures
        /\ done.instrument = record.instrument
    <2> HIDE DEF record
    <2> QED BY <1>1 DEF AlertRecords, Statuses
  <1>3. ASSUME NEW r \in AlertRecords, r.failures < MaxCheckFailures
        PROVE  /\ CheckFails(r) \in AlertRecords
               /\ CheckFails(r).instrument = r.instrument
               /\ CheckFails(r).status \in {"error", r.status}
               /\ CheckFails(r).status # "error" => CheckFails(r).failures < MaxCheckFailures
    <2>1. r.failures + 1 \in 0 .. MaxCheckFailures
      BY <1>3 DEF AlertRecords
    <2>2. r.status \in Statuses /\ "error" \in Statuses
      BY DEF AlertRecords, Statuses
    <2> DEFINE new == [r EXCEPT !.failures = r.failures + 1,
                                !.status = IF r.failures + 1 >= MaxCheckFailures THEN "error" ELSE r.status]
    <2>3. CheckFails(r) = new
      BY DEF CheckFails
    <2>4. /\ new.failures = r.failures + 1 /\ new.instrument = r.instrument
          /\ new.status = IF r.failures + 1 >= MaxCheckFailures THEN "error" ELSE r.status
      BY DEF AlertRecords
    <2>5. new \in AlertRecords
      BY <2>1, <2>2 DEF AlertRecords
    <2> HIDE DEF new
    <2>6. r.failures + 1 >= MaxCheckFailures \/ r.failures + 1 < MaxCheckFailures
      BY <2>1
    <2> QED BY <2>3, <2>4, <2>5, <2>6
  <1>4. [record EXCEPT !.status = "expired"] \in AlertRecords
        /\ [record EXCEPT !.status = "expired"].status = "expired"
        /\ [record EXCEPT !.status = "expired"].instrument = record.instrument
    <2> HIDE DEF record
    <2> QED BY <1>1 DEF AlertRecords, Statuses
  <1>5. CASE a \in pastDue
    <2>1. Evaluated(a, triggers) = [record EXCEPT !.status = "expired"]
      BY <1>5 DEF Evaluated
    <2> QED BY <1>4, <1>5, <2>1
  <1>6. CASE a \notin pastDue /\ record.kind = "badValue"
    <2>1. Evaluated(a, triggers) = CheckFails(record)
      BY <1>6 DEF Evaluated
    <2> QED BY <1>1, <1>3, <1>6, <2>1
  <1>7. CASE a \notin pastDue /\ record.kind = "badMessage"
    <2>1. Evaluated(a, triggers) = IF triggers THEN CheckFails(done) ELSE record
      BY <1>7 DEF Evaluated
    <2> HIDE DEF done
    <2> QED BY <1>1, <1>2, <1>3, <1>7, <2>1
  <1>8. CASE a \notin pastDue /\ record.kind = "price"
    <2>1. Evaluated(a, triggers) = IF triggers THEN done ELSE record
      BY <1>8 DEF Evaluated
    <2> HIDE DEF done
    <2> QED BY <1>1, <1>2, <1>8, <2>1
  <1>9. CASE a \notin pastDue /\ record.kind = "other"
    <2>1. Evaluated(a, triggers) = record
      BY <1>9 DEF Evaluated
    <2> QED BY <1>1, <1>9, <2>1
  <1> QED BY <1>1, <1>5, <1>6, <1>7, <1>8, <1>9 DEF AlertRecords, AlertKinds

\* A request changes the status of one alert, or none.
LEMMA RequestsKeepAlerts ==
    ASSUME AlertsInv, NEW a \in AlertIds,
           CreateAlert(a) \/ AlertExpires(a) \/ CancelAlert(a) \/ CancelAnswered(a)
    PROVE  AlertsInv'
  <1>1. /\ alert \in [AlertIds -> AlertRecords] /\ notified \in [AlertIds -> Nat] /\ AlertSets
        /\ \A b \in AlertIds : AlertIsFine(b)
        /\ WatchedWhileActive
    BY DEF AlertsInv
  <1>2. alert[a].instrument \in Watchables
    BY <1>1 DEF AlertRecords
  <1>3. CASE CreateAlert(a)
    <2>1. /\ alert[a].status = "new" /\ alert' = [alert EXCEPT ![a].status = "active"]
          /\ listed' = listed \cup {a} /\ monitored' = monitored \cup {alert[a].instrument}
          /\ UNCHANGED <<pastDue, visiting, withdrawing, notified>>
      BY <1>3 DEF CreateAlert
    <2>2. /\ alert' \in [AlertIds -> AlertRecords]
          /\ alert'[a].status = "active" /\ alert'[a].failures = alert[a].failures
          /\ alert'[a].instrument = alert[a].instrument
          /\ \A b \in AlertIds : b # a => alert'[b] = alert[b]
      BY <1>1, <2>1, StatusChanges DEF Statuses
    <2>3. AlertSets'
      BY <1>1, <1>2, <1>3, <2>1 DEF AlertSets, CreateAlert
    <2>4. \A b \in AlertIds : AlertIsFine(b)'
      BY <1>1, <2>1, <2>2 DEF AlertIsFine
    <2>5. WatchedWhileActive'
      BY <1>1, <2>1, <2>2 DEF WatchedWhileActive, Active, AlertSets
    <2> QED BY <1>1, <2>1, <2>2, <2>3, <2>4, <2>5 DEF AlertsInv
  <1>4. CASE CancelAlert(a)
    <2>1. /\ a \in listed /\ alert' = [alert EXCEPT ![a].status = "cancelled"]
          /\ withdrawing' = withdrawing \cup {a}
          /\ UNCHANGED <<listed, pastDue, monitored, monitoring, visiting, notified>>
      BY <1>4 DEF CancelAlert
    <2>2. /\ alert' \in [AlertIds -> AlertRecords] /\ alert'[a].status = "cancelled"
          /\ \A b \in AlertIds : b # a => alert'[b] = alert[b]
      BY <1>1, <2>1, StatusChanges DEF Statuses
    <2>3. AlertSets'
      BY <1>1, <2>1 DEF AlertSets
    <2>4. \A b \in AlertIds : AlertIsFine(b)'
      BY <1>1, <2>1, <2>2 DEF AlertIsFine
    <2>5. WatchedWhileActive'
      BY <1>1, <2>1, <2>2 DEF WatchedWhileActive, Active, AlertSets
    <2> QED BY <1>1, <2>1, <2>2, <2>3, <2>4, <2>5 DEF AlertsInv
  <1>5. CASE AlertExpires(a) \/ CancelAnswered(a)
    <2>1. /\ alert' = alert /\ notified' = notified /\ listed' \subseteq listed
          /\ withdrawing' \subseteq withdrawing /\ pastDue' \subseteq AlertIds
          /\ UNCHANGED <<monitored, monitoring, visiting>>
      BY <1>1, <1>5 DEF AlertExpires, CancelAnswered, AlertSets
    <2>2. AlertSets'
      BY <1>1, <2>1 DEF AlertSets
    <2>3. \A b \in AlertIds : AlertIsFine(b)'
      BY <1>1, <2>1 DEF AlertIsFine
    <2>4. WatchedWhileActive'
      BY <1>1, <2>1 DEF WatchedWhileActive, Active
    <2> QED BY <1>1, <2>1, <2>2, <2>3, <2>4 DEF AlertsInv
  <1> QED BY <1>3, <1>4, <1>5

LEMMA ChecksAre ==
    ASSUME AlertsInv, NEW triggers \in SUBSET Checked, NEW told,
           told = {a \in triggers : alert[a].kind = "price" /\ a \notin pastDue},
           alert' = [a \in AlertIds |->
                        IF a \in Checked THEN Evaluated(a, a \in triggers) ELSE alert[a]],
           listed' = listed \ told,
           notified' = [a \in AlertIds |-> notified[a] + IF a \in told THEN 1 ELSE 0],
           monitoring' = "cleaning",
           UNCHANGED <<pastDue, monitored, visiting, withdrawing>>
    PROVE  AlertsInv'
  <1>1. /\ alert \in [AlertIds -> AlertRecords] /\ notified \in [AlertIds -> Nat] /\ AlertSets
        /\ \A b \in AlertIds : AlertIsFine(b)
        /\ WatchedWhileActive
    BY DEF AlertsInv
  <1>2. ASSUME NEW a \in AlertIds
        PROVE  /\ alert'[a] \in AlertRecords /\ alert'[a].instrument = alert[a].instrument
               /\ notified'[a] \in Nat
               /\ AlertIsFine(a)'
               /\ alert'[a].status = "active" => alert[a].status = "active"
    <2>1. CASE a \in Checked
      <3>1. alert[a].status = "active" /\ alert[a].failures < MaxCheckFailures /\ a \in listed
        BY <1>1, <2>1 DEF Checked, Active, AlertIsFine
      <3>2. alert'[a] = Evaluated(a, a \in triggers)
        BY <2>1
      <3>3. notified[a] = 0 /\ a \notin withdrawing
        BY <1>1, <3>1 DEF AlertIsFine
      <3>4. notified'[a] = IF a \in told THEN 1 ELSE 0
        BY <3>3
      <3> DEFINE t == a \in triggers  new == alert'[a]
      <3>5. /\ new \in AlertRecords /\ new.instrument = alert[a].instrument
            /\ new.status # "new" /\ new.status # "cancelled"
            /\ new.status = "active" => new.failures < MaxCheckFailures
            /\ t /\ alert[a].kind = "price" /\ a \notin pastDue => new.status = "triggered"
        <4>1. t \in BOOLEAN /\ alert[a] \in AlertRecords
          BY <1>1
        <4>2. new = Evaluated(a, t)
          BY <3>2
        <4> HIDE DEF t, new
        <4> QED BY <3>1, <4>1, <4>2, EvaluatedIs
      <3>6. a \in told => new.status = "triggered"
        BY <3>5
      <3> HIDE DEF new
      <3> QED BY <3>1, <3>3, <3>4, <3>5, <3>6 DEF AlertIsFine, new
    <2>2. CASE a \notin Checked
      <3>1. alert'[a] = alert[a] /\ a \notin told
        BY <2>2
      <3>2. notified'[a] = notified[a]
        BY <1>1, <3>1
      <3> QED BY <1>1, <3>1, <3>2 DEF AlertIsFine
    <2> QED BY <2>1, <2>2
  <1>3. alert' \in [AlertIds -> AlertRecords] /\ notified' \in [AlertIds -> Nat]
    <2>1. /\ \A a \in AlertIds : alert'[a] \in AlertRecords /\ notified'[a] \in Nat
      BY <1>2
    <2> QED BY <2>1
  <1>4. AlertSets'
    BY <1>1 DEF AlertSets
  <1>5. WatchedWhileActive'
    BY <1>1, <1>2 DEF WatchedWhileActive, Active, AlertSets
  <1> QED BY <1>2, <1>3, <1>4, <1>5 DEF AlertsInv

LEMMA LoopKeepsAlerts ==
    ASSUME AlertsInv,
           ShutdownAlerts \/ LoopEnds \/ LoopLooks \/ CleanupPriceSubscriptions
    PROVE  AlertsInv'
  <1>1. /\ AlertSets /\ WatchedWhileActive /\ \A b \in AlertIds : AlertIsFine(b)
        /\ alert \in [AlertIds -> AlertRecords] /\ notified \in [AlertIds -> Nat]
    BY DEF AlertsInv
  <1>2. UNCHANGED <<alert, listed, pastDue, withdrawing, notified>>
    BY DEF ShutdownAlerts, LoopEnds, LoopLooks, CleanupPriceSubscriptions
  <1>3. AlertSets'
    BY <1>1, <1>2 DEF AlertSets, ShutdownAlerts, LoopEnds, LoopLooks, CleanupPriceSubscriptions
  <1>4. WatchedWhileActive'
    BY <1>1, <1>2 DEF WatchedWhileActive, Active, Unwatched, ShutdownAlerts, LoopEnds, LoopLooks,
                      CleanupPriceSubscriptions
  <1> QED BY <1>1, <1>2, <1>3, <1>4 DEF AlertsInv, AlertIsFine

LEMMA AlertsInvIsInductive == AlertsInv /\ [AlertsNext]_alertVars => AlertsInv'
  <1> SUFFICES ASSUME AlertsInv, [AlertsNext]_alertVars PROVE AlertsInv'
    OBVIOUS
  <1>1. CASE CheckInstruments
    BY <1>1, ChecksAre DEF CheckInstruments
  <1>2. CASE UNCHANGED alertVars
    BY <1>2 DEF alertVars, AlertsInv, AlertSets, AlertIsFine, WatchedWhileActive, Active
  <1> QED
    BY <1>1, <1>2, RequestsKeepAlerts, LoopKeepsAlerts DEF AlertsNext, MonitoringStep

LEMMA InvIsTypedAlerts == AlertsInv => AlertTypeOK /\ WatchedWhileActive
  BY DEF AlertsInv, AlertSets, AlertIsFine, AlertTypeOK, AlertRecords

\* Only the checks notify, and only of an alert that is active.
LEMMA NotifiedWhileActive ==
    ASSUME AlertsInv, [AlertsNext]_alertVars, NEW a \in AlertIds, notified'[a] # notified[a]
    PROVE  notified[a] = 0 /\ alert[a].status = "active"
  <1>1. CheckInstruments
    BY DEF AlertsNext, alertVars, MonitoringStep, CreateAlert, AlertExpires, CancelAlert,
           CancelAnswered, ShutdownAlerts, LoopEnds, LoopLooks, CleanupPriceSubscriptions
  <1>2. PICK triggers \in SUBSET Checked :
            notified' = [b \in AlertIds |-> notified[b] +
                IF b \in {c \in triggers : alert[c].kind = "price" /\ c \notin pastDue} THEN 1 ELSE 0]
    BY <1>1 DEF CheckInstruments
  <1>3. notified[a] \in Nat
    BY DEF AlertsInv
  <1>4. a \in Checked
    BY <1>2, <1>3
  <1> QED BY <1>4 DEF AlertsInv, AlertIsFine, Checked, Active

\* For any alerts and instruments: an active alert is watched, nobody is notified twice or
\* of an alert that was settled, and a cancelled alert stays cancelled.
THEOREM AlertsSettleOnce ==
    AlertsSpec => [](AlertTypeOK /\ WatchedWhileActive) /\ SettledIsSilent /\ CancelledStays
  <1>1. AlertsInv /\ [AlertsNext]_alertVars
            => [\A a \in AlertIds :
                  notified'[a] # notified[a] => notified[a] = 0 /\ alert[a].status = "active"]_alertVars
    BY NotifiedWhileActive
  <1>2. AlertsInv /\ [AlertsNext]_alertVars
            => [\A a \in AlertIds : a \in withdrawing => alert'[a].status = "cancelled"]_alertVars
    <2>1. ASSUME AlertsInv, [AlertsNext]_alertVars, NEW a \in AlertIds, a \in withdrawing,
                 alert'[a].status # "cancelled"
          PROVE  FALSE
      <3>1. alert[a].status = "cancelled" /\ alert \in [AlertIds -> AlertRecords]
        BY <2>1 DEF AlertsInv, AlertIsFine
      <3>2. \A b \in AlertIds : CreateAlert(b) \/ CancelAlert(b) => b # a
        BY <2>1, <3>1 DEF CreateAlert, CancelAlert
      <3>3. \A b \in AlertIds : CreateAlert(b) \/ CancelAlert(b) => alert'[a] = alert[a]
        BY <3>1, <3>2 DEF CreateAlert, CancelAlert
      <3>4. CheckInstruments => alert'[a] = alert[a]
        <4>1. a \notin Checked
          BY <3>1 DEF Checked, Active
        <4> QED BY <4>1 DEF CheckInstruments
      <3> QED
        BY <2>1, <3>1, <3>3, <3>4
           DEF AlertsNext, alertVars, MonitoringStep, AlertExpires, CancelAnswered, ShutdownAlerts,
               LoopEnds, LoopLooks, CleanupPriceSubscriptions
    <2> QED BY <2>1
  <1> QED
    BY AlertsInitially, AlertsInvIsInductive, InvIsTypedAlerts, <1>1, <1>2, PTL
       DEF AlertsSpec, SettledIsSilent, CancelledStays

HIDE AlertAssumption DEF AlertAssumption

-------------------------------------------------------------------------------
(* The trailing stops.                                                         *)

USE StopsAssumption DEF StopsAssumption

StopRecords == [side : Sides, peak : Int, stop : Int]
StopStatuses == {"none", "active", "triggered", "cancelled", "expired", "error"}
CheckEntries == StopIds \X Objects

StopsTyped ==
    /\ price \in Prices
    /\ stops \in [StopIds -> Objects \cup {Nobody}]
    /\ stopStatus \in [StopIds -> StopStatuses]
    /\ config \in [Objects -> StopRecords \cup {None}]
    /\ overdue \subseteq Objects /\ thisSecond \subseteq StopIds
    /\ watched \in BOOLEAN /\ lastPrice \in Prices \cup {0}
    /\ loop \in LoopStates /\ seenPrice \in Prices \cup {0}
    /\ loop \in {"off", "sleep", "quote"} => seenPrice = 0
    /\ toCheck \in Seq(CheckEntries)
    /\ (loop \in {"metadata", "order"}) = (toCheck # <<>>)
    /\ sent \in [Objects -> Nat]
    /\ withdrawn \subseteq Objects

\* An object that was made goes by one name at most, is ordered at most once, and not at
\* all once it was withdrawn.  An active one was ordered only if the loop waits for that
\* order.
Ordered(o) == loop = "order" /\ toCheck[1][2] = o
ObjectsAgree ==
    /\ \A o \in Objects : sent[o] <= 1 /\ (config[o] = None => sent[o] = 0 /\ o \notin withdrawn)
    /\ \A i \in StopIds : stops[i] \in Objects => config[stops[i]] # None
    /\ \A i, j \in StopIds : stops[i] \in Objects /\ stops[i] = stops[j] => i = j
    /\ \A i \in StopIds : stopStatus[i] = "active" =>
          /\ stops[i] \in Objects /\ stops[i] \notin withdrawn
          /\ sent[stops[i]] = 0 \/ Ordered(stops[i])
    /\ \A o \in withdrawn : sent[o] = 0

\* The loop looks at objects that go by the names it knows, at each of them once.
EntryAgrees(e) ==
    /\ config[e[2]] # None /\ e[2] \notin withdrawn
    /\ \A j \in StopIds : stops[j] = e[2] => j = e[1]
ListAgrees(list) ==
    /\ \A k \in DOMAIN list : EntryAgrees(list[k])
    /\ \A k, m \in DOMAIN list : list[k][2] = list[m][2] => k = m

LoopAgrees ==
    /\ ListAgrees(toCheck)
    /\ \A k \in DOMAIN toCheck :
          sent[toCheck[k][2]] = IF k = 1 /\ loop = "order" THEN 1 ELSE 0

StopsInv == StopsTyped /\ ActiveIsWatched /\ ObjectsAgree /\ LoopAgrees

LEMMA NoneIsNone == None \notin StopRecords
  BY DEF None, StopRecords, Sides

LEMMA StopsInitially == StopsInit => StopsInv
  <1> SUFFICES ASSUME StopsInit PROVE StopsInv
    OBVIOUS
  <1>1. price \in Prices
    <2>1. Prices \in SUBSET Nat /\ Prices # {}
      OBVIOUS
    <2>2. \E p \in Prices : \A q \in Prices : p <= q
      BY <2>1, LeastIs
    <2> QED BY <2>2 DEF StopsInit
  <1>2. StopsTyped
    <2>1. /\ stops \in [StopIds -> Objects \cup {Nobody}]
          /\ stopStatus \in [StopIds -> StopStatuses]
          /\ config \in [Objects -> StopRecords \cup {None}]
          /\ sent \in [Objects -> Nat]
      BY DEF StopsInit, StopStatuses
    <2>2. toCheck = <<>> /\ toCheck \in Seq(CheckEntries)
      BY DEF StopsInit
    <2>3. /\ loop = "off" /\ loop \in LoopStates /\ seenPrice = 0 /\ lastPrice = 0
          /\ watched \in BOOLEAN /\ withdrawn \subseteq Objects
          /\ overdue \subseteq Objects /\ thisSecond \subseteq StopIds
      BY DEF StopsInit, LoopStates
    <2>4. (loop \in {"metadata", "order"}) = (toCheck # <<>>)
      BY <2>2, <2>3
    <2> HIDE DEF StopsAssumption
    <2> QED BY <1>1, <2>1, <2>2, <2>3, <2>4 DEF StopsTyped
  <1>3. ActiveIsWatched /\ ObjectsAgree /\ LoopAgrees
    BY DEF StopsInit, ActiveIsWatched, ObjectsAgree, LoopAgrees, ListAgrees
  <1> QED BY <1>2, <1>3 DEF StopsInv

\* A price tightens a stop or leaves it where it is.
LEMMA TrailedTightens ==
    ASSUME NEW c \in StopRecords, NEW p \in Int
    PROVE  /\ Trailed(c, p) \in StopRecords /\ ~Better(c, c.stop, Trailed(c, p).stop)
           /\ Touched(c, p) \in StopRecords /\ ~Better(c, c.stop, Touched(c, p).stop)
  <1> DEFINE b == Behind(c, p)  best == [c EXCEPT !.peak = p]
             to == IF Better(c, b, c.stop) THEN b ELSE c.stop
             moved == [c EXCEPT !.peak = p, !.stop = to]
  <1>1. b \in Int /\ c.stop \in Int
    BY DEF Behind, StopRecords
  <1>2. to \in Int /\ ~Better(c, c.stop, to) /\ ~Better(c, c.stop, c.stop)
    <2> HIDE DEF b
    <2> QED BY <1>1 DEF Better
  <1>3. best \in StopRecords /\ best.stop = c.stop
    BY DEF StopRecords
  <1>4. moved \in StopRecords /\ moved.stop = to
    <2> HIDE DEF to
    <2> QED BY <1>2 DEF StopRecords
  <1>5. Trailed(c, p) = IF ~Better(c, p, c.peak) THEN c ELSE moved
    BY DEF Trailed
  <1>6. Touched(c, p) = IF Better(c, p, c.peak) THEN best ELSE c
    BY DEF Touched
  <1> HIDE DEF moved, best, to, b
  <1> QED BY <1>2, <1>3, <1>4, <1>5, <1>6

\* What a round of the loop does with what it has left to look at.
WalkRest(list, p) ==
    \/ toCheck' = <<>> /\ loop' = "sleep" /\ seenPrice' = 0
    \/ \E first \in 1 .. Len(list) :
          toCheck' = SubSeq(list, first, Len(list)) /\ loop' = "metadata" /\ seenPrice' = p

WalkOutcome(list, p, last, status) ==
    /\ stopStatus' \in [StopIds -> StopStatuses]
    /\ \A i \in StopIds : stopStatus'[i] = "active" => status[i] = "active"
    /\ config' \in [Objects -> StopRecords \cup {None}]
    /\ \A o \in Objects : (config'[o] = None) = (config[o] = None)
    /\ \A o \in Objects : config[o] # None =>
          ~Better(config[o], config[o].stop, config'[o].stop)
    /\ WalkRest(list, p)
    /\ \/ watched' = watched /\ lastPrice' = last
       \/ /\ watched' = FALSE /\ lastPrice' = 0
          /\ \A i \in StopIds : stopStatus'[i] # "active"

LEMMA WalkIs ==
    ASSUME StopsTyped, NEW list \in Seq(CheckEntries), NEW p \in Prices \cup {0}, NEW last,
           NEW status \in [StopIds -> StopStatuses],
           \A k \in DOMAIN list : config[list[k][2]] # None,
           Walk(list, p, last, status)
    PROVE  WalkOutcome(list, p, last, status)
  <1> DEFINE hits == {k \in DOMAIN list : Triggers(list[k], p)}
             first == CHOOSE k \in hits : \A m \in hits : k <= m
             done == IF hits = {} THEN ToSet(list) ELSE ToSet(SubSeq(list, 1, first - 1))
             gone == {e[1] : e \in {d \in done : d[2] \in overdue}}
             kept == {e[2] : e \in {d \in done : d[2] \notin overdue}}
  <1>1. /\ stopStatus' = [i \in StopIds |-> IF i \in gone THEN "expired" ELSE status[i]]
        /\ config' = [o \in Objects |->
                        IF o \in kept THEN Trailed(config[o], p)
                        ELSE IF hits # {} /\ o = list[first][2] THEN Touched(config[o], p)
                        ELSE config[o]]
        /\ toCheck' = IF hits = {} THEN <<>> ELSE SubSeq(list, first, Len(list))
        /\ loop' = IF hits = {} THEN "sleep" ELSE "metadata"
        /\ seenPrice' = IF hits = {} THEN 0 ELSE p
        /\ IF hits = {} /\ \A i \in StopIds : stopStatus'[i] # "active"
           THEN watched' = FALSE /\ lastPrice' = 0
           ELSE watched' = watched /\ lastPrice' = last
    BY DEF Walk
  <1>2. hits # {} => first \in hits
    <2>1. hits \in SUBSET Nat
      OBVIOUS
    <2>2. hits # {} => \E m \in hits : \A n \in hits : m <= n
      BY <2>1, LeastIs
    <2> HIDE DEF hits
    <2> QED BY <2>2
  <1>3. DOMAIN list = 1 .. Len(list) /\ Len(list) \in Nat
    OBVIOUS
  <1>4. hits # {} => first \in 1 .. Len(list) /\ first \in DOMAIN list
    BY <1>2, <1>3
  <1>5. \A e \in done : \E k \in DOMAIN list : e = list[k]
    <2>1. hits # {} => \A k \in DOMAIN SubSeq(list, 1, first - 1) :
                            k \in DOMAIN list /\ SubSeq(list, 1, first - 1)[k] = list[k]
      <3> HIDE DEF first, hits
      <3> QED BY <1>3, <1>4
    <2> QED BY <2>1 DEF ToSet
  <1>6. \A o \in kept : config[o] # None
    BY <1>5
  <1>7. hits # {} => config[list[first][2]] # None
    BY <1>4
  <1> HIDE DEF hits, first, done, gone, kept
  <1>8. ASSUME NEW o \in Objects
        PROVE  /\ config'[o] \in StopRecords \cup {None}
               /\ (config'[o] = None) = (config[o] = None)
               /\ config[o] # None => ~Better(config[o], config[o].stop, config'[o].stop)
    <2>1. config[o] \in StopRecords \cup {None} /\ p \in Int
      BY DEF StopsTyped
    <2>2. config'[o] \in {config[o], Trailed(config[o], p), Touched(config[o], p)}
      BY <1>1
    <2>3. config[o] = None => config'[o] = None
      BY <1>1, <1>6, <1>7
    <2>4. config[o] # None => ~Better(config[o], config[o].stop, config[o].stop)
      BY <2>1 DEF Better, StopRecords
    <2> QED BY <2>1, <2>2, <2>3, <2>4, TrailedTightens, NoneIsNone
  <1>9. config' \in [Objects -> StopRecords \cup {None}]
    BY <1>1, <1>8
  <1>10. stopStatus' \in [StopIds -> StopStatuses]
         /\ \A i \in StopIds : stopStatus'[i] = "active" => status[i] = "active"
    BY <1>1 DEF StopStatuses
  <1>11. WalkRest(list, p)
    BY <1>1, <1>4 DEF WalkRest
  <1>12. \/ watched' = watched /\ lastPrice' = last
         \/ /\ watched' = FALSE /\ lastPrice' = 0
            /\ \A i \in StopIds : stopStatus'[i] # "active"
    BY <1>1
  <1> HIDE DEF StopsAssumption
  <1> QED BY <1>8, <1>9, <1>10, <1>11, <1>12 DEF WalkOutcome

\* A round, or what is left of one, over objects that agree and were not ordered.
LEMMA WalkKeeps ==
    ASSUME StopsInv, NEW list \in Seq(CheckEntries), NEW p \in Prices \cup {0},
           NEW last \in Prices \cup {0}, NEW status \in [StopIds -> StopStatuses],
           ListAgrees(list), \A k \in DOMAIN list : sent[list[k][2]] = 0,
           \A i \in StopIds : status[i] = "active" =>
               stopStatus[i] = "active" /\ sent[stops[i]] = 0,
           Walk(list, p, last, status),
           UNCHANGED <<price, stops, overdue, thisSecond, sent, withdrawn>>
    PROVE  StopsInv'
  <1>1. StopsTyped /\ ActiveIsWatched /\ ObjectsAgree /\ LoopAgrees
    BY DEF StopsInv
  <1>2. \A k \in DOMAIN list : config[list[k][2]] # None
    BY DEF ListAgrees, EntryAgrees
  <1>0. WalkOutcome(list, p, last, status)
    BY <1>1, <1>2, WalkIs
  <1>3. /\ stopStatus' \in [StopIds -> StopStatuses]
        /\ \A i \in StopIds : stopStatus'[i] = "active" => status[i] = "active"
        /\ config' \in [Objects -> StopRecords \cup {None}]
        /\ \A o \in Objects : (config'[o] = None) = (config[o] = None)
        /\ WalkRest(list, p)
        /\ \/ watched' = watched /\ lastPrice' = last
           \/ /\ watched' = FALSE /\ lastPrice' = 0
              /\ \A i \in StopIds : stopStatus'[i] # "active"
    BY <1>0 DEF WalkOutcome
  <1>4. DOMAIN list = 1 .. Len(list) /\ Len(list) \in Nat
    OBVIOUS
  <1>5. PICK m \in 0 .. Len(list) :
            /\ toCheck' \in Seq(CheckEntries)
            /\ DOMAIN toCheck' = 1 .. Len(list) - m
            /\ \A k \in 1 .. Len(list) - m : toCheck'[k] = list[k + m] /\ k + m \in DOMAIN list
            /\ loop' \in {"sleep", "metadata"} /\ (loop' = "metadata") = (toCheck' # <<>>)
            /\ loop' = "sleep" => seenPrice' = 0
            /\ seenPrice' \in Prices \cup {0}
    <2>1. CASE toCheck' = <<>> /\ loop' = "sleep" /\ seenPrice' = 0
      BY <1>4, <2>1
    <2>2. ASSUME NEW first \in 1 .. Len(list), toCheck' = SubSeq(list, first, Len(list)),
                 loop' = "metadata", seenPrice' = p
          PROVE  /\ toCheck' \in Seq(CheckEntries)
                 /\ DOMAIN toCheck' = 1 .. Len(list) - (first - 1)
                 /\ \A k \in 1 .. Len(list) - (first - 1) :
                        toCheck'[k] = list[k + (first - 1)] /\ k + (first - 1) \in DOMAIN list
                 /\ toCheck' # <<>>
      <3>1. toCheck' \in Seq(CheckEntries) /\ Len(toCheck') = Len(list) - first + 1
        BY <1>4, <2>2
      <3>2. \A k \in 1 .. Len(list) - first + 1 :
                toCheck'[k] = list[first + k - 1] /\ first + k - 1 = k + (first - 1)
        BY <1>4, <2>2
      <3> QED BY <1>4, <3>1, <3>2
    <2>3. \A first \in 1 .. Len(list) : first - 1 \in 0 .. Len(list)
      BY <1>4
    <2> QED BY <1>3, <2>1, <2>2, <2>3 DEF WalkRest
  <1>6. StopsTyped'
    <2>1. /\ watched' \in BOOLEAN /\ lastPrice' \in Prices \cup {0}
      BY <1>1, <1>3 DEF StopsTyped
    <2>2. (loop' \in {"metadata", "order"}) = (toCheck' # <<>>)
      BY <1>5
    <2>3. loop' \in LoopStates /\ (loop' \in {"off", "sleep", "quote"} => seenPrice' = 0)
      BY <1>5 DEF LoopStates
    <2> HIDE DEF StopsAssumption
    <2> QED BY <1>1, <1>3, <1>5, <2>1, <2>2, <2>3 DEF StopsTyped
  <1>7. ActiveIsWatched'
    BY <1>1, <1>3, <1>5 DEF ActiveIsWatched
  <1>8. ObjectsAgree'
    <2>1. \A i \in StopIds : stops'[i] \in Objects => config'[stops'[i]] # None
      BY <1>1, <1>3 DEF ObjectsAgree
    <2>2. \A i \in StopIds : stopStatus'[i] = "active" =>
              stops'[i] \in Objects /\ stops'[i] \notin withdrawn' /\ sent'[stops'[i]] = 0
      BY <1>1, <1>3 DEF ObjectsAgree
    <2>3. \A o \in Objects : config'[o] = None => sent'[o] = 0 /\ o \notin withdrawn'
      BY <1>1, <1>3 DEF ObjectsAgree
    <2> QED BY <1>1, <2>1, <2>2, <2>3 DEF ObjectsAgree
  <1>9. LoopAgrees'
    <2>1. \A k \in DOMAIN list : list[k][2] \in Objects
      BY DEF CheckEntries
    <2>2. \A k \in DOMAIN list : EntryAgrees(list[k])'
      BY <1>3, <2>1 DEF ListAgrees, EntryAgrees
    <2>3. \A k \in DOMAIN toCheck' :
              /\ config'[toCheck'[k][2]] # None /\ toCheck'[k][2] \notin withdrawn'
              /\ \A j \in StopIds : stops'[j] = toCheck'[k][2] => j = toCheck'[k][1]
      <3> SUFFICES ASSUME NEW k \in DOMAIN toCheck'
                   PROVE  /\ config'[toCheck'[k][2]] # None
                          /\ toCheck'[k][2] \notin withdrawn'
                          /\ \A j \in StopIds : stops'[j] = toCheck'[k][2] => j = toCheck'[k][1]
        OBVIOUS
      <3>1. k + m \in DOMAIN list /\ toCheck'[k] = list[k + m]
        BY <1>5
      <3>2. EntryAgrees(list[k + m])'
        BY <2>2, <3>1
      <3> QED BY <3>1, <3>2 DEF EntryAgrees
    <2>4. \A k, l \in DOMAIN toCheck' : toCheck'[k][2] = toCheck'[l][2] => k = l
      <3> SUFFICES ASSUME NEW k \in DOMAIN toCheck', NEW l \in DOMAIN toCheck',
                          toCheck'[k][2] = toCheck'[l][2]
                   PROVE  k = l
        OBVIOUS
      <3>1. /\ k + m \in DOMAIN list /\ toCheck'[k] = list[k + m]
            /\ l + m \in DOMAIN list /\ toCheck'[l] = list[l + m]
        BY <1>5
      <3>2. k + m = l + m
        BY <3>1 DEF ListAgrees
      <3>3. k \in Int /\ l \in Int /\ m \in Int
        BY <1>4, <1>5
      <3> QED BY <3>2, <3>3
    <2>5. ASSUME NEW k \in DOMAIN toCheck' PROVE sent'[toCheck'[k][2]] = 0
      <3>1. k + m \in DOMAIN list /\ toCheck'[k] = list[k + m]
        BY <1>5
      <3> QED BY <3>1
    <2> QED BY <1>5, <2>3, <2>4, <2>5 DEF LoopAgrees, ListAgrees, EntryAgrees
  <1> QED BY <1>6, <1>7, <1>8, <1>9 DEF StopsInv


LEMMA CreateKeeps ==
    ASSUME StopsInv, NEW side \in Sides, NEW at \in InitialStops, CreateStop(side, at)
    PROVE  /\ StopsInv'
           /\ \A o \in Objects : config[o] # None => config'[o] = config[o]
  <1> DEFINE i == NameNow  o == NewObject
             record == [side |-> side, peak |-> at, stop |-> at]
  <1>1. StopsTyped /\ ObjectsAgree /\ LoopAgrees
    BY DEF StopsInv
  <1>2. o \in Objects /\ config[o] = None
    BY DEF CreateStop, NewObject
  <1>3. i \in StopIds
    <2>1. CASE thisSecond # {}
      BY <1>1, <2>1 DEF NameNow, StopsTyped
    <2>2. CASE thisSecond = {}
      BY <2>2 DEF NameNow, CreateStop
    <2> QED BY <2>1, <2>2
  <1>4. record \in StopRecords /\ record # None
    <2>1. at \in Int
      OBVIOUS
    <2>2. record \in StopRecords
      BY <2>1 DEF StopRecords
    <2> QED BY <2>2, NoneIsNone
  <1>5. /\ stops' = [stops EXCEPT ![i] = o]
        /\ stopStatus' = [stopStatus EXCEPT ![i] = "active"]
        /\ config' = [config EXCEPT ![o] = record]
        /\ thisSecond' = thisSecond \cup {i}
        /\ watched' = TRUE /\ lastPrice' = lastPrice
        /\ loop' = IF loop = "off" THEN "sleep" ELSE loop
        /\ UNCHANGED <<price, overdue, toCheck, seenPrice, sent, withdrawn>>
    BY DEF CreateStop, Subscribe, StartMonitoring
  <1> HIDE DEF i, o, record
  <1> HIDE DEF StopsAssumption
  <1>6. /\ stops' \in [StopIds -> Objects \cup {Nobody}]
        /\ \A j \in StopIds : stops'[j] = IF j = i THEN o ELSE stops[j]
        /\ stopStatus' \in [StopIds -> StopStatuses]
        /\ \A j \in StopIds : stopStatus'[j] = IF j = i THEN "active" ELSE stopStatus[j]
    BY <1>1, <1>2, <1>3, <1>5 DEF StopsTyped, StopStatuses
  <1>7. /\ config' \in [Objects -> StopRecords \cup {None}]
        /\ \A q \in Objects : config'[q] = IF q = o THEN record ELSE config[q]
    BY <1>1, <1>2, <1>4, <1>5 DEF StopsTyped
  <1>8. /\ loop' \in LoopStates
        /\ (loop' \in {"off", "sleep", "quote"} => seenPrice' = 0)
        /\ (loop' \in {"metadata", "order"}) = (loop \in {"metadata", "order"})
        /\ (loop' = "order") = (loop = "order")
        /\ loop' # "off"
    BY <1>1, <1>5 DEF StopsTyped, LoopStates
  <1>9. StopsTyped'
    <2>1. (loop' \in {"metadata", "order"}) = (toCheck' # <<>>)
      BY <1>1, <1>5, <1>8 DEF StopsTyped
    <2>2. watched' \in BOOLEAN /\ lastPrice' \in Prices \cup {0} /\ price' \in Prices
          /\ seenPrice' \in Prices \cup {0} /\ thisSecond' \subseteq StopIds
          /\ overdue' \subseteq Objects /\ withdrawn' \subseteq Objects
          /\ toCheck' \in Seq(CheckEntries) /\ sent' \in [Objects -> Nat]
      BY <1>1, <1>3, <1>5 DEF StopsTyped
    <2> QED BY <1>6, <1>7, <1>8, <2>1, <2>2 DEF StopsTyped
  <1>10. ActiveIsWatched'
    BY <1>5, <1>8 DEF ActiveIsWatched
  <1>11. sent[o] = 0 /\ o \notin withdrawn /\ \A j \in StopIds : stops[j] # o
    BY <1>1, <1>2 DEF ObjectsAgree
  <1>12. ObjectsAgree'
    <2>1. \A q \in Objects : sent'[q] <= 1
                             /\ (config'[q] = None => sent'[q] = 0 /\ q \notin withdrawn')
      BY <1>1, <1>2, <1>5, <1>7, <1>11 DEF ObjectsAgree
    <2>2. \A j \in StopIds : stops'[j] \in Objects => config'[stops'[j]] # None
      BY <1>1, <1>2, <1>4, <1>6, <1>7 DEF ObjectsAgree
    <2>3. \A j, k \in StopIds : stops'[j] \in Objects /\ stops'[j] = stops'[k] => j = k
      BY <1>1, <1>6, <1>11 DEF ObjectsAgree
    <2>4. \A j \in StopIds : stopStatus'[j] = "active" =>
              /\ stops'[j] \in Objects /\ stops'[j] \notin withdrawn'
              /\ sent'[stops'[j]] = 0 \/ (loop' = "order" /\ toCheck'[1][2] = stops'[j])
      BY <1>1, <1>2, <1>5, <1>6, <1>8, <1>11 DEF ObjectsAgree, Ordered
    <2>5. \A q \in withdrawn' : sent'[q] = 0
      BY <1>1, <1>5 DEF ObjectsAgree
    <2> QED BY <2>1, <2>2, <2>3, <2>4, <2>5 DEF ObjectsAgree, Ordered
  <1>13. LoopAgrees'
    <2>1. \A k \in DOMAIN toCheck : toCheck[k][2] \in Objects /\ toCheck[k][2] # o
      BY <1>1, <1>2 DEF LoopAgrees, ListAgrees, EntryAgrees, StopsTyped, CheckEntries
    <2>2. \A k \in DOMAIN toCheck : EntryAgrees(toCheck[k])'
      BY <1>1, <1>5, <1>6, <1>7, <2>1 DEF LoopAgrees, ListAgrees, EntryAgrees
    <2>3. toCheck' = toCheck /\ sent' = sent
      BY <1>5
    <2> QED BY <1>1, <1>8, <2>2, <2>3 DEF LoopAgrees, ListAgrees, EntryAgrees
  <1> QED BY <1>2, <1>7, <1>9, <1>10, <1>12, <1>13 DEF StopsInv

LEMMA CancelKeeps ==
    ASSUME StopsInv, NEW i \in StopIds, CancelStop(i)
    PROVE  StopsInv'
  <1> HIDE DEF StopsAssumption
  <1>1. StopsTyped /\ ActiveIsWatched /\ ObjectsAgree /\ LoopAgrees
    BY DEF StopsInv
  <1>2. stopStatus[i] = "active" /\ stops[i] \in Objects /\ stops[i] \notin withdrawn
    BY <1>1 DEF CancelStop, ObjectsAgree
  <1>3. /\ stopStatus' \in [StopIds -> StopStatuses]
        /\ \A j \in StopIds : stopStatus'[j] = IF j = i THEN "cancelled" ELSE stopStatus[j]
    BY <1>1 DEF StopsTyped, StopStatuses, CancelStop
  <1>4. UNCHANGED <<price, stops, config, overdue, thisSecond, watched, lastPrice,
                    loop, toCheck, seenPrice, sent>>
    BY DEF CancelStop
  <1>5. \A o \in withdrawn' : o \in withdrawn \/ (o = stops[i] /\ toCheck = <<>>)
    BY DEF CancelStop
  <1>6. withdrawn' \subseteq Objects
    BY <1>1, <1>2, <1>5 DEF StopsTyped
  <1>7. StopsTyped'
    BY <1>1, <1>3, <1>4, <1>6 DEF StopsTyped
  <1>8. toCheck = <<>> => sent[stops[i]] = 0 /\ loop # "order"
    BY <1>1, <1>2 DEF ObjectsAgree, Ordered, StopsTyped
  <1>9. ObjectsAgree'
    <2>1. \A o \in Objects : config'[o] = None => sent'[o] = 0 /\ o \notin withdrawn'
      BY <1>1, <1>2, <1>4, <1>5 DEF ObjectsAgree
    <2>2. \A o \in withdrawn' : sent'[o] = 0
      BY <1>1, <1>4, <1>5, <1>8 DEF ObjectsAgree
    <2>3. \A j \in StopIds : stopStatus'[j] = "active" =>
              stopStatus[j] = "active" /\ stops[j] \notin withdrawn'
      BY <1>1, <1>2, <1>3, <1>5 DEF ObjectsAgree
    <2>4. \A j \in StopIds : stopStatus'[j] = "active" =>
              /\ stops'[j] \in Objects /\ stops'[j] \notin withdrawn'
              /\ sent'[stops'[j]] = 0 \/ (loop' = "order" /\ toCheck'[1][2] = stops'[j])
      BY <1>1, <1>4, <2>3 DEF ObjectsAgree, Ordered
    <2> QED BY <1>1, <1>4, <2>1, <2>2, <2>4 DEF ObjectsAgree, Ordered
  <1>10. LoopAgrees'
    <2>1. toCheck' = toCheck /\ sent' = sent /\ config' = config /\ stops' = stops /\ loop' = loop
      BY <1>4
    <2>2. \A k \in DOMAIN toCheck : toCheck[k][2] \notin withdrawn'
      BY <1>1, <1>5 DEF LoopAgrees, ListAgrees, EntryAgrees
    <2> QED BY <1>1, <2>1, <2>2 DEF LoopAgrees, ListAgrees, EntryAgrees
  <1>11. ActiveIsWatched'
    BY <1>1, <1>3, <1>4 DEF ActiveIsWatched
  <1> QED BY <1>7, <1>9, <1>10, <1>11 DEF StopsInv


LEMMA SendKeeps ==
    ASSUME StopsInv, SendOrder
    PROVE  StopsInv'
  <1> HIDE DEF StopsAssumption
  <1> DEFINE o == toCheck[1][2]
  <1>1. StopsTyped /\ ActiveIsWatched /\ ObjectsAgree /\ LoopAgrees
    BY DEF StopsInv
  <1>2. toCheck \in Seq(CheckEntries) /\ toCheck # <<>> /\ loop = "metadata"
    BY <1>1 DEF StopsTyped, SendOrder
  <1>3. 1 \in DOMAIN toCheck /\ o \in Objects /\ Head(toCheck) = toCheck[1]
    BY <1>2 DEF CheckEntries
  <1>4. /\ loop' = "order" /\ sent' = [sent EXCEPT ![o] = @ + 1]
        /\ UNCHANGED <<price, stops, stopStatus, config, overdue, thisSecond, watched,
                       lastPrice, toCheck, seenPrice, withdrawn>>
    BY <1>3 DEF SendOrder
  <1>5. sent[o] = 0 /\ EntryAgrees(toCheck[1])
    BY <1>1, <1>2, <1>3 DEF LoopAgrees, ListAgrees
  <1> HIDE DEF o
  <1>6. /\ sent' \in [Objects -> Nat]
        /\ \A q \in Objects : sent'[q] = IF q = o THEN 1 ELSE sent[q]
    BY <1>1, <1>3, <1>4, <1>5 DEF StopsTyped
  <1>7. StopsTyped'
    <2>1. loop' \in LoopStates /\ loop' \notin {"off", "sleep", "quote"} /\ loop' \in {"metadata", "order"}
      BY <1>4 DEF LoopStates
    <2> QED BY <1>1, <1>2, <1>4, <1>6, <2>1 DEF StopsTyped
  <1>8. ActiveIsWatched'
    BY <1>1, <1>4 DEF ActiveIsWatched
  <1>9. ObjectsAgree'
    <2>1. config[o] # None /\ o \notin withdrawn
      BY <1>5 DEF EntryAgrees, o
    <2>2. \A q \in Objects : sent'[q] <= 1
                             /\ (config'[q] = None => sent'[q] = 0 /\ q \notin withdrawn')
      BY <1>1, <1>4, <1>6, <2>1 DEF ObjectsAgree
    <2>3. \A q \in withdrawn' : sent'[q] = 0
      BY <1>1, <1>4, <1>6, <2>1 DEF ObjectsAgree, StopsTyped
    <2>4. \A j \in StopIds : stopStatus'[j] = "active" =>
              /\ stops'[j] \in Objects /\ stops'[j] \notin withdrawn'
              /\ sent'[stops'[j]] = 0 \/ (loop' = "order" /\ toCheck'[1][2] = stops'[j])
      BY <1>1, <1>2, <1>4, <1>6 DEF ObjectsAgree, Ordered, o
    <2> QED BY <1>1, <1>4, <2>2, <2>3, <2>4 DEF ObjectsAgree, Ordered
  <1>10. LoopAgrees'
    <2>1. \A k \in DOMAIN toCheck : toCheck[k][2] \in Objects /\ (toCheck[k][2] = o => k = 1)
      BY <1>1, <1>2, <1>3 DEF LoopAgrees, ListAgrees, CheckEntries, o
    <2>2. \A k \in DOMAIN toCheck : sent'[toCheck[k][2]] = IF k = 1 THEN 1 ELSE 0
      BY <1>1, <1>2, <1>6, <2>1 DEF LoopAgrees, o
    <2> QED BY <1>1, <1>4, <2>2 DEF LoopAgrees, ListAgrees, EntryAgrees
  <1> QED BY <1>7, <1>8, <1>9, <1>10 DEF StopsInv

LEMMA QuoteKeeps ==
    ASSUME StopsInv, QuoteArrives
    PROVE  /\ StopsInv'
           /\ \A o \in Objects : config[o] # None =>
                 ~Better(config[o], config[o].stop, config'[o].stop)
  <1> DEFINE S == {<<i, stops[i]>> : i \in StopsToCheck}
             f == [i \in StopsToCheck |-> <<i, stops[i]>>]
  <1>1. StopsTyped /\ ObjectsAgree /\ loop = "quote"
    BY DEF StopsInv, QuoteArrives
  <1>2. StopsToCheck \in SUBSET StopIds /\ IsFiniteSet(StopsToCheck)
    BY FS_Subset DEF StopsToCheck
  <1>3. f \in Surjection(StopsToCheck, S)
    BY DEF Surjection
  <1>4. Cardinality(S) \in Nat
    <2> HIDE DEF S, f
    <2> QED BY <1>2, <1>3, FS_Surjection, FS_CardinalityType
  <1>5. PICK list \in SetToSeqs(S) : Walk(list, price, price, stopStatus)
    BY DEF QuoteArrives
  <1>6. \A i \in StopsToCheck : /\ stops[i] \in Objects /\ config[stops[i]] # None
                                /\ stops[i] \notin withdrawn /\ sent[stops[i]] = 0
                                /\ \A j \in StopIds : stops[j] = stops[i] => j = i
    BY <1>1 DEF ObjectsAgree, Ordered, StopsToCheck
  <1>7. \A e \in S : e \in CheckEntries /\ EntryAgrees(e) /\ sent[e[2]] = 0 /\ e[2] = stops[e[1]]
    BY <1>2, <1>6 DEF CheckEntries, EntryAgrees
  <1> HIDE DEF f
  <1>8. \A e, d \in S : e[2] = d[2] => e = d
    BY <1>2, <1>6
  <1> HIDE DEF S
  <1>9. /\ list \in [1 .. Cardinality(S) -> S]
        /\ \A k, m \in 1 .. Cardinality(S) : k # m => list[k] # list[m]
    BY <1>5 DEF SetToSeqs
  <1>10. list \in Seq(CheckEntries) /\ DOMAIN list = 1 .. Cardinality(S)
    BY <1>4, <1>7, <1>9
  <1>11. ListAgrees(list) /\ \A k \in DOMAIN list : sent[list[k][2]] = 0
    BY <1>7, <1>8, <1>9, <1>10 DEF ListAgrees
  <1>12. \A i \in StopIds : stopStatus[i] = "active" =>
             stopStatus[i] = "active" /\ sent[stops[i]] = 0
    BY <1>6 DEF StopsToCheck
  <1>13. /\ price \in Prices \cup {0} /\ stopStatus \in [StopIds -> StopStatuses]
         /\ UNCHANGED <<price, stops, overdue, thisSecond, sent, withdrawn>>
    BY <1>1 DEF StopsTyped, QuoteArrives
  <1>14. \A k \in DOMAIN list : config[list[k][2]] # None
    BY <1>11 DEF ListAgrees, EntryAgrees
  <1>15. StopsInv'
    BY <1>5, <1>10, <1>11, <1>12, <1>13, WalkKeeps
  <1>16. WalkOutcome(list, price, price, stopStatus)
    BY <1>1, <1>5, <1>10, <1>13, <1>14, WalkIs
  <1> QED BY <1>15, <1>16 DEF WalkOutcome

LEMMA AnswerKeeps ==
    ASSUME StopsInv, NEW outcome \in {"triggered", "error"}, OrderAnswered(outcome)
    PROVE  /\ StopsInv'
           /\ \A o \in Objects : config[o] # None =>
                 ~Better(config[o], config[o].stop, config'[o].stop)
  <1> DEFINE rest == Tail(toCheck)
             status == [stopStatus EXCEPT ![Head(toCheck)[1]] = outcome]
  <1>1. StopsTyped /\ ObjectsAgree /\ LoopAgrees /\ loop = "order"
    BY DEF StopsInv, OrderAnswered
  <1>2. toCheck \in Seq(CheckEntries) /\ toCheck # <<>>
    BY <1>1 DEF StopsTyped
  <1>3. /\ 1 \in DOMAIN toCheck /\ toCheck[1] \in CheckEntries /\ Head(toCheck) = toCheck[1]
        /\ rest \in Seq(CheckEntries)
        /\ \A k \in DOMAIN rest : k + 1 \in DOMAIN toCheck /\ rest[k] = toCheck[k + 1]
                                  /\ k + 1 # 1 /\ k \in Int
    BY <1>2
  <1>4. /\ status \in [StopIds -> StopStatuses]
        /\ \A i \in StopIds : status[i] = IF i = toCheck[1][1] THEN outcome ELSE stopStatus[i]
    BY <1>1, <1>3 DEF StopsTyped, StopStatuses, CheckEntries
  <1>5. Walk(rest, seenPrice, lastPrice, status)
        /\ UNCHANGED <<price, stops, overdue, thisSecond, sent, withdrawn>>
    BY DEF OrderAnswered
  <1> HIDE DEF rest, status
  <1>6. EntryAgrees(toCheck[1])
    BY <1>1, <1>3 DEF LoopAgrees, ListAgrees
  <1>7. \A i \in StopIds : status[i] = "active" =>
            stopStatus[i] = "active" /\ sent[stops[i]] = 0
    BY <1>1, <1>4, <1>6 DEF ObjectsAgree, Ordered, EntryAgrees
  <1>8. ListAgrees(rest)
    <2>1. \A k \in DOMAIN rest : EntryAgrees(rest[k])
      BY <1>1, <1>3 DEF LoopAgrees, ListAgrees
    <2>2. ASSUME NEW k \in DOMAIN rest, NEW m \in DOMAIN rest, rest[k][2] = rest[m][2]
          PROVE  k = m
      <3>1. k + 1 = m + 1
        BY <1>1, <1>3, <2>2 DEF LoopAgrees, ListAgrees
      <3>2. k \in Int /\ m \in Int
        BY <1>3
      <3> QED BY <3>1, <3>2
    <2> QED BY <2>1, <2>2 DEF ListAgrees
  <1>9. \A k \in DOMAIN rest : sent[rest[k][2]] = 0
    BY <1>1, <1>3 DEF LoopAgrees
  <1>10. seenPrice \in Prices \cup {0} /\ lastPrice \in Prices \cup {0}
    BY <1>1 DEF StopsTyped
  <1>11. \A k \in DOMAIN rest : config[rest[k][2]] # None
    BY <1>8 DEF ListAgrees, EntryAgrees
  <1>12. StopsInv'
    BY <1>3, <1>4, <1>5, <1>7, <1>8, <1>9, <1>10, WalkKeeps
  <1>13. WalkOutcome(rest, seenPrice, lastPrice, status)
    BY <1>1, <1>3, <1>4, <1>5, <1>10, <1>11, WalkIs
  <1> QED BY <1>12, <1>13 DEF WalkOutcome

LEMMA StopsStep ==
    ASSUME StopsInv, [StopsNext]_stopVars
    PROVE  /\ StopsInv'
           /\ \A o \in Objects : config[o] # None =>
                 ~Better(config[o], config[o].stop, config'[o].stop)
  <1>1. StopsTyped /\ ActiveIsWatched /\ ObjectsAgree /\ LoopAgrees
    BY DEF StopsInv
  <1>2. \A o \in Objects : config[o] # None => ~Better(config[o], config[o].stop, config[o].stop)
    <2>1. \A c \in StopRecords : ~Better(c, c.stop, c.stop)
      BY DEF Better, StopRecords
    <2> QED BY <1>1, <2>1 DEF StopsTyped
  <1> HIDE DEF StopsAssumption
  <1>3. ASSUME NEW p \in Prices, PriceMoves(p)
        PROVE  StopsInv' /\ config' = config
    BY <1>1, <1>3 DEF StopsInv, PriceMoves, StopsTyped, ActiveIsWatched, ObjectsAgree, Ordered,
                      LoopAgrees, ListAgrees, EntryAgrees
  <1>4. CASE SecondPasses
    BY <1>1, <1>2, <1>4 DEF StopsInv, SecondPasses, StopsTyped, ActiveIsWatched, ObjectsAgree, Ordered,
                      LoopAgrees, ListAgrees, EntryAgrees
  <1>5. ASSUME NEW o \in Objects, StopExpires(o)
        PROVE  StopsInv' /\ config' = config
    BY <1>1, <1>5 DEF StopsInv, StopExpires, StopsTyped, ActiveIsWatched, ObjectsAgree, Ordered,
                      LoopAgrees, ListAgrees, EntryAgrees
  <1>6. CASE \E side \in Sides, at \in InitialStops : CreateStop(side, at)
    BY <1>2, <1>6, CreateKeeps
  <1>7. CASE \E i \in StopIds : CancelStop(i)
    <2>1. config' = config
      BY <1>7 DEF CancelStop
    <2> QED BY <1>2, <1>7, <2>1, CancelKeeps
  <1>8. CASE PollPrice
    <2>1. StopsTyped' /\ config' = config
      BY <1>1, <1>8 DEF PollPrice, StopsTyped, LoopStates
    <2> QED BY <1>1, <1>2, <1>8, <2>1 DEF StopsInv, PollPrice, ActiveIsWatched, ObjectsAgree,
                      Ordered, LoopAgrees, ListAgrees, EntryAgrees
  <1>9. CASE QuoteArrives
    BY <1>9, QuoteKeeps
  <1>10. CASE SendOrder
    <2>1. config' = config
      BY <1>10 DEF SendOrder
    <2> QED BY <1>2, <1>10, <2>1, SendKeeps
  <1>11. CASE \E outcome \in {"triggered", "error"} : OrderAnswered(outcome)
    BY <1>11, AnswerKeeps
  <1>12. CASE QuoteIgnored
    <2>1. /\ watched' \in BOOLEAN /\ lastPrice' \in Prices \cup {0}
          /\ loop = "quote" /\ loop' = "sleep" /\ config' = config
          /\ UNCHANGED <<price, stops, stopStatus, overdue, thisSecond, toCheck, seenPrice,
                         sent, withdrawn>>
      BY <1>1, <1>12 DEF QuoteIgnored, StopsTyped
    <2>2. (loop' \in {"metadata", "order"}) = (toCheck' # <<>>)
      BY <1>1, <2>1 DEF StopsTyped
    <2>3. loop' \in LoopStates /\ seenPrice = 0
      BY <1>1, <2>1 DEF StopsTyped, LoopStates
    <2>4. StopsTyped'
      BY <1>1, <2>1, <2>2, <2>3 DEF StopsTyped
    <2> QED BY <1>1, <1>2, <1>12, <2>1, <2>4 DEF StopsInv, QuoteIgnored, NothingLeft, ActiveIsWatched,
                      ObjectsAgree, Ordered, LoopAgrees, ListAgrees, EntryAgrees
  <1>13. CASE UNCHANGED stopVars
    BY <1>1, <1>2, <1>13 DEF StopsInv, stopVars, StopsTyped, ActiveIsWatched, ObjectsAgree,
                      Ordered, LoopAgrees, ListAgrees, EntryAgrees
  <1> QED BY <1>2, <1>3, <1>4, <1>5, <1>6, <1>7, <1>8, <1>9, <1>10, <1>11, <1>12, <1>13
          DEF StopsNext, StopLoop

\* What a trailing stop promises, but for its settling: it is watched while it is active,
\* ordered once at most and not after a cancellation that met nothing in flight, and its
\* stop only tightens, whatever happens while the loop waits for a quote, the metadata or
\* the broker, and whichever object its name stands for by then.
THEOREM StopsTightenAndOrderOnce ==
    StopsSpec => [](StopsTypeOK /\ ActiveIsWatched /\ OneOrder /\ CancelHolds) /\ OnlyTightens
  <1>1. StopsInv => StopsTypeOK /\ ActiveIsWatched /\ OneOrder /\ CancelHolds
    BY DEF StopsInv, StopsTyped, StopsTypeOK, ObjectsAgree, OneOrder, CancelHolds, StopRecords,
           StopStatuses, CheckEntries
  <1>2. StopsInv /\ [StopsNext]_stopVars =>
            [\A o \in Objects : config[o] # None =>
                ~Better(config[o], config[o].stop, config'[o].stop)]_stopVars
    BY StopsStep
  <1> QED BY <1>1, <1>2, StopsInitially, StopsStep, PTL DEF StopsSpec, OnlyTightens

HIDE DEF StopsAssumption

==================================================================================
