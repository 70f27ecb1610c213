------------------------------- MODULE Strategies -------------------------------
(***************************************************************************)
(* One strategy and its positions (app/services/                           *)
(* strategy_execution_service.py, app/sdk/order_client.py).  Requests that *)
(* open or close a position, and the stop that closes them all, wait for   *)
(* the registry and for the broker; what they looked at before may have    *)
(* changed when they go on.                                                *)
(*                                                                         *)
(* Every request asks for one unit, the instruments are of one sector, and *)
(* a closed position stays in the list with quantity 0.  Profits and       *)
(* statistics are left out: nothing depends on them.                       *)
(***************************************************************************)
EXTENDS Integers, FiniteSets, Sequences

CONSTANTS Traded,        \* instruments
          Openers,       \* requests to open in flight
          Closers,       \* requests to close in flight
          Stoppers,      \* requests to stop in flight
          MaxPositions,  \* max_positions
          SectorLimit    \* of the one sector

ASSUME StrategyAssumption ==
    /\ {MaxPositions, SectorLimit} \subseteq Nat \ {0}
    /\ \A S \in {Openers, Closers, Stoppers} : IsFiniteSet(S) /\ S # {}
    /\ Traded # {}

VARIABLES
    strategyStatus,
    positions,   \* _strategy_positions: instrument and quantity
    opener,      \* where a request to open is, and its instrument
    closer,      \* the position a request closes and the quantity it ordered
    stopper,     \* where a stop is in the list, and the close it waits for
    sold         \* history: units ordered to close a position

strategyVars == <<strategyStatus, positions, opener, closer, stopper, sold>>

Entries == 1 .. (MaxPositions + Cardinality(Openers) - 1)
NoOrder == [entry |-> 0, quantity |-> 0]
Orders == {NoOrder} \cup [entry : Entries, quantity : 0 .. 1]

StrategyTypeOK ==
    /\ strategyStatus \in {"inactive", "active"}
    /\ positions \in Seq([instrument : Traded, quantity : 0 .. 1])
    /\ opener \in [Openers -> [at : {"idle", "metadata", "order"}, instrument : Traded]]
    /\ closer \in [Closers -> Orders]
    /\ stopper \in [Stoppers -> [index : {0} \cup Entries, order : Orders]]
    /\ \A s \in Stoppers : (stopper[s].index = 0) = (stopper[s].order = NoOrder)
    /\ sold \in [Entries -> Nat]
    /\ \A k \in Entries : k > Len(positions) => sold[k] = 0

StrategyInit ==
    /\ strategyStatus = "inactive"
    /\ positions = <<>>
    /\ opener = [o \in Openers |-> [at |-> "idle", instrument |-> CHOOSE i \in Traded : TRUE]]
    /\ closer = [c \in Closers |-> NoOrder]
    /\ stopper = [s \in Stoppers |-> [index |-> 0, order |-> NoOrder]]
    /\ sold = [k \in Entries |-> 0]

StartStrategy ==
    /\ strategyStatus' = "active"
    /\ UNCHANGED <<positions, opener, closer, stopper, sold>>

-----------------------------------------------------------------------------
(* Opening.                                                                *)

OpenerGoes(o, stage) == opener' = [opener EXCEPT ![o].at = stage]

OpenPosition(o, i) ==
    /\ strategyStatus = "active"
    /\ opener[o].at = "idle"
    /\ opener' = [opener EXCEPT ![o] = [at |-> "metadata", instrument |-> i]]
    /\ UNCHANGED <<strategyStatus, positions, closer, stopper, sold>>

Exposure == Cardinality({k \in DOMAIN positions : positions[k].quantity # 0})

\* Mutant: only the positions that are open are counted.
RoomForOpen == Exposure < MaxPositions /\ Exposure + 1 <= SectorLimit

\* Mutant: the exposure may reach the limit before it is exceeded.
RoomUpToLimit == Len(positions) < MaxPositions /\ Exposure <= SectorLimit

\* Closed positions count as positions, though not in the exposure.
RoomForPosition == Len(positions) < MaxPositions /\ Exposure + 1 <= SectorLimit

\* The limits are looked at when the metadata arrives.
CheckLimits(o) ==
    /\ opener[o].at = "metadata"
    /\ OpenerGoes(o, IF RoomForPosition THEN "order" ELSE "idle")
    /\ UNCHANGED <<strategyStatus, positions, closer, stopper, sold>>

\* The broker took the order; nobody asks whether the strategy still runs.
OpeningOrdered(o) ==
    /\ opener[o].at = "order"
    /\ positions' = Append(positions, [instrument |-> opener[o].instrument, quantity |-> 1])
    /\ OpenerGoes(o, "idle")
    /\ UNCHANGED <<strategyStatus, closer, stopper, sold>>

OpeningFails(o) ==
    /\ opener[o].at # "idle"
    /\ OpenerGoes(o, "idle")
    /\ UNCHANGED <<strategyStatus, positions, closer, stopper, sold>>

-----------------------------------------------------------------------------
(* Closing: the first position of the instrument is the one that is closed,*)
(* an earlier one that is closed already included.                         *)

Held(i) == {k \in DOMAIN positions : positions[k].instrument = i}
First(i) == CHOOSE k \in Held(i) : \A m \in Held(i) : k <= m
Firsts == {First(positions[k].instrument) : k \in DOMAIN positions}

\* Mutant: an order of one unit, whatever is left of the position.
FullOrder(i) == [entry |-> First(i), quantity |-> 1]

ClosingOrder(i) == [entry |-> First(i), quantity |-> positions[First(i)].quantity]

Filled(order) == [positions EXCEPT ![order.entry].quantity = 0]
SoldBy(order) == [sold EXCEPT ![order.entry] = @ + order.quantity]

ClosePosition(c, i) ==
    /\ closer[c] = NoOrder
    /\ Held(i) # {}
    /\ closer' = [closer EXCEPT ![c] = ClosingOrder(i)]
    /\ UNCHANGED <<strategyStatus, positions, opener, stopper, sold>>

ClosingOrdered(c) ==
    /\ closer[c] # NoOrder
    /\ positions' = Filled(closer[c])
    /\ sold' = SoldBy(closer[c])
    /\ closer' = [closer EXCEPT ![c] = NoOrder]
    /\ UNCHANGED <<strategyStatus, opener, stopper>>

ClosingFails(c) ==
    /\ closer[c] # NoOrder
    /\ closer' = [closer EXCEPT ![c] = NoOrder]
    /\ UNCHANGED <<strategyStatus, positions, opener, stopper, sold>>

-----------------------------------------------------------------------------
(* Stopping: the loop runs over the list itself, so it meets the positions *)
(* that are added behind it while it waits.                                *)

OpenFrom(k, list) == {m \in DOMAIN list : m >= k /\ list[m].quantity # 0}

\* From entry k the loop orders the next close, or finds no more and ends.
StopGoesOn(s, k) ==
    LET open == OpenFrom(k, positions')
        next == CHOOSE m \in open : \A n \in open : m <= n
    IN  IF open = {}
        THEN /\ stopper' = [stopper EXCEPT ![s] = [index |-> 0, order |-> NoOrder]]
             /\ strategyStatus' = "inactive"
        ELSE /\ stopper' = [stopper EXCEPT ![s] =
                    [index |-> next,
                     order |-> [entry |-> First(positions[next].instrument),
                                quantity |-> positions'[First(positions[next].instrument)].quantity]]]
             /\ UNCHANGED strategyStatus

StopStrategy(s) ==
    /\ stopper[s].index = 0
    /\ UNCHANGED <<positions, opener, closer, sold>>
    /\ StopGoesOn(s, 1)

\* Mutant: the loop ends with the first position.
StopCloseOrderedOnce(s) ==
    /\ stopper[s].index # 0
    /\ positions' = Filled(stopper[s].order)
    /\ sold' = SoldBy(stopper[s].order)
    /\ stopper' = [stopper EXCEPT ![s] = [index |-> 0, order |-> NoOrder]]
    /\ strategyStatus' = "inactive"
    /\ UNCHANGED <<opener, closer>>

StopCloseOrdered(s) ==
    /\ stopper[s].index # 0
    /\ positions' = Filled(stopper[s].order)
    /\ sold' = SoldBy(stopper[s].order)
    /\ StopGoesOn(s, stopper[s].index + 1)
    /\ UNCHANGED <<opener, closer>>

\* A close that fails ends the stop; the strategy stays active.
StopFails(s) ==
    /\ stopper[s].index # 0
    /\ stopper' = [stopper EXCEPT ![s] = [index |-> 0, order |-> NoOrder]]
    /\ UNCHANGED <<strategyStatus, positions, opener, closer, sold>>

StopStep(s) == StopCloseOrdered(s) \/ StopFails(s)

StrategyNext ==
    \/ StartStrategy
    \/ \E o \in Openers :
          \/ \E i \in Traded : OpenPosition(o, i)
          \/ CheckLimits(o) \/ OpeningOrdered(o) \/ OpeningFails(o)
    \/ \E c \in Closers :
          \/ \E i \in Traded : ClosePosition(c, i)
          \/ ClosingOrdered(c) \/ ClosingFails(c)
    \/ \E s \in Stoppers : StopStrategy(s) \/ StopStep(s)

StrategySpec == StrategyInit /\ [][StrategyNext]_strategyVars

-----------------------------------------------------------------------------
(* Properties.                                                             *)

\* The list passes max_positions by no more than the requests that waited for the
\* broker together, less the one that was right to.
PositionsInBounds == Len(positions) < MaxPositions + Cardinality(Openers)

\* So does the exposure of the sector: a request that passed the check long ago
\* cannot add to what others opened since.
ExposureInBounds == Exposure < SectorLimit + Cardinality(Openers)

\* A position is sold at most once by every request that was closing it, and one that
\* counts as closed has been sold.
SoldPerRequest ==
    \A k \in DOMAIN positions :
        /\ sold[k] <= Cardinality(Closers) + Cardinality(Stoppers)
        /\ positions[k].quantity = 0 => sold[k] > 0

\* A stop that ends in good order has closed the first position of every instrument,
\* those that were opened while it ran included.  (A second position of an instrument
\* may stay open: closing finds the first.)
StopClosesFirsts ==
    [][(strategyStatus = "active" /\ strategyStatus' = "inactive")
          => \A k \in Firsts' : positions'[k].quantity = 0]_strategyVars

\* What a strategy promises its user: limits and sales go wrong by no more than what
\* overlapped, and a stop leaves no first position open.
StrategyPromise ==
    /\ [](StrategyTypeOK /\ PositionsInBounds /\ ExposureInBounds /\ SoldPerRequest)
    /\ StopClosesFirsts
=============================================================================
