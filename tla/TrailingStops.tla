---------------------------- MODULE TrailingStops ----------------------------
(***************************************************************************)
(* Trailing stops (app/services/trailing_stop_service.py): one monitoring  *)
(* task polls the price of an instrument, moves the stops that follow it   *)
(* and places an order for a stop the price has crossed.                   *)
(*                                                                         *)
(* The loop suspends at the quote and, for a stop it triggers, at the      *)
(* metadata and at the order; everything between two of these is one step. *)
(* Stops are objects: the loop holds references to the ones it copied from *)
(* the table, and the table may hold another object under the same name by *)
(* the time it uses them.  One instrument; stops trail by a fixed amount.  *)
(***************************************************************************)
EXTENDS Integers, FiniteSets, Sequences, SequencesExt

CONSTANTS StopIds,        \* names, made of the instrument and the second
          InitialStops,   \* initial_stop_price of the stops
          Objects,        \* TrailingStopConfig objects that can be created
          Prices,         \* prices of the instrument
          TrailValue,     \* distance between the best price and the stop
          MaxDeviation,   \* a price further than this from the last is ignored
          Nobody

ASSUME StopsAssumption ==
    /\ IsFiniteSet(StopIds)
    /\ Prices \subseteq Nat \ {0} /\ Prices # {} /\ InitialStops \subseteq Prices
    /\ TrailValue \in Nat
    /\ MaxDeviation \in Nat
    /\ Nobody \notin Objects

VARIABLES
    price,          \* the market
    stops,          \* _active_stops: the object under a name
    stopStatus,     \* _stop_status
    config,         \* side, peak_price and current_stop_price of every object
    overdue,        \* objects whose expires_at has passed
    thisSecond,     \* names given in the current second
    watched,        \* the instrument is in _price_subscriptions
    lastPrice,      \* its last_price
    loop,           \* where the monitoring task is
    toCheck,        \* objects it has yet to look at, with the name it knew
    seenPrice,      \* the price it looks at them with
    sent,           \* history: orders sent for an object
    withdrawn       \* history: objects cancelled while nothing was in flight

stopVars == <<price, stops, stopStatus, config, overdue, thisSecond, watched,
              lastPrice, loop, toCheck, seenPrice, sent, withdrawn>>

Sides == {"SELL", "BUY"}
LoopStates == {"off", "sleep", "quote", "metadata", "order"}
None == [side |-> "none", peak |-> 0, stop |-> 0]

StopsTypeOK ==
    /\ price \in Prices
    /\ stops \in [StopIds -> Objects \cup {Nobody}]
    /\ stopStatus \in [StopIds -> {"none", "active", "triggered", "cancelled",
                                   "expired", "error"}]
    /\ config \in [Objects -> [side : Sides, peak : Int, stop : Int] \cup {None}]
    /\ overdue \subseteq Objects
    /\ thisSecond \subseteq StopIds
    /\ watched \in BOOLEAN
    /\ lastPrice \in Prices \cup {0}
    /\ loop \in LoopStates
    /\ loop \in {"off", "sleep"} => seenPrice = 0
    /\ toCheck \in Seq(StopIds \X Objects)
    /\ (loop \in {"metadata", "order"}) = (toCheck # <<>>)
    /\ seenPrice \in Prices \cup {0}
    /\ sent \in [Objects -> Nat]
    /\ withdrawn \subseteq Objects

StopsInit ==
    /\ price = CHOOSE p \in Prices : \A q \in Prices : p <= q
    /\ stops = [i \in StopIds |-> Nobody]
    /\ stopStatus = [i \in StopIds |-> "none"]
    /\ config = [o \in Objects |-> None]
    /\ overdue = {} /\ thisSecond = {}
    /\ watched = FALSE /\ lastPrice = 0
    /\ loop = "off" /\ toCheck = <<>> /\ seenPrice = 0
    /\ sent = [o \in Objects |-> 0] /\ withdrawn = {}

-----------------------------------------------------------------------------
(* The environment.                                                        *)

PriceMoves(p) ==
    /\ p # price
    /\ price' = p
    /\ UNCHANGED <<stops, stopStatus, config, overdue, thisSecond, watched,
                   lastPrice, loop, toCheck, seenPrice, sent, withdrawn>>

SecondPasses ==
    /\ thisSecond # {}
    /\ thisSecond' = {}
    /\ UNCHANGED <<price, stops, stopStatus, config, overdue, watched, lastPrice,
                   loop, toCheck, seenPrice, sent, withdrawn>>

StopExpires(o) ==
    /\ config[o] # None /\ o \notin overdue
    /\ \E i \in StopIds : stops[i] = o /\ stopStatus[i] = "active"
    /\ overdue' = overdue \cup {o}
    /\ UNCHANGED <<price, stops, stopStatus, config, thisSecond, watched, lastPrice,
                   loop, toCheck, seenPrice, sent, withdrawn>>

-----------------------------------------------------------------------------
(* Creation: the metadata and the quote it waits for first change nothing  *)
(* here.  The name is made of the instrument and the second, so a second   *)
(* stop of the same second replaces the first.                             *)

\* Mutant: the subscription is added only together with the monitoring task.
SubscribeFirst == watched' = (watched \/ loop = "off")

Subscribe == watched' = TRUE

\* Mutant: every creation starts the monitoring task anew.
StartMonitoringAgain == loop' = "sleep"

StartMonitoring == loop' = IF loop = "off" THEN "sleep" ELSE loop

\* Objects and names that were never used are interchangeable: any will do.
NewObject == CHOOSE o \in Objects : config[o] = None
NameNow == IF thisSecond # {} THEN CHOOSE i \in thisSecond : TRUE
           ELSE CHOOSE i \in StopIds : stops[i] = Nobody

CreateStop(side, at) ==
    /\ \E o \in Objects : config[o] = None
    /\ thisSecond # {} \/ \E i \in StopIds : stops[i] = Nobody
    /\ LET i == NameNow  o == NewObject
       IN  /\ stops' = [stops EXCEPT ![i] = o]
           /\ stopStatus' = [stopStatus EXCEPT ![i] = "active"]
           /\ config' = [config EXCEPT ![o] = [side |-> side, peak |-> at, stop |-> at]]
           /\ thisSecond' = thisSecond \cup {i}
    /\ Subscribe
    /\ UNCHANGED lastPrice
    /\ StartMonitoring
    /\ UNCHANGED <<price, overdue, toCheck, seenPrice, sent, withdrawn>>

CancelStop(i) ==
    /\ stopStatus[i] = "active"
    /\ stopStatus' = [stopStatus EXCEPT ![i] = "cancelled"]
    /\ withdrawn' = IF toCheck = <<>> THEN withdrawn \cup {stops[i]} ELSE withdrawn
    /\ UNCHANGED <<price, stops, config, overdue, thisSecond, watched, lastPrice,
                   loop, toCheck, seenPrice, sent>>

-----------------------------------------------------------------------------
(* What a price does to one stop.                                          *)

Crossed(c, p) == IF c.side = "SELL" THEN p <= c.stop ELSE p >= c.stop

Better(c, p, q) == IF c.side = "SELL" THEN p > q ELSE p < q

Behind(c, p) == IF c.side = "SELL" THEN p - TrailValue ELSE p + TrailValue

\* Mutant: the stop follows whatever the best price says.
TrailedLoosely(c, p) ==
    IF ~Better(c, p, c.peak) THEN c
    ELSE [c EXCEPT !.peak = p, !.stop = Behind(c, p)]

\* The best price is remembered even when the stop stays where it is.
Trailed(c, p) ==
    IF ~Better(c, p, c.peak) THEN c
    ELSE [c EXCEPT !.peak = p,
                   !.stop = IF Better(c, Behind(c, p), @) THEN Behind(c, p) ELSE @]

Touched(c, p) == IF Better(c, p, c.peak) THEN [c EXCEPT !.peak = p] ELSE c

\* Mutant: a price equal to the stop does not trigger it.
TriggersBeyond(e, p) ==
    e[2] \notin overdue /\ Crossed(config[e[2]], p) /\ p # config[e[2]].stop

\* The loop goes through what it copied and suspends at the first stop that is
\* not expired and is crossed.  It does not look at the status again.
Triggers(e, p) == e[2] \notin overdue /\ Crossed(config[e[2]], p)

Walk(list, p, last, status) ==
    LET hits  == {k \in DOMAIN list : Triggers(list[k], p)}
        first == CHOOSE k \in hits : \A m \in hits : k <= m
        done  == IF hits = {} THEN ToSet(list) ELSE ToSet(SubSeq(list, 1, first - 1))
        gone  == {e[1] : e \in {d \in done : d[2] \in overdue}}
        kept  == {e[2] : e \in {d \in done : d[2] \notin overdue}}
    IN  /\ stopStatus' = [i \in StopIds |-> IF i \in gone THEN "expired" ELSE status[i]]
        /\ config' = [o \in Objects |->
                        IF o \in kept THEN Trailed(config[o], p)
                        ELSE IF hits # {} /\ o = list[first][2] THEN Touched(config[o], p)
                        ELSE config[o]]
        /\ toCheck' = IF hits = {} THEN <<>> ELSE SubSeq(list, first, Len(list))
        /\ loop' = IF hits = {} THEN "sleep" ELSE "metadata"
        /\ seenPrice' = IF hits = {} THEN 0 ELSE p
        /\ IF hits = {} /\ \A i \in StopIds : stopStatus'[i] # "active"
           THEN watched' = FALSE /\ lastPrice' = 0
           ELSE watched' = watched /\ lastPrice' = last

-----------------------------------------------------------------------------
(* The monitoring loop.                                                    *)

PollPrice ==
    /\ loop = "sleep"
    /\ watched
    /\ loop' = "quote"
    /\ UNCHANGED <<price, stops, stopStatus, config, overdue, thisSecond, watched,
                   lastPrice, toCheck, seenPrice, sent, withdrawn>>

TooFar == lastPrice > 0 /\ 100 * (IF price > lastPrice THEN price - lastPrice
                                  ELSE lastPrice - price) > MaxDeviation * lastPrice

\* _cleanup_subscriptions, at the end of every round.
NothingLeft == \A i \in StopIds : stopStatus[i] # "active"

\* Mutant: a cancelled stop is looked at like an active one.
LooksAtAll == {j \in StopIds : stopStatus[j] \in {"active", "cancelled"}}

StopsToCheck == {j \in StopIds : stopStatus[j] = "active"}

QuoteArrives ==
    /\ loop = "quote"
    /\ ~TooFar
    /\ \E list \in SetToSeqs({<<i, stops[i]>> : i \in StopsToCheck}) :
            Walk(list, price, price, stopStatus)
    /\ UNCHANGED <<price, stops, overdue, thisSecond, sent, withdrawn>>

\* The quote fails, or jumped further than the filter lets through.
QuoteIgnored ==
    /\ loop = "quote"
    /\ loop' = "sleep"
    /\ IF NothingLeft THEN watched' = FALSE /\ lastPrice' = 0
       ELSE UNCHANGED <<watched, lastPrice>>
    /\ UNCHANGED <<price, stops, stopStatus, config, overdue, thisSecond, toCheck,
                   seenPrice, sent, withdrawn>>

\* The metadata arrived or not: the order goes out.
SendOrder ==
    /\ loop = "metadata"
    /\ loop' = "order"
    /\ sent' = [sent EXCEPT ![Head(toCheck)[2]] = @ + 1]
    /\ UNCHANGED <<price, stops, stopStatus, config, overdue, thisSecond, watched,
                   lastPrice, toCheck, seenPrice, withdrawn>>

\* Mutant: a failed order leaves the stop active, to be tried again.
OrderRetried(outcome) ==
    /\ loop = "order"
    /\ outcome \in {"triggered", "error"}
    /\ Walk(Tail(toCheck), seenPrice, lastPrice,
            [stopStatus EXCEPT ![Head(toCheck)[1]] =
                IF outcome = "error" THEN "active" ELSE outcome])
    /\ UNCHANGED <<price, stops, overdue, thisSecond, sent, withdrawn>>

\* The status of the name is written, whichever object it stands for now.
OrderAnswered(outcome) ==
    /\ loop = "order"
    /\ outcome \in {"triggered", "error"}
    /\ Walk(Tail(toCheck), seenPrice, lastPrice,
            [stopStatus EXCEPT ![Head(toCheck)[1]] = outcome])
    /\ UNCHANGED <<price, stops, overdue, thisSecond, sent, withdrawn>>

StopLoop == PollPrice \/ QuoteArrives \/ SendOrder
            \/ \E outcome \in {"triggered", "error"} : OrderAnswered(outcome)

StopsNext ==
    \/ \E p \in Prices : PriceMoves(p)
    \/ SecondPasses
    \/ \E o \in Objects : StopExpires(o)
    \/ \E side \in Sides, at \in InitialStops : CreateStop(side, at)
    \/ \E i \in StopIds : CancelStop(i)
    \/ StopLoop
    \/ QuoteIgnored

StopsSpec == StopsInit /\ [][StopsNext]_stopVars /\ WF_stopVars(StopLoop)

-----------------------------------------------------------------------------
(* Properties.                                                             *)

\* An active stop is watched: _add_price_subscription and the cleanup at the end
\* of a round never leave one behind, whatever is created during the round.
ActiveIsWatched ==
    (\E i \in StopIds : stopStatus[i] = "active") => watched /\ loop # "off"

\* A stop is ordered at most once: not again after an error, whose order may have
\* reached the broker, and not again by a later round.
OneOrder == \A o \in Objects : sent[o] <= 1

\* The stop of a long position never falls and that of a short one never rises.
OnlyTightens ==
    [][\A o \in Objects : config[o] # None =>
            ~Better(config[o], config[o].stop, config'[o].stop)]_stopVars

\* A price that reached the loop and stays beyond a stop settles it: when quotes fail
\* no more, no stop remains active for ever at a price it has been crossed by.
CrossedIsSettled ==
    (<>[][QuoteIgnored => QuoteArrives]_stopVars) =>
        \A i \in StopIds :
            []<>~(/\ stopStatus[i] = "active"
                  /\ Crossed(config[stops[i]], price)
                  /\ ~TooFar)

\* A stop that was cancelled while no trigger was in flight is never ordered.  (One
\* whose trigger waits for the metadata or the broker is ordered all the same.)
CancelHolds == \A o \in withdrawn : sent[o] = 0

\* What a trailing stop promises its user: it is watched, it only tightens, a crossing
\* price settles it with one order, and cancelling it holds.
StopsPromise ==
    /\ [](StopsTypeOK /\ ActiveIsWatched /\ OneOrder /\ CancelHolds)
    /\ OnlyTightens
    /\ CrossedIsSettled
=============================================================================
