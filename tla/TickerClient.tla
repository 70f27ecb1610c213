------------------------------ MODULE TickerClient ------------------------------
(***************************************************************************)
(* The breaker inside the client of the ticker service                     *)
(* (app/clients/ticker_service_client.py).  Any number of coroutines ask   *)
(* for moneyness data, for other data, or for the health of the service;   *)
(* each awaits its answer, and its failure is counted when it arrives.     *)
(* The lock around the breaker is never held at an await, so what is done  *)
(* under it is part of one step.                                           *)
(***************************************************************************)
EXTENDS Integers, FiniteSets, FiniteSetsExt

CONSTANTS Fetchers,     \* coroutines that use the client
          MaxFailures,  \* max_failures
          Cooling       \* circuit_breaker_timeout, in ticks

ASSUME TickerAssumption == MaxFailures \in Nat \ {0} /\ Cooling \in Nat

VARIABLES
    tripped,      \* _circuit_breaker_open
    failed,       \* _failure_count, which is only compared: it stops at MaxFailures
    sinceFailed,  \* ticks since _last_failure_time; it stops once past Cooling
    fetch,        \* what each coroutine awaits
    sinceLoss,    \* history: ticks since a request that was sent last failed
    snubbed,      \* history: a request for other data was refused since then
    healthy       \* history: the service was found healthy since the breaker opened

tickerVars == <<tripped, failed, sinceFailed, fetch, sinceLoss, snubbed, healthy>>

Requested == {"moneyness", "data", "health"}

TickerTypeOK ==
    /\ tripped \in BOOLEAN
    /\ failed \in 0 .. MaxFailures
    /\ sinceFailed \in 0 .. Cooling + 1
    /\ fetch \in [Fetchers -> Requested \cup {"nothing"}]
    /\ sinceLoss \in 0 .. Cooling + 1
    /\ snubbed \in BOOLEAN
    /\ healthy \in BOOLEAN

TickerInit ==
    /\ tripped = FALSE /\ failed = 0
    /\ sinceFailed = Cooling + 1
    /\ fetch = [c \in Fetchers |-> "nothing"]
    /\ sinceLoss = Cooling + 1 /\ snubbed = FALSE /\ healthy = FALSE

Later(t) == Min({t + 1, Cooling + 1})

TickerTick ==
    /\ sinceFailed' = Later(sinceFailed)
    /\ sinceLoss' = Later(sinceLoss)
    /\ UNCHANGED <<tripped, failed, fetch, snubbed, healthy>>
-----------------------------------------------------------------------------
\* Mutant: what fails while the breaker is open does not renew the time.
HandleFailureWhenClosed ==
    /\ failed' = Min({failed + 1, MaxFailures})
    /\ sinceFailed' = IF tripped THEN sinceFailed ELSE 0
    /\ tripped' = (tripped \/ failed' = MaxFailures)
    /\ healthy' = (tripped /\ healthy)

\* Mutant: the breaker opens one failure early.
HandleFailureEarly ==
    /\ failed' = Min({failed + 1, MaxFailures})
    /\ sinceFailed' = 0
    /\ tripped' = (tripped \/ failed' + 1 >= MaxFailures)
    /\ healthy' = (tripped /\ healthy)

HandleFailure ==
    /\ failed' = Min({failed + 1, MaxFailures})
    /\ sinceFailed' = 0
    /\ tripped' = (tripped \/ failed' = MaxFailures)
    /\ healthy' = (tripped /\ healthy)

\* Mutant: only a health check can close the breaker.
StaysOpen == tripped

\* _is_circuit_breaker_open says no, and closes a breaker that has waited long enough.
Open == tripped /\ sinceFailed <= Cooling

Send(c, what) ==
    /\ fetch[c] = "nothing" /\ ~Open
    /\ fetch' = [fetch EXCEPT ![c] = what]
    /\ tripped' = FALSE
    /\ failed' = IF tripped THEN 0 ELSE failed
    /\ UNCHANGED <<sinceFailed, sinceLoss, snubbed, healthy>>

\* Mutant: every request that is refused counts as a failure.
CountsRefusal(what) == what \in {"moneyness", "data"}

\* Only the request for moneyness data re-raises its own refusal; the others pass it
\* to the handler of what fails.
CountedRefusal(what) == what = "data"

Refuse(c, what) ==
    /\ fetch[c] = "nothing" /\ Open
    /\ IF CountedRefusal(what)
         THEN HandleFailure
         ELSE UNCHANGED <<tripped, failed, sinceFailed, healthy>>
    /\ snubbed' = (snubbed \/ what = "data")
    /\ UNCHANGED <<fetch, sinceLoss>>

\* Any answer that is not an error: 200, 404, and 503 to a request for moneyness; of
\* the health check any, but only 200 forgives.
Answered(c, ok) ==
    /\ fetch[c] # "nothing"
    /\ fetch' = [fetch EXCEPT ![c] = "nothing"]
    /\ IF fetch[c] = "health" /\ ok
         THEN failed' = 0 /\ healthy' = TRUE
         ELSE UNCHANGED <<failed, healthy>>
    /\ UNCHANGED <<tripped, sinceFailed, sinceLoss, snubbed>>

Fails(c) ==
    /\ fetch[c] # "nothing"
    /\ fetch' = [fetch EXCEPT ![c] = "nothing"]
    /\ HandleFailure
    /\ sinceLoss' = 0 /\ snubbed' = FALSE

\* A request that is cancelled is neither answered nor failed.
FetchCancelled(c) ==
    /\ fetch[c] # "nothing"
    /\ fetch' = [fetch EXCEPT ![c] = "nothing"]
    /\ UNCHANGED <<tripped, failed, sinceFailed, sinceLoss, snubbed, healthy>>

Sends(c) == \E what \in Requested : Send(c, what)
FetchEnds(c) == Fails(c) \/ FetchCancelled(c) \/ \E ok \in BOOLEAN : Answered(c, ok)

TickerNext ==
    \/ TickerTick
    \/ \E c \in Fetchers :
          Sends(c) \/ FetchEnds(c) \/ \E what \in Requested : Refuse(c, what)

\* Time passes, requests end, and coroutines go on asking until they are let in.
TickerSpec ==
    /\ TickerInit /\ [][TickerNext]_tickerVars
    /\ WF_tickerVars(TickerTick)
    /\ \A c \in Fetchers : WF_tickerVars(Sends(c)) /\ WF_tickerVars(FetchEnds(c))
-----------------------------------------------------------------------------
(* Properties.                                                             *)

\* After any request of it has failed, the service is left alone for the whole of
\* Cooling if the breaker is open, whatever else was under way and however the
\* failures were counted.
LeftAlone ==
    [][\A c \in Fetchers :
          fetch[c] = "nothing" /\ fetch'[c] # "nothing" /\ tripped
              => sinceLoss > Cooling]_tickerVars

\* An open breaker waits for the service, counted from the last request that failed,
\* unless it refused a request for other data meanwhile, and so counted a failure of
\* its own: then it may wait for ever.
WaitsForTheService == tripped /\ sinceLoss > Cooling /\ ~snubbed => sinceFailed > Cooling

\* A breaker that is open has counted MaxFailures, or a health check that was sent
\* before it opened has forgiven some of them since.
OpenForAReason == tripped => failed = MaxFailures \/ healthy

\* When no more requests fail and none for other data is refused, the breaker closes for good.
TickerRecovers ==
    <>[][\A c \in Fetchers : ~Fails(c) /\ ~Refuse(c, "data")]_tickerVars => <>[]~tripped

\* What the breaker promises to the ticker service and to those who ask it.
TickerPromise ==
    /\ [](TickerTypeOK /\ WaitsForTheService /\ OpenForAReason)
    /\ LeftAlone
    /\ TickerRecovers
=================================================================================
