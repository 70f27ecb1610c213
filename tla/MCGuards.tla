-------------------------------- MODULE MCGuards --------------------------------
(***************************************************************************)
(* Nine components that guard the service and its instances, checked in    *)
(* one run.  They share no state, so a behaviour of the run is a behaviour *)
(* of one of them: part says of which.  Requests of the API and            *)
(* subscriptions to streams share nothing but the cached tier: bound, a    *)
(* behaviour has those of one kind.                                        *)
(***************************************************************************)
EXTENDS Resilience, RateLimit, Overload, Entitlements, Thresholds,
        InstanceHealth, OperationBudget, TickerClient, CrashPrevention, TLC

CONSTANTS ann, greeks, service, job

MCLimit == (ann :> 1) @@ (greeks :> 2) @@ (service :> 2)
MCAccessLimit == [t \in UserTiers |-> [k \in KindsOfAccess |-> IF t = FreeTier THEN 1 ELSE 2]]
MCMaxConnections == [t \in UserTiers |-> IF t = FreeTier THEN 1 ELSE 2]
MCNames == ("e1" :> "p") @@ ("e2" :> "q")
MCSameNames == [e \in Executions |-> "p"]
MCTier == job :> "periodic"

VARIABLE part

Parts == {"breaker", "rate", "load", "api", "stream", "thresholds", "health", "budget",
          "ticker", "crash"}

allVars == <<breakerVars, rateVars, loadVars, accessVars, thresholdVars,
             healthVars, budgetVars, tickerVars, crashVars>>

PartsInit ==
    /\ part \in Parts
    /\ BreakerInit /\ RateInit /\ LoadInit /\ AccessInit
    /\ ThresholdsInit /\ HealthInit /\ BudgetInit /\ TickerInit /\ CrashInit
    /\ userTier # FreeTier => part \in KindsOfAccess
    /\ nameOf \in IF part = "crash" THEN {MCNames, MCSameNames} ELSE {MCNames}

\* What the others keep while one of them moves.
BesideBreaker == UNCHANGED <<part, rateVars, loadVars, accessVars, thresholdVars, healthVars, budgetVars, tickerVars, crashVars>>
BesideRate == UNCHANGED <<part, breakerVars, loadVars, accessVars, thresholdVars, healthVars, budgetVars, tickerVars, crashVars>>
BesideLoad == UNCHANGED <<part, breakerVars, rateVars, accessVars, thresholdVars, healthVars, budgetVars, tickerVars, crashVars>>
BesideAccess == UNCHANGED <<part, breakerVars, rateVars, loadVars, thresholdVars, healthVars, budgetVars, tickerVars, crashVars>>
BesideThresholds == UNCHANGED <<part, breakerVars, rateVars, loadVars, accessVars, healthVars, budgetVars, tickerVars, crashVars>>
BesideHealth == UNCHANGED <<part, breakerVars, rateVars, loadVars, accessVars, thresholdVars, budgetVars, tickerVars, crashVars>>
BesideBudget == UNCHANGED <<part, breakerVars, rateVars, loadVars, accessVars, thresholdVars, healthVars, tickerVars, crashVars>>
BesideTicker == UNCHANGED <<part, breakerVars, rateVars, loadVars, accessVars, thresholdVars, healthVars, budgetVars, crashVars>>
BesideCrash == UNCHANGED <<part, breakerVars, rateVars, loadVars, accessVars, thresholdVars, healthVars, budgetVars, tickerVars>>

OfKind(k) == \A r \in Calls : access'[r] # IdleRequest => access'[r].kind = k

PartsNext ==
    \/ part = "breaker" /\ BreakerNext /\ BesideBreaker
    \/ part = "rate" /\ RateNext /\ BesideRate
    \/ part = "load" /\ LoadNext /\ BesideLoad
    \/ part \in KindsOfAccess /\ AccessNext /\ OfKind(part) /\ BesideAccess
    \/ part = "thresholds" /\ ThresholdsNext /\ BesideThresholds
    \/ part = "health" /\ HealthNext /\ BesideHealth
    \/ part = "budget" /\ BudgetNext /\ BesideBudget
    \/ part = "ticker" /\ TickerNext /\ BesideTicker
    \/ part = "crash" /\ CrashNext /\ BesideCrash

\* The fairness of the specification of each part.
PartsSpec ==
    /\ PartsInit /\ [][PartsNext]_<<part, allVars>>
    /\ WF_breakerVars(part = "breaker" /\ BreakerTick /\ BesideBreaker)
    /\ \A c \in Callers :
          /\ WF_breakerVars(part = "breaker" /\ Call(c) /\ BesideBreaker)
          /\ WF_breakerVars(part = "breaker" /\ Ends(c) /\ BesideBreaker)
    /\ WF_loadVars(part = "load" /\ LoadTick /\ BesideLoad)
    /\ WF_loadVars(part = "load" /\ AskRecommendation /\ BesideLoad)
    /\ WF_thresholdVars(part = "thresholds" /\ ThresholdTick /\ BesideThresholds)
    /\ \A tier \in {"real_time", "periodic"} :
          WF_thresholdVars(part = "thresholds" /\ LoopRound(tier) /\ BesideThresholds)
    /\ \A j \in Jobs, w \in Checkers :
          WF_thresholdVars(part = "thresholds" /\ CheckStep(w, j) /\ BesideThresholds)
    /\ SF_healthVars(part = "health" /\ HealthTick /\ BesideHealth)
    /\ \A i \in Instances :
          /\ WF_healthVars(part = "health" /\ BeatStep(i) /\ BesideHealth)
          /\ WF_healthVars(part = "health" /\ CleanupDeletes(i) /\ BesideHealth)
    /\ WF_tickerVars(part = "ticker" /\ TickerTick /\ BesideTicker)
    /\ \A c \in Fetchers :
          /\ WF_tickerVars(part = "ticker" /\ Sends(c) /\ BesideTicker)
          /\ WF_tickerVars(part = "ticker" /\ FetchEnds(c) /\ BesideTicker)
    /\ WF_crashVars(part = "crash" /\ EmergencyHandler /\ BesideCrash)
    /\ \A e \in Executions :
          /\ WF_crashVars(part = "crash" /\ CallStep(e) /\ BesideCrash)
          /\ WF_crashVars(part = "crash" /\ MonitorStep(e) /\ BesideCrash)

\* What the two breakers promise to those who ask through them.
BreakersPromise == BreakerPromise /\ TickerPromise

\* What keeps a process from more work than it can do promises: the shedding of load,
\* and the bound and the watchers of the executions.
OverloadPromise == LoadPromise /\ CrashPromise

\* What the limits that are counted in Redis promise, those of the rate limiter and
\* those of the entitlements: neither lets through more than it says.
QuotasPromise == []RatePromise /\ AccessPromise
=================================================================================
