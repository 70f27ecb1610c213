------------------------------- MODULE Overload -------------------------------
(***************************************************************************)
(* Load shedding (app/scaling/adaptive_load_shedder.py) and the monitor    *)
(* that recommends how many pods to run (backpressure_monitor.py).         *)
(*                                                                         *)
(* Loads are percentages, probabilities are in thousandths, rounded down;  *)
(* a decision is a choice wherever its probability is neither 0 nor 1.     *)
(* Metrics of a pod are abstracted to what the monitor makes of them: the  *)
(* level, the class of the load score and the trend; of a recommendation   *)
(* only the action is kept, not the number of pods.                        *)
(***************************************************************************)
EXTENDS Integers, Sequences

CONSTANTS Loads,          \* values of current_load, in percent
          Quiet,          \* ticks without shedding that end an episode (30 s)
          Cooldown        \* recommendation_cooldown, in ticks

ASSUME OverloadAssumption ==
    /\ Loads \subseteq 0 .. 100
    /\ {Quiet, Cooldown} \subseteq Nat \ {0}

VARIABLES
    overloads,      \* consecutive_overloads, up to SevenOrMore
    sheddingActive, \* is_shedding_active
    sinceShed,      \* ticks since last_shed_time, up to Quiet + 1
    decision,       \* the last answer: to which priority, and which
    level,          \* current_backpressure
    recommended,    \* action of last_recommendation
    sinceAsked      \* ticks since last_recommendation_time, up to Cooldown

loadVars == <<overloads, sheddingActive, sinceShed, decision, level, recommended,
              sinceAsked>>

Priorities == {"critical", "high", "medium", "low"}
Levels == {"LOW", "MEDIUM", "HIGH", "CRITICAL"}
Actions == {"none", "scale_up", "scale_down"}
Many == 7
NoDecision == [priority |-> "low", answer |-> "none"]

LoadTypeOK ==
    /\ overloads \in 0 .. Many
    /\ sheddingActive \in BOOLEAN
    /\ sinceShed \in 0 .. Quiet + 1
    /\ decision \in [priority : Priorities, answer : {"none", "accept", "shed", "raise"}]
    /\ decision.answer = "raise" => decision.priority = "critical"
    /\ level \in Levels
    /\ recommended \in Actions
    /\ sinceAsked \in 0 .. Cooldown

LoadInit ==
    /\ overloads = 0
    /\ sheddingActive = FALSE
    /\ sinceShed = Quiet + 1
    /\ decision = NoDecision
    /\ level = "LOW"
    /\ recommended = "none"
    /\ sinceAsked = Cooldown

-----------------------------------------------------------------------------
(* Shedding.                                                               *)

\* Mutant: the policy of critical requests starts where that of high ones does.
PolicyFlat(priority) ==
    CASE priority \in {"critical", "high"} -> [from |-> 90, ratio |-> 200]
      [] priority = "medium" -> [from |-> 70, ratio |-> 500]
      [] priority = "low" -> [from |-> 50, ratio |-> 800]

\* Mutant: the policy of high requests starts where that of critical ones does.
PolicyLate(priority) ==
    CASE priority = "critical" -> [from |-> 100, ratio |-> 0]
      [] priority = "high" -> [from |-> 100, ratio |-> 200]
      [] priority = "medium" -> [from |-> 70, ratio |-> 500]
      [] priority = "low" -> [from |-> 50, ratio |-> 800]

Policy(priority) ==
    CASE priority = "critical" -> [from |-> 100, ratio |-> 0]
      [] priority = "high" -> [from |-> 90, ratio |-> 200]
      [] priority = "medium" -> [from |-> 70, ratio |-> 500]
      [] priority = "low" -> [from |-> 50, ratio |-> 800]

\* The width of the range is a divisor: for critical requests it is zero.
Divides(priority, load) == load < Policy(priority).from \/ Policy(priority).from < 100

ShedProbability(priority, load) ==
    LET policy == Policy(priority)
    IN  IF load < policy.from THEN 0
        ELSE (policy.ratio * (load - policy.from)) \div (100 - policy.from)

AtMost1000(p) == IF p > 1000 THEN 1000 ELSE p

\* rising: the last ten loads grew by more than 5% a step; above: the load is over
\* the learned threshold.
Adapted(base, rising, above) ==
    LET p1 == IF rising THEN AtMost1000((base * 3) \div 2) ELSE base
        p2 == IF overloads > 5
              THEN AtMost1000(p1 + (IF overloads * 20 > 200 THEN 200 ELSE overloads * 20))
              ELSE p1
    IN  IF above THEN AtMost1000((p2 * 6) \div 5) ELSE p2

CountsOverload(load) ==
    overloads' = IF load <= 80 THEN 0 ELSE IF overloads = Many THEN Many ELSE overloads + 1

\* Mutant: the episode ends with the next accepted request.
ShedStateEager(shed) ==
    IF shed THEN sheddingActive' = TRUE /\ sinceShed' = 0
    ELSE sheddingActive' = FALSE /\ UNCHANGED sinceShed

ShedState(shed) ==
    IF shed THEN sheddingActive' = TRUE /\ sinceShed' = 0
    ELSE sheddingActive' = (sheddingActive /\ sinceShed <= Quiet) /\ UNCHANGED sinceShed

\* A premium user, an old request or a retry divides the probability.
Probabilities(priority, load) ==
    {Adapted(ShedProbability(priority, load), rising, above) \div discount :
        rising \in BOOLEAN, above \in BOOLEAN, discount \in {1, 2}}

ShouldAcceptRequest(priority, load, shed) ==
    /\ Divides(priority, load)
    /\ {p \in Probabilities(priority, load) : IF shed THEN p > 0 ELSE p < 1000} # {}
    /\ CountsOverload(load)
    /\ ShedState(shed)
    /\ decision' = [priority |-> priority, answer |-> IF shed THEN "shed" ELSE "accept"]
    /\ UNCHANGED <<level, recommended, sinceAsked>>

\* A critical request for one of six instruments returns before anything is counted.
AcceptHighValue ==
    /\ decision' = [priority |-> "critical", answer |-> "accept"]
    /\ UNCHANGED <<overloads, sheddingActive, sinceShed, level, recommended, sinceAsked>>

\* The division by zero is raised to the caller.
ShedderRaises(priority, load) ==
    /\ ~Divides(priority, load)
    /\ decision' = [priority |-> priority, answer |-> "raise"]
    /\ UNCHANGED <<overloads, sheddingActive, sinceShed, level, recommended, sinceAsked>>

-----------------------------------------------------------------------------
(* Recommendations: the heartbeat of a pod reports its metrics and asks.   *)

UpdateMetrics(l) ==
    /\ level' = l
    /\ UNCHANGED <<overloads, sheddingActive, sinceShed, decision, recommended, sinceAsked>>

\* alone: one pod is running, so there is none to give up.
ScalingAction(score, trend, alone) ==
    CASE level = "CRITICAL" \/ score = "over" \/ (score = "half" /\ trend = "increasing")
            -> "scale_up"
      [] level = "LOW" /\ score = "little" /\ trend = "decreasing" /\ ~alone -> "scale_down"
      [] OTHER -> "none"

\* Mutant: every answer starts the cooldown again.
RecommendRenewed(action) ==
    /\ recommended' = IF sinceAsked < Cooldown THEN recommended ELSE action
    /\ sinceAsked' = 0

\* During the cooldown the last recommendation is returned as it was.
Recommend(action) ==
    IF sinceAsked < Cooldown THEN UNCHANGED <<recommended, sinceAsked>>
    ELSE recommended' = action /\ sinceAsked' = 0

GetScalingRecommendation(action) ==
    /\ Recommend(action)
    /\ UNCHANGED <<overloads, sheddingActive, sinceShed, decision, level>>

AskRecommendation ==
    \E action \in {ScalingAction(score, trend, alone) :
                      score \in {"over", "half", "low", "little"},
                      trend \in {"increasing", "stable", "decreasing"}, alone \in BOOLEAN} :
        GetScalingRecommendation(action)

-----------------------------------------------------------------------------
LoadTick ==
    /\ sinceShed' = IF sinceShed > Quiet THEN sinceShed ELSE sinceShed + 1
    /\ sinceAsked' = IF sinceAsked = Cooldown THEN Cooldown ELSE sinceAsked + 1
    /\ UNCHANGED <<overloads, sheddingActive, decision, level, recommended>>

LoadNext ==
    \/ \E priority \in Priorities, load \in Loads :
          \/ \E shed \in BOOLEAN : ShouldAcceptRequest(priority, load, shed)
          \/ ShedderRaises(priority, load)
    \/ AcceptHighValue
    \/ \E l \in Levels : UpdateMetrics(l)
    \/ AskRecommendation
    \/ LoadTick

\* Time passes, and the heartbeat asks again and again (scalable_signal_processor.py:358).
LoadSpec == LoadInit /\ [][LoadNext]_loadVars /\ WF_loadVars(LoadTick) /\ WF_loadVars(AskRecommendation)

-----------------------------------------------------------------------------
(* Properties.                                                             *)

\* A critical request is turned away only after six or more requests in a row were
\* made under an overload: its policy alone never sheds it, at any load.
CriticalIsLast ==
    [][decision' # decision /\ decision'.priority = "critical" /\ decision'.answer = "shed"
          => overloads > 5]_loadVars

\* A shedding episode lasts for Quiet ticks after the last request that was shed,
\* whatever is accepted meanwhile.
EpisodeLasts == sinceShed < Quiet => sheddingActive

\* While the backpressure stays critical, the pods are told to scale up sooner or
\* later, although an older recommendation is repeated during its cooldown.
Escalates == <>[](level = "CRITICAL") => <>[](recommended = "scale_up")

\* What the shedder and the monitor promise: critical requests go last, an episode is
\* not cut short, and pods are asked for in the end.
LoadPromise ==
    /\ [](LoadTypeOK /\ EpisodeLasts)
    /\ CriticalIsLast
    /\ Escalates
==============================================================================
