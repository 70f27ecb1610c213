------------------------------ MODULE Thresholds ------------------------------
(***************************************************************************)
(* The threshold monitor (app/services/threshold_monitor.py): two loops    *)
(* check the jobs of their tier, a round at a time, and users have any job *)
(* checked besides.  A check suspends at the market data, at the alert and *)
(* at the saved configuration; checks of one job may overlap, and the job  *)
(* may be removed under them.                                              *)
(*                                                                         *)
(* A job is added once: its identifier is made of the second.  What is     *)
(* read from the market is a choice: nothing, a calm value or a breach.    *)
(***************************************************************************)
EXTENDS Integers, FiniteSets, FiniteSetsExt

CONSTANTS Jobs,
          Tier,           \* the tier a job was classified into
          Askers,         \* users that have a job checked on demand
          Loop,           \* the checks made by the loops
          CheckInterval,  \* check_interval_seconds of a periodic job, in ticks
          AlertCooldown   \* cooldown_minutes, in ticks

Tiers == {"real_time", "periodic", "on_demand"}
Checkers == Askers \cup {Loop}

ASSUME ThresholdAssumption ==
    /\ Tier \in [Jobs -> Tiers]
    /\ IsFiniteSet(Askers) /\ Loop \notin Askers
    /\ {CheckInterval, AlertCooldown} \subseteq Nat \ {0}

VARIABLES
    jobState,       \* of a job: new, adding, active, removing or removed
    tierJobs,       \* jobs in the table of their tier
    isRunning,      \* jobs whose is_running is set
    checks,         \* where a check of a job is
    sinceCheck,     \* ticks since last_check; CheckInterval when none
    sinceAlert,     \* ticks since last_triggered; AlertCooldown when none
    savedJobs,      \* jobs with a configuration in Redis
    excused,        \* history: jobs removed under a check, or not deleted in Redis
    alertsAt        \* history: alerts begun in the last ticks, for every number of them

thresholdVars == <<jobState, tierJobs, isRunning, checks, sinceCheck, sinceAlert,
                   savedJobs, excused, alertsAt>>

InTables(j) == jobState[j] \in {"adding", "active"}
InFlight(j) == \E w \in Checkers : checks[w][j] # "idle"

ThresholdsTypeOK ==
    /\ jobState \in [Jobs -> {"new", "adding", "active", "removing", "removed"}]
    /\ tierJobs = {j \in Jobs : InTables(j)}
    /\ isRunning \subseteq Jobs
    /\ \A j \in isRunning : InFlight(j)
    /\ checks \in [Checkers -> [Jobs -> {"idle", "value", "alert", "save"}]]
    /\ \A a \in Askers : Cardinality({j \in Jobs : checks[a][j] # "idle"}) <= 1
    /\ sinceCheck \in [Jobs -> 0 .. CheckInterval]
    /\ sinceAlert \in [Jobs -> 0 .. AlertCooldown]
    /\ savedJobs \subseteq Jobs
    /\ excused \subseteq Jobs
    /\ alertsAt \in [Jobs -> [1 .. AlertCooldown -> Nat]]

ThresholdsInit ==
    /\ jobState = [j \in Jobs |-> "new"]
    /\ tierJobs = {} /\ isRunning = {}
    /\ checks = [w \in Checkers |-> [j \in Jobs |-> "idle"]]
    /\ sinceCheck = [j \in Jobs |-> CheckInterval]
    /\ sinceAlert = [j \in Jobs |-> AlertCooldown]
    /\ savedJobs = {} /\ excused = {}
    /\ alertsAt = [j \in Jobs |-> [t \in 1 .. AlertCooldown |-> 0]]

ThresholdTick ==
    /\ sinceCheck' = [j \in Jobs |-> Min({sinceCheck[j] + 1, CheckInterval})]
    /\ sinceAlert' = [j \in Jobs |-> Min({sinceAlert[j] + 1, AlertCooldown})]
    /\ alertsAt' = [j \in Jobs |-> [t \in 1 .. AlertCooldown |->
                       IF t = 1 THEN 0 ELSE alertsAt[j][t - 1]]]
    /\ UNCHANGED <<jobState, tierJobs, isRunning, checks, savedJobs, excused>>

jobVars == <<jobState, tierJobs, excused>>
checkVars == <<isRunning, checks, sinceCheck, sinceAlert, alertsAt>>

-----------------------------------------------------------------------------
(* Jobs come and go.  A failure to save is swallowed, one to delete not.   *)

AddThreshold(j) ==
    /\ jobState[j] = "new"
    /\ jobState' = [jobState EXCEPT ![j] = "adding"]
    /\ tierJobs' = tierJobs \cup {j}
    /\ UNCHANGED <<checkVars, savedJobs, excused>>

Added(j, fails) ==
    /\ jobState[j] = "adding"
    /\ jobState' = [jobState EXCEPT ![j] = "active"]
    /\ savedJobs' = IF fails THEN savedJobs ELSE savedJobs \cup {j}
    /\ UNCHANGED <<checkVars, tierJobs, excused>>

\* Mutant: the tables of the tiers keep the job.
LeavesTierTables(j) == UNCHANGED tierJobs

DropFromTiers(j) == tierJobs' = tierJobs \ {j}

RemoveThreshold(j) ==
    /\ jobState[j] = "active"
    /\ jobState' = [jobState EXCEPT ![j] = "removing"]
    /\ DropFromTiers(j)
    /\ excused' = IF InFlight(j) THEN excused \cup {j} ELSE excused
    /\ UNCHANGED <<checkVars, savedJobs>>

Removed(j, fails) ==
    /\ jobState[j] = "removing"
    /\ jobState' = [jobState EXCEPT ![j] = "removed"]
    /\ savedJobs' = IF fails THEN savedJobs ELSE savedJobs \ {j}
    /\ excused' = IF fails THEN excused \cup {j} ELSE excused
    /\ UNCHANGED <<checkVars, tierJobs>>

-----------------------------------------------------------------------------
(* Checks.                                                                 *)

\* A check on demand does not ask whether another one is running.
CheckOnDemand(a, j) ==
    /\ InTables(j)
    /\ \A k \in Jobs : checks[a][k] = "idle"
    /\ checks' = [checks EXCEPT ![a][j] = "value"]
    /\ isRunning' = isRunning \cup {j}
    /\ UNCHANGED <<jobVars, sinceCheck, sinceAlert, savedJobs, alertsAt>>

DueIn(tier) ==
    {j \in tierJobs \ isRunning :
        Tier[j] = tier /\ (tier = "periodic" => sinceCheck[j] = CheckInterval)}

\* A round waits for all of its checks before the next one is made up.
LoopRound(tier) ==
    /\ \A j \in Jobs : Tier[j] = tier => checks[Loop][j] = "idle"
    /\ DueIn(tier) # {}
    /\ checks' = [checks EXCEPT ![Loop] = [j \in Jobs |->
                     IF j \in DueIn(tier) THEN "value" ELSE @[j]]]
    /\ isRunning' = isRunning \cup DueIn(tier)
    /\ UNCHANGED <<jobVars, sinceCheck, sinceAlert, savedJobs, alertsAt>>

\* Mutant: a check that found no value leaves the flag set.
EndsWithValue(w, j, seen) ==
    /\ checks' = [checks EXCEPT ![w][j] = "idle"]
    /\ isRunning' = IF seen = "nothing" THEN isRunning ELSE isRunning \ {j}

\* The first of overlapping checks that ends clears the flag for all of them.
EndCheck(w, j, seen) ==
    /\ checks' = [checks EXCEPT ![w][j] = "idle"]
    /\ isRunning' = isRunning \ {j}

\* A breach within the cooldown of the last alert is not told.
ValueArrives(w, j, seen) ==
    /\ checks[w][j] = "value"
    /\ sinceCheck' = IF seen = "nothing" THEN sinceCheck ELSE [sinceCheck EXCEPT ![j] = 0]
    /\ IF seen = "breach" /\ sinceAlert[j] = AlertCooldown
       THEN /\ checks' = [checks EXCEPT ![w][j] = "alert"]
            /\ alertsAt' = [alertsAt EXCEPT ![j] = [t \in 1 .. AlertCooldown |-> @[t] + 1]]
            /\ UNCHANGED isRunning
       ELSE EndCheck(w, j, seen) /\ UNCHANGED alertsAt
    /\ UNCHANGED <<jobVars, sinceAlert, savedJobs>>

\* Mutant: only a check made by a loop starts the cooldown.
TriggeredByLoop(w, j) ==
    sinceAlert' = IF w = Loop THEN [sinceAlert EXCEPT ![j] = 0] ELSE sinceAlert

Triggered(w, j) == sinceAlert' = [sinceAlert EXCEPT ![j] = 0]

\* The alert was sent on every channel, or could not be: both are the same here.
AlertSent(w, j) ==
    /\ checks[w][j] = "alert"
    /\ checks' = [checks EXCEPT ![w][j] = "save"]
    /\ Triggered(w, j)
    /\ UNCHANGED <<jobVars, isRunning, sinceCheck, savedJobs, alertsAt>>

BreachSaved(w, j, fails) ==
    /\ checks[w][j] = "save"
    /\ EndCheck(w, j, "breach")
    /\ savedJobs' = IF fails THEN savedJobs ELSE savedJobs \cup {j}
    /\ UNCHANGED <<jobVars, sinceCheck, sinceAlert, alertsAt>>

CheckStep(w, j) ==
    \/ \E seen \in {"nothing", "calm", "breach"} : ValueArrives(w, j, seen)
    \/ AlertSent(w, j)
    \/ \E fails \in BOOLEAN : BreachSaved(w, j, fails)

ThresholdsNext ==
    \/ ThresholdTick
    \/ \E j \in Jobs :
          \/ AddThreshold(j) \/ RemoveThreshold(j)
          \/ \E fails \in BOOLEAN : Added(j, fails) \/ Removed(j, fails)
          \/ \E a \in Askers : CheckOnDemand(a, j)
          \/ \E w \in Checkers : CheckStep(w, j)
    \/ \E tier \in {"real_time", "periodic"} : LoopRound(tier)

ThresholdsSpec ==
    /\ ThresholdsInit /\ [][ThresholdsNext]_thresholdVars
    /\ WF_thresholdVars(ThresholdTick)
    /\ \A tier \in {"real_time", "periodic"} : WF_thresholdVars(LoopRound(tier))
    /\ \A j \in Jobs, w \in Checkers : WF_thresholdVars(CheckStep(w, j))

-----------------------------------------------------------------------------
(* Properties.                                                             *)

\* The cooldown is measured from the end of an alert and asked before it begins: in
\* no stretch of its length are there more alerts of a job than checks can overlap.
AlertsInCooldown ==
    \A j \in Jobs : alertsAt[j][AlertCooldown] <= Cardinality(Checkers)

\* A removed job is gone for good, its configuration too, unless it was removed under
\* a check, which saves it again when it breaches, or Redis failed to delete it.
RemovedIsGone ==
    \A j \in Jobs \ excused :
        jobState[j] = "removed" => ~InFlight(j) /\ j \notin savedJobs

\* A job of a loop is checked again and again until it is removed: neither a value
\* that is missing nor checks on demand that overlap leave it marked as running.
CheckedAgain ==
    \A j \in Jobs :
        Tier[j] # "on_demand" => []<>(~InTables(j) \/ InFlight(j))

\* What the monitor promises its users: jobs are checked as long as they are there and
\* no longer, without a flood of alerts.
ThresholdsPromise ==
    /\ [](ThresholdsTypeOK /\ AlertsInCooldown /\ RemovedIsGone)
    /\ CheckedAgain
==============================================================================
