---------------------------- MODULE OperationBudget ----------------------------
(***************************************************************************)
(* The budget of operations (app/services/metrics_service.py): the         *)
(* middleware gives every request a permit, refuses requests while there   *)
(* is backpressure and records each of them when it ends; an operator may  *)
(* change the budget, and switch backpressure on for a while as a test     *)
(* (app/api/v2/config_admin.py).                                           *)
(*                                                                         *)
(* All of it runs in one thread.  record_request takes a lock that is not  *)
(* reentrant and evaluates the pressure under it, and the evaluation asks  *)
(* for the request rate, which takes the lock again: the thread waits for  *)
(* itself.  So no request is ever recorded, and the rate stays zero.       *)
(***************************************************************************)
EXTENDS Integers, FiniteSets, FiniteSetsExt

CONSTANTS Served,        \* requests in flight
          NoRequest,
          Tests,         \* tests of the backpressure under way together
          Budgets        \* what max_concurrent_operations may be: set by the operator,
                         \* read from the config service, or the default without it

ASSUME BudgetAssumption ==
    /\ NoRequest \notin Served /\ IsFiniteSet(Served)
    /\ Budgets \subseteq Nat \ {0}

VARIABLES
    permits,     \* concurrent_operations
    pressure,    \* backpressure_state: its level, whose restrictions apply, and
                 \* the cap on operations they name, 0 for none
    budget,      \* budget_guards['max_concurrent_operations'], or 0: no guards yet
    at,          \* what each request is doing
    holder,      \* the request whose record_request holds _lock
    saved,       \* original_state of each test under way
    lastLevel,   \* history: the level the last evaluation came to
    mixed        \* history: tests overlapped each other or an evaluation

budgetVars == <<permits, pressure, budget, at, holder, saved, lastLevel, mixed>>

Levels3 == {"light", "moderate", "heavy"}
Levels4 == Levels3 \cup {"none"}
Pressures == [level : Levels4, rules : Levels4 \cup {"test"}, cap : 0 .. 25]
NotUnderWay == [level |-> "idle", rules |-> "none", cap |-> 0]
Inside == {r \in Served : at[r] \in {"inside", "probe"}}
UnderWay == {t \in Tests : saved[t] # NotUnderWay}

\* The state with the restrictions of a level, whose cap is that of the budget now.
Restricted(level, limit) ==
    [level |-> level, rules |-> level,
     cap |-> CASE level = "moderate" -> Min({25, limit \div 2})
               [] level = "heavy" -> Min({10, limit \div 4})
               [] OTHER -> 0]

BudgetTypeOK ==
    /\ permits \in 0 .. Cardinality(Served)
    /\ pressure \in Pressures
    /\ budget \in Budgets \cup {0}
    /\ at \in [Served -> {"idle", "inside", "probe", "refused"}]
    /\ holder \in Served \cup {NoRequest}
    /\ saved \in [Tests -> Pressures \cup {NotUnderWay}]
    /\ lastLevel \in Levels4
    /\ mixed \in BOOLEAN

BudgetInit ==
    /\ permits = 0
    /\ pressure = Restricted("none", 0)
    /\ budget = 0
    /\ at = [r \in Served |-> "idle"]
    /\ holder = NoRequest
    /\ saved = [t \in Tests |-> NotUnderWay]
    /\ lastLevel = "none" /\ mixed = FALSE

\* The thread runs unless it waits for the lock it holds.
LoopRuns == holder = NoRequest
-----------------------------------------------------------------------------
\* A permit refused for the number of operations; a cap of zero is no cap.
AtCap == pressure.cap > 0 /\ permits >= pressure.cap

\* Restrictions of a test name no rule, and light ones none that refuses.
ShouldAllow(type, priority) ==
    \/ type \in {"probe", "essential"}
    \/ pressure.rules \in {"none", "light", "test"}
    \/ /\ priority = "high"
       /\ type # "analytics"
       /\ ~AtCap
       /\ pressure.rules = "heavy" => type = "critical"

\* A request gets its permit, or is answered 503 in calls that it awaits.
Enter(r, type, priority) ==
    /\ LoopRuns /\ at[r] = "idle"
    /\ IF ShouldAllow(type, priority)
         THEN /\ permits' = permits + 1
              /\ at' = [at EXCEPT ![r] = IF type = "probe" THEN "probe" ELSE "inside"]
         ELSE /\ at' = [at EXCEPT ![r] = "refused"]
              /\ UNCHANGED permits
    /\ UNCHANGED <<pressure, budget, holder, saved, lastLevel, mixed>>

\* What record_request does with a request that it does not drop: it takes the lock,
\* and then takes it again.
LockAndEvaluate(r) == holder' = r /\ UNCHANGED <<permits, at>>

\* Mutant: the permit of a refused request is given back as well.
ReturnAlways(r) == permits' = Max({0, permits - 1})

ReleasePermit(r) == permits' = IF at[r] = "refused" THEN permits ELSE Max({0, permits - 1})

\* Under heavy pressure only the health and metrics endpoints are recorded.
Dropped(r) == pressure.level = "heavy" /\ at[r] # "probe"

End(r) ==
    /\ ReleasePermit(r)
    /\ at' = [at EXCEPT ![r] = "idle"]

\* The request has been answered, by a 503 or by the application, or was cancelled.
RecordRequest(r) ==
    /\ LoopRuns /\ at[r] # "idle"
    /\ IF Dropped(r) THEN End(r) /\ UNCHANGED holder ELSE LockAndEvaluate(r)
    /\ UNCHANGED <<pressure, budget, saved, lastLevel, mixed>>
-----------------------------------------------------------------------------
\* measured is how many of memory and CPU are above their budget.
Level(measured, limit) ==
    LET indicators == measured + (IF permits > limit THEN 1 ELSE 0)
    IN  CASE indicators = 0 -> "none"
          [] indicators = 1 -> "light"
          [] indicators = 2 -> "moderate"
          [] OTHER -> "heavy"

\* Only a change of the level changes the restrictions.
EvaluateBackpressure(level, limit) ==
    /\ pressure' = IF level = pressure.level THEN pressure ELSE Restricted(level, limit)
    /\ lastLevel' = level
    /\ mixed' = (UnderWay # {} \/ (mixed /\ level = pressure.level))

\* Before a refresh there are no guards to change, and the update raises.
UpdateBudgetGuards(limit, measured) ==
    /\ LoopRuns /\ budget # 0
    /\ budget' = limit
    /\ EvaluateBackpressure(Level(measured, limit), limit)
    /\ UNCHANGED <<permits, at, holder, saved>>

\* The config service answers with any limit, or does not and the default is taken.
RefreshBudgetConfig(limit) ==
    /\ LoopRuns
    /\ budget' = limit
    /\ UNCHANGED <<permits, pressure, at, holder, saved, lastLevel, mixed>>

\* Mutant: the state itself is kept, which the test then changes.
SavedItself(level) == [level |-> level, rules |-> "test", cap |-> 0]

SavedCopy(level) == pressure

StartTest(t, level) ==
    /\ LoopRuns /\ saved[t] = NotUnderWay
    /\ saved' = [saved EXCEPT ![t] = SavedCopy(level)]
    /\ pressure' = [level |-> level, rules |-> "test", cap |-> 0]
    /\ mixed' = (mixed \/ UnderWay # {})
    /\ UNCHANGED <<permits, budget, at, holder, lastLevel>>

ResetBackpressure(t) ==
    /\ LoopRuns /\ saved[t] # NotUnderWay
    /\ pressure' = saved[t]
    /\ saved' = [saved EXCEPT ![t] = NotUnderWay]
    /\ UNCHANGED <<permits, budget, at, holder, lastLevel, mixed>>

BudgetNext ==
    \/ \E r \in Served :
          \/ \E type \in {"probe", "essential", "critical", "analytics", "default"},
                priority \in {"high", "normal"} : Enter(r, type, priority)
          \/ RecordRequest(r)
    \/ \E limit \in Budgets :
          \/ RefreshBudgetConfig(limit)
          \/ \E measured \in 0 .. 2 : UpdateBudgetGuards(limit, measured)
    \/ \E t \in Tests : ResetBackpressure(t) \/ \E level \in Levels3 : StartTest(t, level)

BudgetSpec == BudgetInit /\ [][BudgetNext]_budgetVars

\* The application answers every request, and the thread then records it.
FairBudgetSpec == BudgetSpec /\ \A r \in Served : WF_budgetVars(RecordRequest(r))
-----------------------------------------------------------------------------
(* Properties.                                                             *)

\* The count of operations is that of the requests inside, the one that waits for
\* its own lock included, however requests are refused, dropped and end.
PermitsAgree == permits = Cardinality(Inside)

\* A request that is answered is recorded and leaves, as the tests of record_request
\* have it.  It does not: the first one to be recorded waits for its own lock, and
\* the thread with it.
EveryRequestEnds == \A r \in Served : at[r] # "idle" ~> at[r] = "idle"

\* With no test under way the pressure is what the last evaluation found, unless
\* tests overlapped each other or an evaluation: then the state that one of them
\* saved may stay for good.
SettlesAsFound ==
    UnderWay = {} /\ ~mixed => pressure.level = lastLevel /\ pressure.rules = lastLevel

\* What the budget promises while the thread runs: no permit is lost or returned
\* twice, and a test alone leaves the pressure as it was.
BudgetPromise == BudgetTypeOK /\ PermitsAgree /\ SettlesAsFound
===============================================================================
