------------------------------ MODULE GuardsProofs ------------------------------
(* What the guards of the service and its instances promise, each for itself.    *)
EXTENDS MCGuards, FiniteSetTheorems, TLAPS
-------------------------------------------------------------------------------
(* The budget of the operations.                                               *)

USE BudgetAssumption

\* While the pressure is still what an evaluation or a single test made of it, no two
\* tests are under way, and the one that is will restore what the evaluation found.
AsFound(p) == p.level = lastLevel /\ p.rules = lastLevel
OneTestRestores ==
    ~mixed => \A t \in UnderWay : AsFound(saved[t]) /\ \A u \in UnderWay : u = t

BudgetInv == BudgetTypeOK /\ PermitsAgree /\ SettlesAsFound /\ OneTestRestores

\* The caps that restrictions name are within the type of the state.
LEMMA RestrictedType ==
    ASSUME NEW stress \in Levels4, NEW limit \in Nat
    PROVE  /\ Restricted(stress, limit) \in Pressures
           /\ Restricted(stress, limit).level = stress
           /\ Restricted(stress, limit).rules = stress
  <1>1. ASSUME NEW a \in Nat, NEW b \in Nat
        PROVE  Min({a, b}) \in Nat /\ Min({a, b}) <= a
    <2>1. \E x \in {a, b} : \A y \in {a, b} : x <= y
      BY <1>1
    <2>2. Min({a, b}) \in {a, b} /\ \A y \in {a, b} : Min({a, b}) <= y
      BY <2>1 DEF Min
    <2> QED BY <2>2, <1>1
  <1>2. limit \div 2 \in Nat /\ limit \div 4 \in Nat
    OBVIOUS
  <1>3. Min({25, limit \div 2}) \in 0 .. 25 /\ Min({10, limit \div 4}) \in 0 .. 25
    <2>1. Min({25, limit \div 2}) \in Nat /\ Min({25, limit \div 2}) <= 25
      BY <1>1, <1>2
    <2>2. Min({10, limit \div 4}) \in Nat /\ Min({10, limit \div 4}) <= 10
      BY <1>1, <1>2
    <2> QED BY <2>1, <2>2
  <1> QED BY <1>3 DEF Restricted, Pressures, Levels4, Levels3

\* What is kept of a test under way is a state, never the mark of one that is not.
LEMMA PressuresUnderWay == NotUnderWay \notin Pressures
  BY DEF NotUnderWay, Pressures, Levels4, Levels3

\* Permits are counted as requests enter.
LEMMA EnterCounts ==
    ASSUME BudgetInv, NEW r \in Served, NEW type, NEW priority, Enter(r, type, priority)
    PROVE  permits' \in 0 .. Cardinality(Served) /\ PermitsAgree'
             /\ at' \in [Served -> {"idle", "inside", "probe", "refused"}]
  <1>1. IsFiniteSet(Inside) /\ Inside \subseteq Served /\ r \notin Inside
    BY FS_Subset DEF Inside, Enter
  <1>2. at' \in [Served -> {"idle", "inside", "probe", "refused"}]
    BY DEF Enter, BudgetInv, BudgetTypeOK
  <1>3. CASE ShouldAllow(type, priority)
    <2>1. Inside' = Inside \cup {r} /\ permits' = permits + 1
      BY <1>3 DEF Enter, Inside, BudgetInv, BudgetTypeOK
    <2>2. Cardinality(Inside') = Cardinality(Inside) + 1
      BY <2>1, <1>1, FS_AddElement
    <2>3. Cardinality(Inside') <= Cardinality(Served) /\ Cardinality(Served) \in Nat
      BY FS_Subset, FS_CardinalityType DEF Inside
    <2> QED BY <1>2, <2>1, <2>2, <2>3 DEF BudgetInv, PermitsAgree, BudgetTypeOK
  <1>4. CASE ~ShouldAllow(type, priority)
    <2>1. Inside' = Inside /\ permits' = permits
      BY <1>4 DEF Enter, Inside, BudgetInv, BudgetTypeOK
    <2> QED BY <1>2, <2>1 DEF BudgetInv, PermitsAgree, BudgetTypeOK
  <1> QED BY <1>3, <1>4

\* And as they end, when they do.
LEMMA EndCounts ==
    ASSUME BudgetInv, NEW r \in Served, at[r] # "idle", End(r)
    PROVE  permits' \in 0 .. Cardinality(Served) /\ PermitsAgree'
             /\ at' \in [Served -> {"idle", "inside", "probe", "refused"}]
  <1>1. IsFiniteSet(Inside) /\ Inside' = Inside \ {r}
    BY FS_Subset DEF Inside, End, BudgetInv, BudgetTypeOK
  <1>2. at' \in [Served -> {"idle", "inside", "probe", "refused"}]
    BY DEF End, BudgetInv, BudgetTypeOK
  <1>3. Cardinality(Inside') = IF r \in Inside THEN Cardinality(Inside) - 1 ELSE Cardinality(Inside)
    BY <1>1, FS_RemoveElement
  <1>4. Cardinality(Inside') \in Nat /\ permits = Cardinality(Inside) /\ permits \in Nat
    BY <1>1, FS_RemoveElement, FS_CardinalityType DEF BudgetInv, PermitsAgree, BudgetTypeOK
  <1>5. CASE at[r] = "refused"
    <2>1. permits' = permits /\ r \notin Inside
      BY <1>5 DEF End, ReleasePermit, Inside
    <2> QED BY <2>1, <1>2, <1>3 DEF BudgetInv, PermitsAgree, BudgetTypeOK
  <1>6. CASE at[r] # "refused"
    <2>1. r \in Inside /\ permits' = Max({0, permits - 1})
      BY <1>6 DEF End, ReleasePermit, Inside, BudgetInv, BudgetTypeOK
    <2>2. permits - 1 \in Nat
      BY <2>1, <1>3, <1>4
    <2>3. \E x \in {0, permits - 1} : \A y \in {0, permits - 1} : x >= y
      BY <2>2
    <2>4. permits' \in {0, permits - 1} /\ permits' >= permits - 1
      BY <2>1, <2>3 DEF Max
    <2>5. permits' = permits - 1
      BY <2>2, <2>4
    <2>6. permits \in 0 .. Cardinality(Served) /\ Cardinality(Served) \in Nat
      BY FS_CardinalityType DEF BudgetInv, BudgetTypeOK
    <2>7. permits' \in 0 .. Cardinality(Served)
      BY <2>5, <2>2, <2>6
    <2> QED BY <2>1, <2>5, <2>7, <1>2, <1>3, <1>4 DEF PermitsAgree
  <1> QED BY <1>5, <1>6

LEMMA BudgetInitially == BudgetInit => BudgetInv
  <1> SUFFICES ASSUME BudgetInit PROVE BudgetInv
    OBVIOUS
  <1>1. 0 \in Nat /\ "none" \in Levels4
    BY DEF Levels4
  <1>2. pressure \in Pressures /\ pressure.level = "none" /\ pressure.rules = "none"
    BY <1>1, RestrictedType DEF BudgetInit
  <1>3. Inside = {} /\ UnderWay = {}
    BY DEF BudgetInit, Inside, UnderWay
  <1>4. Cardinality(Served) \in Nat /\ Cardinality(Inside) = 0
    BY <1>3, FS_CardinalityType, FS_EmptySet
  <1>5. BudgetTypeOK
    <2>1. permits \in 0 .. Cardinality(Served)
      BY <1>4 DEF BudgetInit
    <2>2. saved \in [Tests -> Pressures \cup {NotUnderWay}]
      BY DEF BudgetInit
    <2>3. at \in [Served -> {"idle", "inside", "probe", "refused"}]
      BY DEF BudgetInit
    <2>4. budget \in Budgets \cup {0} /\ holder \in Served \cup {NoRequest}
      BY DEF BudgetInit
    <2>5. lastLevel \in Levels4 /\ mixed \in BOOLEAN
      BY <1>1 DEF BudgetInit
    <2> QED BY <1>2, <2>1, <2>2, <2>3, <2>4, <2>5 DEF BudgetTypeOK
  <1> QED
    BY <1>2, <1>3, <1>4, <1>5
    DEF BudgetInit, BudgetInv, PermitsAgree, SettlesAsFound, OneTestRestores

LEMMA EnterInv ==
    ASSUME BudgetInv, NEW r \in Served, NEW type, NEW priority, Enter(r, type, priority)
    PROVE  BudgetInv'
  <1>1. UNCHANGED <<pressure, budget, holder, saved, lastLevel, mixed>>
    BY DEF Enter
  <1>2. BudgetTypeOK' /\ PermitsAgree'
    BY <1>1, EnterCounts DEF BudgetInv, BudgetTypeOK
  <1>3. SettlesAsFound' /\ OneTestRestores'
    BY <1>1 DEF BudgetInv, SettlesAsFound, OneTestRestores, UnderWay, AsFound
  <1> QED BY <1>2, <1>3 DEF BudgetInv

LEMMA RecordInv ==
    ASSUME BudgetInv, NEW r \in Served, RecordRequest(r)
    PROVE  BudgetInv'
  <1>1. UNCHANGED <<pressure, budget, saved, lastLevel, mixed>>
    BY DEF RecordRequest
  <1>2. holder' \in Served \cup {NoRequest}
    BY DEF RecordRequest, LockAndEvaluate, BudgetInv, BudgetTypeOK
  <1>3. CASE End(r)
    BY <1>1, <1>2, <1>3, EndCounts
    DEF RecordRequest, BudgetInv, BudgetTypeOK, SettlesAsFound, OneTestRestores, UnderWay, AsFound
  <1>4. CASE UNCHANGED <<permits, at>>
    BY <1>1, <1>2, <1>4
    DEF BudgetInv, BudgetTypeOK, PermitsAgree, Inside, SettlesAsFound, OneTestRestores,
        UnderWay, AsFound
  <1> QED BY <1>3, <1>4 DEF RecordRequest, LockAndEvaluate

\* What an evaluation makes of the pressure; only one that runs beside a test mixes.
LEMMA EvaluationInv ==
    ASSUME BudgetInv, NEW stress \in Levels4, NEW limit \in Budgets,
           EvaluateBackpressure(stress, limit), UNCHANGED saved
    PROVE  /\ pressure' \in Pressures /\ lastLevel' \in Levels4 /\ mixed' \in BOOLEAN
           /\ SettlesAsFound' /\ OneTestRestores'
  <1>1. /\ Restricted(stress, limit) \in Pressures
        /\ Restricted(stress, limit).level = stress
        /\ Restricted(stress, limit).rules = stress
    BY RestrictedType
  <1>2. pressure' \in Pressures /\ lastLevel' \in Levels4 /\ mixed' \in BOOLEAN
    BY <1>1 DEF EvaluateBackpressure, BudgetInv, BudgetTypeOK
  <1>3. UnderWay' = UnderWay
    BY DEF UnderWay
  <1>4. CASE UnderWay # {}
    BY <1>4, <1>2, <1>3 DEF EvaluateBackpressure, SettlesAsFound, OneTestRestores
  <1>5. CASE UnderWay = {}
    <2>1. OneTestRestores'
      BY <1>3, <1>5 DEF OneTestRestores
    <2>2. ASSUME stress # pressure.level PROVE SettlesAsFound'
      BY <2>2, <1>1 DEF EvaluateBackpressure, SettlesAsFound
    <2>3. ASSUME stress = pressure.level PROVE SettlesAsFound'
      BY <2>3, <1>2, <1>3, <1>5 DEF EvaluateBackpressure, SettlesAsFound, BudgetInv
    <2> QED BY <1>2, <2>1, <2>2, <2>3
  <1> QED BY <1>2, <1>4, <1>5

LEMMA UpdateInv ==
    ASSUME BudgetInv, NEW limit \in Budgets, NEW measured \in 0 .. 2,
           UpdateBudgetGuards(limit, measured)
    PROVE  BudgetInv'
  <1>1. Level(measured, limit) \in Levels4
    BY DEF Level, Levels4, Levels3
  <1>2. /\ EvaluateBackpressure(Level(measured, limit), limit)
        /\ UNCHANGED <<permits, at, holder, saved>> /\ budget' = limit
    BY DEF UpdateBudgetGuards
  <1>3. /\ pressure' \in Pressures /\ lastLevel' \in Levels4 /\ mixed' \in BOOLEAN
        /\ SettlesAsFound' /\ OneTestRestores'
    BY <1>1, <1>2, EvaluationInv
  <1> QED BY <1>2, <1>3 DEF BudgetInv, BudgetTypeOK, PermitsAgree, Inside

LEMMA RefreshInv ==
    ASSUME BudgetInv, NEW limit \in Budgets, RefreshBudgetConfig(limit)
    PROVE  BudgetInv'
  BY DEF RefreshBudgetConfig, BudgetInv, BudgetTypeOK, PermitsAgree, Inside, SettlesAsFound,
         OneTestRestores, UnderWay, AsFound

\* A test keeps what it found, and the first of them keeps what the evaluation found.
LEMMA StartTestInv ==
    ASSUME BudgetInv, NEW t \in Tests, NEW stress \in Levels3, StartTest(t, stress)
    PROVE  BudgetInv'
  <1>1. /\ UNCHANGED <<permits, budget, at, holder, lastLevel>>
        /\ saved[t] = NotUnderWay /\ saved' = [saved EXCEPT ![t] = pressure]
        /\ pressure' = [level |-> stress, rules |-> "test", cap |-> 0]
        /\ mixed' = (mixed \/ UnderWay # {})
    BY DEF StartTest, SavedCopy
  <1>2. pressure \in Pressures /\ pressure # NotUnderWay
    BY PressuresUnderWay DEF BudgetInv, BudgetTypeOK
  <1>3. pressure' \in Pressures
    BY <1>1 DEF Pressures, Levels4
  <1>4. BudgetTypeOK' /\ PermitsAgree'
    <2>1. saved' \in [Tests -> Pressures \cup {NotUnderWay}]
      BY <1>1, <1>2 DEF BudgetInv, BudgetTypeOK
    <2>2. mixed' \in BOOLEAN
      BY <1>1 DEF BudgetInv, BudgetTypeOK
    <2> QED BY <1>1, <1>3, <2>1, <2>2 DEF BudgetInv, BudgetTypeOK, PermitsAgree, Inside
  <1>5. UnderWay' = UnderWay \cup {t}
    BY <1>1, <1>2 DEF UnderWay, BudgetInv, BudgetTypeOK
  <1>6. SettlesAsFound'
    BY <1>5 DEF SettlesAsFound
  <1>7. OneTestRestores'
    <2> SUFFICES ASSUME ~mixed' PROVE \A u \in UnderWay' : AsFound(saved[u])' /\ u = t
      BY <1>5 DEF OneTestRestores
    <2>1. ~mixed /\ UnderWay = {}
      BY <1>1 DEF BudgetInv, BudgetTypeOK
    <2>2. AsFound(pressure)
      BY <2>1 DEF BudgetInv, SettlesAsFound, AsFound
    <2>3. saved'[t] = pressure
      BY <1>1 DEF BudgetInv, BudgetTypeOK
    <2> QED BY <1>1, <1>5, <2>1, <2>2, <2>3 DEF AsFound
  <1> QED BY <1>4, <1>6, <1>7 DEF BudgetInv

LEMMA ResetInv ==
    ASSUME BudgetInv, NEW t \in Tests, ResetBackpressure(t)
    PROVE  BudgetInv'
  <1>1. /\ UNCHANGED <<permits, budget, at, holder, lastLevel, mixed>>
        /\ saved[t] # NotUnderWay /\ saved' = [saved EXCEPT ![t] = NotUnderWay]
        /\ pressure' = saved[t]
    BY DEF ResetBackpressure
  <1>2. BudgetTypeOK' /\ PermitsAgree'
    <2>1. saved' \in [Tests -> Pressures \cup {NotUnderWay}] /\ pressure' \in Pressures
      BY <1>1 DEF BudgetInv, BudgetTypeOK
    <2> QED BY <1>1, <2>1 DEF BudgetInv, BudgetTypeOK, PermitsAgree, Inside
  <1>3. t \in UnderWay /\ UnderWay' = UnderWay \ {t}
    BY <1>1 DEF UnderWay, BudgetInv, BudgetTypeOK
  <1>4. SettlesAsFound'
    <2> SUFFICES ASSUME ~mixed PROVE pressure'.level = lastLevel /\ pressure'.rules = lastLevel
      BY <1>1 DEF SettlesAsFound
    <2>1. AsFound(saved[t])
      BY <1>3 DEF BudgetInv, OneTestRestores
    <2> QED BY <1>1, <2>1 DEF AsFound
  <1>5. OneTestRestores'
    <2> SUFFICES ASSUME ~mixed PROVE UnderWay' = {}
      BY <1>1 DEF OneTestRestores
    <2> QED BY <1>3 DEF BudgetInv, OneTestRestores
  <1> QED BY <1>2, <1>4, <1>5 DEF BudgetInv

LEMMA BudgetInvIsInductive == BudgetInv /\ [BudgetNext]_budgetVars => BudgetInv'
  <1> SUFFICES ASSUME BudgetInv, [BudgetNext]_budgetVars PROVE BudgetInv'
    OBVIOUS
  <1>1. CASE UNCHANGED budgetVars
    BY <1>1 DEF BudgetInv, BudgetTypeOK, PermitsAgree, Inside, SettlesAsFound, OneTestRestores,
                UnderWay, AsFound, budgetVars
  <1>2. CASE BudgetNext
    BY <1>2, EnterInv, RecordInv, UpdateInv, RefreshInv, StartTestInv, ResetInv
    DEF BudgetNext
  <1> QED BY <1>1, <1>2

\* No permit is lost or returned twice, and a test that nothing disturbs leaves the
\* pressure as it was, however many requests, tests and budgets there are.
THEOREM BudgetKept == BudgetSpec => []BudgetPromise
  <1>1. BudgetInit => BudgetInv
    BY BudgetInitially
  <1>2. BudgetInv /\ [BudgetNext]_budgetVars => BudgetInv'
    BY BudgetInvIsInductive
  <1>3. BudgetInv => BudgetPromise
    BY DEF BudgetInv, BudgetPromise
  <1> QED BY <1>1, <1>2, <1>3, PTL DEF BudgetSpec

HIDE BudgetAssumption

-------------------------------------------------------------------------------
(* The executions and their watchers.                                          *)

USE CrashAssumption

\* A name in the table is that of the call it leads to, which has not left.
EntryIsOwn ==
    \A x \in Names : active[x] # NoExecution =>
        nameOf[active[x]] = x /\ exec[active[x]] \in {"inside", "leaving"}

\* One call at a time keeps the main thread.
OneKeepsTheThread ==
    \A d, e \in Executions :
        exec[d] \in {"admitted", "leaving"} /\ exec[e] \in {"admitted", "leaving"} => d = e

\* Watchers are those of calls that were entered.
WatchersWereEntered ==
    \A e \in Executions : monitor[e] # "off" => exec[e] \in {"inside", "leaving", "ended"}

\* A watcher that terminates has told its own call to stop, unless the name was another's.
TerminatedIsHalted ==
    \A e \in Executions : monitor[e] \in {"signalling", "removing"} /\ Alone(e) => e \in halted

\* After a latecomer no call is admitted any more.
LateIsLast ==
    /\ late # {} => emergency /\ \A e \in Executions : exec[e] # "admitted"
    /\ \A d, e \in late : d = e

TableBounded == IsFiniteSet(Entered) /\ Cardinality(Entered) <= MaxConcurrent

CrashInv ==
    /\ CrashTypeOK
    /\ EntryIsOwn
    /\ OneKeepsTheThread
    /\ WatchersWereEntered
    /\ TerminatedIsHalted
    /\ LateIsLast
    /\ TableBounded
    /\ WaitingIsEntered

\* A call that was entered stays one that was: who is alone was alone before.
LEMMA AloneBefore ==
    ASSUME NEW e \in Executions, nameOf' = nameOf, Alone(e)',
           \A d \in Executions : exec[d] \in {"inside", "leaving", "ended"} =>
                                 exec'[d] \in {"inside", "leaving", "ended"},
           CrashTypeOK
    PROVE  Alone(e)
  BY DEF Alone, CrashTypeOK

\* The end of a table's entry, or of several, leaves no more of them.
LEMMA TableShrinks ==
    ASSUME TableBounded, Entered' \subseteq Entered
    PROVE  TableBounded'
  BY FS_Subset, FS_CardinalityType DEF TableBounded

LEMMA CrashInitially == CrashInit => CrashInv
  <1> SUFFICES ASSUME CrashInit PROVE CrashInv
    OBVIOUS
  <1>1. Entered = {}
    BY DEF CrashInit, Entered
  <1>2. TableBounded
    BY <1>1, FS_EmptySet DEF TableBounded
  <1> QED
    BY <1>2 DEF CrashInit, CrashInv, CrashTypeOK, EntryIsOwn, OneKeepsTheThread,
                WatchersWereEntered, TerminatedIsHalted, LateIsLast, WaitingIsEntered, Waiting

LEMMA AdmitKeeps ==
    ASSUME CrashInv, NEW e \in Executions, Admit(e)
    PROVE  CrashInv'
  <1> USE DEF CrashInv, Admit
  <1>1. CrashTypeOK'
    BY DEF CrashTypeOK
  <1>2. EntryIsOwn' /\ WatchersWereEntered'
    BY DEF EntryIsOwn, WatchersWereEntered, CrashTypeOK
  <1>3. OneKeepsTheThread'
    BY DEF OneKeepsTheThread, MainFree, CrashTypeOK
  <1>4. \A d \in Executions : Alone(d)' => Alone(d)
    BY AloneBefore DEF CrashTypeOK
  <1>5. TerminatedIsHalted'
    BY <1>4 DEF TerminatedIsHalted
  <1>6. LateIsLast'
    BY DEF LateIsLast, Admits, CrashTypeOK
  <1>7. TableBounded'
    BY TableShrinks DEF Entered
  <1>8. WaitingIsEntered'
    BY <1>4 DEF WaitingIsEntered, Waiting, CrashTypeOK
  <1> QED BY <1>1, <1>2, <1>3, <1>5, <1>6, <1>7, <1>8

LEMMA NoRoomKeeps ==
    ASSUME CrashInv, NEW e \in Executions, NoRoom(e)
    PROVE  CrashInv'
  <1> USE DEF CrashInv, NoRoom
  <1>1. CrashTypeOK'
    BY DEF CrashTypeOK
  <1>2. EntryIsOwn' /\ WatchersWereEntered' /\ OneKeepsTheThread'
    BY DEF EntryIsOwn, WatchersWereEntered, OneKeepsTheThread, CrashTypeOK
  <1>4. \A d \in Executions : Alone(d)' => Alone(d)
    BY AloneBefore DEF CrashTypeOK
  <1>5. TerminatedIsHalted'
    BY <1>4 DEF TerminatedIsHalted
  <1>6. LateIsLast'
    BY DEF LateIsLast, CrashTypeOK
  <1>7. TableBounded'
    BY TableShrinks DEF Entered
  <1>8. WaitingIsEntered'
    BY <1>4 DEF WaitingIsEntered, Waiting, CrashTypeOK
  <1> QED BY <1>1, <1>2, <1>5, <1>6, <1>7, <1>8

\* A name is new in the table or takes the place of the one before.
LEMMA EnterContextKeeps ==
    ASSUME CrashInv, NEW e \in Executions, EnterContext(e)
    PROVE  CrashInv'
  <1> DEFINE x == nameOf[e]
  <1>0. x \in Names /\ e # NoExecution
    BY DEF CrashInv, CrashTypeOK
  <1> USE DEF CrashInv, EnterContext
  <1>1. CrashTypeOK'
    BY <1>0 DEF CrashTypeOK
  <1>2. EntryIsOwn'
    <2> SUFFICES ASSUME NEW y \in Names, active'[y] # NoExecution
                 PROVE  nameOf'[active'[y]] = y /\ exec'[active'[y]] \in {"inside", "leaving"}
      BY DEF EntryIsOwn
    <2>1. CASE y = x
      BY <2>1, <1>0 DEF CrashTypeOK
    <2>2. CASE y # x
      <3>1. active'[y] = active[y] /\ active[y] \in Executions
        BY <2>2 DEF CrashTypeOK
      <3>2. nameOf[active[y]] = y /\ exec[active[y]] \in {"inside", "leaving"}
        BY <3>1 DEF EntryIsOwn
      <3> QED BY <3>1, <3>2 DEF CrashTypeOK
    <2> QED BY <2>1, <2>2
  <1>3. OneKeepsTheThread' /\ WatchersWereEntered'
    BY DEF OneKeepsTheThread, WatchersWereEntered, CrashTypeOK
  <1>4. \A d \in Executions : Alone(d)' => Alone(d)
    BY AloneBefore DEF CrashTypeOK
  <1>5. TerminatedIsHalted'
    BY <1>4 DEF TerminatedIsHalted, CrashTypeOK
  <1>6. LateIsLast'
    <2>1. \A d \in Executions : exec'[d] # "admitted"
      BY DEF OneKeepsTheThread, CrashTypeOK
    <2>2. late = {}
      BY DEF LateIsLast
    <2> QED BY <2>1, <2>2 DEF LateIsLast
  <1>7. TableBounded'
    <2>1. Entered' = Entered \cup {x}
      BY <1>0 DEF Entered, CrashTypeOK
    <2>2. IsFiniteSet(Entered) /\ Cardinality(Entered) \in Nat
      BY FS_CardinalityType DEF TableBounded
    <2>3. Cardinality(Entered) + 1 <= MaxConcurrent
      BY <2>2 DEF Room
    <2> QED BY <2>1, <2>2, <2>3, FS_AddElement DEF TableBounded
  <1>8. WaitingIsEntered'
    <2> SUFFICES ASSUME NEW d \in Waiting', Alone(d)', d \notin halted'
                 PROVE  active'[nameOf[d]] = d
      BY DEF WaitingIsEntered
    <2>1. CASE d = e
      BY <2>1, <1>0 DEF CrashTypeOK
    <2>2. CASE d # e
      <3>1. nameOf[d] # x
        BY <2>2 DEF Alone, CrashTypeOK, Waiting
      <3>2. d \in Waiting /\ d \notin halted /\ Alone(d)
        BY <2>2, <1>4 DEF Waiting, CrashTypeOK
      <3> QED BY <3>1, <3>2 DEF WaitingIsEntered, CrashTypeOK, Waiting
    <2> QED BY <2>1, <2>2
  <1> QED BY <1>1, <1>2, <1>3, <1>5, <1>6, <1>7, <1>8

LEMMA ReturnKeeps ==
    ASSUME CrashInv, NEW e \in Executions, Return(e)
    PROVE  CrashInv'
  <1> USE DEF CrashInv, Return
  <1>1. CrashTypeOK'
    BY DEF CrashTypeOK
  <1>2. EntryIsOwn' /\ WatchersWereEntered'
    BY DEF EntryIsOwn, WatchersWereEntered, CrashTypeOK
  <1>3. OneKeepsTheThread'
    BY DEF OneKeepsTheThread, MainFree, CrashTypeOK
  <1>4. \A d \in Executions : Alone(d)' => Alone(d)
    BY AloneBefore DEF CrashTypeOK
  <1>5. TerminatedIsHalted'
    BY <1>4 DEF TerminatedIsHalted
  <1>6. LateIsLast'
    BY DEF LateIsLast, CrashTypeOK
  <1>7. TableBounded'
    BY TableShrinks DEF Entered
  <1>8. WaitingIsEntered'
    BY <1>4 DEF WaitingIsEntered, Waiting, CrashTypeOK
  <1> QED BY <1>1, <1>2, <1>3, <1>5, <1>6, <1>7, <1>8

\* The entry that is removed is the call's own, or nobody's who is alone.
LEMMA LeaveKeeps ==
    ASSUME CrashInv, NEW e \in Executions, Leave(e)
    PROVE  CrashInv'
  <1> USE DEF CrashInv, Leave, RemoveEntry
  <1>1. CrashTypeOK'
    BY DEF CrashTypeOK
  <1>2. EntryIsOwn'
    <2> SUFFICES ASSUME NEW y \in Names, active'[y] # NoExecution
                 PROVE  nameOf'[active'[y]] = y /\ exec'[active'[y]] \in {"inside", "leaving"}
      BY DEF EntryIsOwn
    <2>1. y # nameOf[e] /\ active'[y] = active[y]
      BY DEF CrashTypeOK
    <2>2. nameOf[active[y]] = y /\ exec[active[y]] \in {"inside", "leaving"}
      BY <2>1 DEF EntryIsOwn
    <2> QED BY <2>1, <2>2 DEF CrashTypeOK
  <1>3. OneKeepsTheThread' /\ WatchersWereEntered'
    BY DEF OneKeepsTheThread, WatchersWereEntered, CrashTypeOK
  <1>4. \A d \in Executions : Alone(d)' => Alone(d)
    BY AloneBefore DEF CrashTypeOK
  <1>5. TerminatedIsHalted'
    BY <1>4 DEF TerminatedIsHalted
  <1>6. LateIsLast'
    BY DEF LateIsLast, CrashTypeOK
  <1>7. TableBounded'
    BY TableShrinks DEF Entered, CrashTypeOK
  <1>8. WaitingIsEntered'
    <2> SUFFICES ASSUME NEW d \in Waiting', Alone(d)', d \notin halted'
                 PROVE  active'[nameOf[d]] = d
      BY DEF WaitingIsEntered
    <2>1. d # e /\ nameOf[d] # nameOf[e]
      BY DEF Alone, Waiting, CrashTypeOK
    <2>2. d \in Waiting /\ Alone(d)
      BY <2>1, <1>4 DEF Waiting, CrashTypeOK
    <2> QED BY <2>1, <2>2 DEF WaitingIsEntered, CrashTypeOK, Waiting
  <1> QED BY <1>1, <1>2, <1>3, <1>5, <1>6, <1>7, <1>8

\* Who has the name of a call that is alone is that call.
LEMMA TerminateKeeps ==
    ASSUME CrashInv, NEW e \in Executions, TerminateExecution(e)
    PROVE  CrashInv'
  <1> USE DEF CrashInv, TerminateExecution
  <1>1. CrashTypeOK'
    BY DEF CrashTypeOK
  <1>2. EntryIsOwn' /\ OneKeepsTheThread' /\ LateIsLast'
    BY DEF EntryIsOwn, OneKeepsTheThread, LateIsLast
  <1>3. WatchersWereEntered'
    BY DEF WatchersWereEntered, CrashTypeOK
  <1>4. \A d \in Executions : Alone(d)' => Alone(d)
    BY DEF Alone
  <1>5. TerminatedIsHalted'
    <2> SUFFICES ASSUME NEW d \in Executions, Alone(d)',
                        monitor'[d] \in {"signalling", "removing"}
                 PROVE  d \in halted'
      BY DEF TerminatedIsHalted
    <2>1. CASE d # e
      BY <2>1, <1>4 DEF TerminatedIsHalted, CrashTypeOK
    <2>2. CASE d = e
      <3> DEFINE f == active[nameOf[e]]
      <3>1. f # NoExecution /\ f \in halted' /\ f \in Executions
        BY <2>2 DEF CrashTypeOK
      <3>2. nameOf[f] = nameOf[e] /\ exec[f] \in {"inside", "leaving"}
        BY <3>1 DEF EntryIsOwn, CrashTypeOK
      <3>3. f = e
        BY <3>1, <3>2, <2>2, <1>4 DEF Alone
      <3> QED BY <3>1, <3>3, <2>2
    <2> QED BY <2>1, <2>2
  <1>7. TableBounded'
    BY TableShrinks DEF Entered
  <1>8. WaitingIsEntered'
    BY <1>4 DEF WaitingIsEntered, Waiting
  <1> QED BY <1>1, <1>2, <1>3, <1>5, <1>7, <1>8

LEMMA MonitorKeeps ==
    ASSUME CrashInv, NEW e \in Executions, MonitorStep(e)
    PROVE  CrashInv'
  <1> USE DEF CrashInv
  <1>4. \A d \in Executions : Alone(d)' => Alone(d)
    BY DEF Alone, MonitorStep, SignalProcess, RemoveTerminated, MonitorEnds
  <1>1. CASE SignalProcess(e)
    <2>1. CrashTypeOK'
      BY <1>1 DEF CrashTypeOK, SignalProcess, Kill
    <2>2. EntryIsOwn' /\ OneKeepsTheThread' /\ LateIsLast' /\ WatchersWereEntered'
      BY <1>1 DEF EntryIsOwn, OneKeepsTheThread, LateIsLast, WatchersWereEntered,
                  CrashTypeOK, SignalProcess
    <2>3. TerminatedIsHalted' /\ WaitingIsEntered'
      BY <1>1, <1>4 DEF TerminatedIsHalted, WaitingIsEntered, Waiting, CrashTypeOK,
                        SignalProcess
    <2>4. TableBounded'
      BY <1>1, TableShrinks DEF Entered, SignalProcess
    <2> QED BY <2>1, <2>2, <2>3, <2>4
  <1>2. CASE MonitorEnds(e)
    <2>1. CrashTypeOK'
      BY <1>2 DEF CrashTypeOK, MonitorEnds
    <2>2. EntryIsOwn' /\ OneKeepsTheThread' /\ LateIsLast' /\ WatchersWereEntered'
      BY <1>2 DEF EntryIsOwn, OneKeepsTheThread, LateIsLast, WatchersWereEntered,
                  CrashTypeOK, MonitorEnds
    <2>3. TerminatedIsHalted' /\ WaitingIsEntered'
      BY <1>2, <1>4 DEF TerminatedIsHalted, WaitingIsEntered, Waiting, CrashTypeOK,
                        MonitorEnds
    <2>4. TableBounded'
      BY <1>2, TableShrinks DEF Entered, MonitorEnds
    <2> QED BY <2>1, <2>2, <2>3, <2>4
  <1>3. CASE RemoveTerminated(e)
    <2> USE <1>3 DEF RemoveTerminated, RemoveEntry
    <2>1. CrashTypeOK'
      BY DEF CrashTypeOK
    <2>2. OneKeepsTheThread' /\ LateIsLast' /\ WatchersWereEntered'
      BY DEF OneKeepsTheThread, LateIsLast, WatchersWereEntered, CrashTypeOK
    <2>3. EntryIsOwn'
      BY DEF EntryIsOwn, CrashTypeOK
    <2>4. TerminatedIsHalted'
      BY <1>4 DEF TerminatedIsHalted, CrashTypeOK
    <2>5. TableBounded'
      BY TableShrinks DEF Entered, CrashTypeOK
    <2>6. WaitingIsEntered'
      <3> SUFFICES ASSUME NEW d \in Waiting, Alone(d), d \notin halted
                   PROVE  active'[nameOf[d]] = d
        BY <1>4 DEF WaitingIsEntered, Waiting
      <3>1. exec[e] \in {"inside", "leaving", "ended"}
        BY DEF WatchersWereEntered
      <3>2. d # e
        BY DEF TerminatedIsHalted
      <3>3. nameOf[d] # nameOf[e]
        BY <3>1, <3>2 DEF Alone, Waiting
      <3> QED BY <3>3 DEF WaitingIsEntered, Waiting, CrashTypeOK
    <2> QED BY <2>1, <2>2, <2>3, <2>4, <2>5, <2>6
  <1> QED BY <1>1, <1>2, <1>3 DEF MonitorStep

\* Whatever is taken from the table has been told to stop.
LEMMA HandlerKeeps ==
    ASSUME CrashInv, EmergencyHandler
    PROVE  CrashInv'
  <1> USE DEF CrashInv, EmergencyHandler
  <1>1. CrashTypeOK'
    BY DEF CrashTypeOK, Entered
  <1>2. EntryIsOwn' /\ OneKeepsTheThread' /\ WatchersWereEntered'
    BY DEF EntryIsOwn, OneKeepsTheThread, WatchersWereEntered
  <1>3. LateIsLast'
    BY DEF LateIsLast
  <1>4. \A d \in Executions : Alone(d)' <=> Alone(d)
    BY DEF Alone
  <1>5. TerminatedIsHalted'
    BY <1>4 DEF TerminatedIsHalted
  <1>6. TableBounded'
    BY TableShrinks DEF Entered
  <1>7. WaitingIsEntered'
    <2> SUFFICES ASSUME NEW d \in Waiting, Alone(d), d \notin halted
                 PROVE  d \in halted'
      BY <1>4 DEF WaitingIsEntered, Waiting
    <2>1. active[nameOf[d]] = d /\ nameOf[d] \in Names /\ d # NoExecution
      BY DEF WaitingIsEntered, Waiting, CrashTypeOK
    <2>2. nameOf[d] \in Entered
      BY <2>1 DEF Entered
    <2> QED BY <2>1, <2>2
  <1> QED BY <1>1, <1>2, <1>3, <1>5, <1>6, <1>7

LEMMA SignalKeeps ==
    ASSUME CrashInv, Signalled \/ UNCHANGED crashVars
    PROVE  CrashInv'
  <1> USE DEF CrashInv, Signalled, crashVars
  <1>1. CrashTypeOK'
    BY DEF CrashTypeOK
  <1>2. EntryIsOwn' /\ OneKeepsTheThread' /\ WatchersWereEntered' /\ LateIsLast'
    BY DEF EntryIsOwn, OneKeepsTheThread, WatchersWereEntered, LateIsLast
  <1>3. TerminatedIsHalted' /\ WaitingIsEntered'
    BY DEF TerminatedIsHalted, WaitingIsEntered, Waiting, Alone
  <1>4. TableBounded'
    BY TableShrinks DEF Entered
  <1> QED BY <1>1, <1>2, <1>3, <1>4

LEMMA CrashInvIsInductive == CrashInit /\ [][CrashNext]_crashVars => []CrashInv
  <1>1. CrashInv /\ [CrashNext]_crashVars => CrashInv'
    BY AdmitKeeps, NoRoomKeeps, EnterContextKeeps, ReturnKeeps, LeaveKeeps, TerminateKeeps,
       MonitorKeeps, HandlerKeeps, SignalKeeps DEF CrashNext, CallStep
  <1> QED BY <1>1, CrashInitially, PTL

\* Those that wait, alone and not told to stop, have one name each in the table.
LEMMA CrashInvBounds == CrashInv => ConcurrencyBounded
  <1> SUFFICES ASSUME CrashInv PROVE ConcurrencyBounded
    OBVIOUS
  <1> DEFINE S == {e \in Waiting : e \notin halted /\ Alone(e)}
             name == [e \in S |-> nameOf[e]]
  <1>1. \A e \in S : nameOf[e] \in Entered /\ active[nameOf[e]] = e
    BY DEF CrashInv, WaitingIsEntered, Waiting, Entered, CrashTypeOK
  <1>2. name \in Injection(S, Entered)
    BY <1>1 DEF Injection, IsInjective
  <1>3. Cardinality(S) <= Cardinality(Entered)
    BY <1>2, FS_Injection DEF CrashInv, TableBounded
  <1>4. Cardinality(S) \in Nat /\ Cardinality(Entered) \in Nat
    BY <1>2, FS_Injection, FS_CardinalityType DEF CrashInv, TableBounded
  <1> QED BY <1>3, <1>4 DEF ConcurrencyBounded, CrashInv, TableBounded

LEMMA CrashInvLatecomer == CrashInv => OneIsLate
  <1> SUFFICES ASSUME CrashInv PROVE OneIsLate
    OBVIOUS
  <1>1. CASE late = {}
    BY <1>1, FS_EmptySet DEF OneIsLate
  <1>2. CASE late # {}
    <2>1. PICK e : late = {e}
      BY <1>2 DEF CrashInv, LateIsLast
    <2>2. Cardinality({e}) = 1
      BY FS_Singleton
    <2> QED BY <2>1, <2>2 DEF OneIsLate
  <1> QED BY <1>1, <1>2

LEMMA CrashInvLeavesNothing == CrashInv => NothingIsLeft
  BY DEF CrashInv, NothingIsLeft, Entered, EntryIsOwn, CrashTypeOK

\* What waits is in the table or was told to stop, unless its name is ambiguous; no more
\* wait than there are places; one call at most enters during an emergency; and the table
\* empties (execute_with_crash_prevention, safe_execution_context, _terminate_execution).
THEOREM ExecutionsAreSafe == CrashSpec => []CrashSafe
  <1>1. CrashInv => CrashSafe
    BY CrashInvBounds, CrashInvLatecomer, CrashInvLeavesNothing DEF CrashInv, CrashSafe
  <1> QED BY <1>1, CrashInvIsInductive, PTL DEF CrashSpec

HIDE CrashAssumption

-------------------------------------------------------------------------------
(* The counters of the rate limiter.                                           *)

USE RateLimitAssumption DEF RateLimitAssumption

\* What a counter let through lately it has counted, and it lives until all of that is
\* longer ago than the window.
Counted(k) ==
    /\ \A t \in 1 .. Window : passes[k][t] <= count[k] /\ passes[k][t] <= Limit[k]
    /\ \A t \in 1 .. Window : t <= Window - ttl[k] => passes[k][t] = 0

RateInv == RateTypeOK /\ \A k \in Keys : Counted(k)

LEMMA RateInitially == RateInit => RateInv
  <1> SUFFICES ASSUME RateInit PROVE RateInv
    OBVIOUS
  <1>1. \A k \in Keys : count[k] = 0 /\ ttl[k] = 0 /\ Limit[k] \in Nat \ {0}
    BY DEF RateInit
  <1>2. RateTypeOK
    BY <1>1 DEF RateInit, RateTypeOK
  <1>3. \A k \in Keys : Counted(k)
    BY <1>1 DEF RateInit, Counted
  <1> QED BY <1>2, <1>3 DEF RateInv

LEMMA RateTickKeeps == ASSUME RateInv, RateTick PROVE RateInv'
  <1>1. /\ ttl' = [k \in Keys |-> IF ttl[k] = 0 THEN 0 ELSE ttl[k] - 1]
        /\ count' = [k \in Keys |-> IF ttl[k] <= 1 THEN 0 ELSE count[k]]
        /\ passes' = [k \in Keys |-> [t \in 1 .. Window |-> IF t = 1 THEN 0 ELSE passes[k][t - 1]]]
        /\ path' = path
    BY DEF RateTick, Shifted
  <1>2. /\ count \in [Keys -> Nat] /\ ttl \in [Keys -> 0 .. Window]
        /\ passes \in [Keys -> [1 .. Window -> Nat]]
        /\ \A k \in Keys : count[k] <= Limit[k] + 1 /\ (ttl[k] = 0 <=> count[k] = 0)
    BY DEF RateInv, RateTypeOK
  <1>3. ASSUME NEW k \in Keys
        PROVE  /\ count'[k] \in Nat /\ count'[k] <= Limit[k] + 1 /\ ttl'[k] \in 0 .. Window
               /\ ttl'[k] = 0 <=> count'[k] = 0
               /\ passes'[k] \in [1 .. Window -> Nat]
               /\ Counted(k)'
    <2> DEFINE c == count[k]
               l == ttl[k]
               old == passes[k]
               new == passes'[k]
    <2>1. /\ c \in Nat /\ l \in 0 .. Window /\ old \in [1 .. Window -> Nat] /\ Limit[k] \in Nat \ {0}
          /\ c <= Limit[k] + 1 /\ (l = 0 <=> c = 0)
      BY <1>2
    <2>2. /\ ttl'[k] = IF l = 0 THEN 0 ELSE l - 1
          /\ count'[k] = IF l <= 1 THEN 0 ELSE c
          /\ new = [t \in 1 .. Window |-> IF t = 1 THEN 0 ELSE old[t - 1]]
      BY <1>1
    <2>3. /\ \A t \in 1 .. Window : old[t] <= c /\ old[t] <= Limit[k]
          /\ \A t \in 1 .. Window : t <= Window - l => old[t] = 0
      BY DEF RateInv, Counted
    <2> HIDE DEF c, l, old, new
    <2>4. \A t \in 1 .. Window : new[t] \in Nat /\ new[t] <= c /\ new[t] <= Limit[k]
      BY <2>1, <2>2, <2>3
    <2>5. new \in [1 .. Window -> Nat]
      BY <2>2, <2>4
    <2>6. ASSUME NEW t \in 1 .. Window, t <= Window - ttl'[k] PROVE new[t] = 0
      <3>1. CASE t = 1
        BY <2>2, <3>1
      <3>2. CASE t # 1
        <4>1. t - 1 \in 1 .. Window /\ t - 1 <= Window - l /\ new[t] = old[t - 1]
          BY <2>1, <2>2, <2>6, <3>2
        <4> QED BY <4>1, <2>3
      <3> QED BY <3>1, <3>2
    <2>7. \A t \in 1 .. Window : new[t] <= count'[k]
      <3>1. CASE l <= 1
        <4>1. \A t \in 1 .. Window : t <= Window - ttl'[k]
          BY <2>1, <2>2, <3>1
        <4>2. \A t \in 1 .. Window : new[t] = 0
          BY <4>1, <2>6
        <4> QED BY <4>2, <2>2, <3>1
      <3>2. CASE ~(l <= 1)
        BY <2>2, <2>4, <3>2
      <3> QED BY <3>1, <3>2
    <2>8. count'[k] \in Nat /\ count'[k] <= Limit[k] + 1 /\ ttl'[k] \in 0 .. Window
            /\ (ttl'[k] = 0 <=> count'[k] = 0)
      BY <2>1, <2>2
    <2>9. Counted(k)'
      BY <2>4, <2>6, <2>7 DEF Counted, new
    <2> QED BY <2>5, <2>8, <2>9 DEF new
  <1>4. count' \in [Keys -> Nat] /\ ttl' \in [Keys -> 0 .. Window]
          /\ passes' \in [Keys -> [1 .. Window -> Nat]]
    BY <1>1, <1>3
  <1>5. RateTypeOK'
    BY <1>1, <1>3, <1>4 DEF RateInv, RateTypeOK
  <1> QED BY <1>3, <1>5 DEF RateInv

LEMMA DispatchKeeps ==
    ASSUME RateInv, NEW r \in Requests, NEW user \in {<<>>} \cup {<<u>> : u \in Users},
           NEW endpoint \in Endpoints, Dispatch(r, user, endpoint)
    PROVE  RateInv'
  <1>1. path' = [path EXCEPT ![r] = user \o <<endpoint, Service>>]
          /\ UNCHANGED <<count, ttl, passes>>
    BY DEF Dispatch
  <1>2. <<endpoint, Service>> \in Seq(Keys) /\ Len(<<endpoint, Service>>) = 2
    BY DEF Keys
  <1>3. user \in Seq(Keys) /\ Len(user) <= 1 /\ Len(user) \in Nat
    <2>1. CASE user = <<>>
      BY <2>1
    <2>2. CASE user # <<>>
      <3>1. PICK u \in Users : user = <<u>>
        BY <2>2
      <3>2. u \in Keys
        BY DEF Keys
      <3> QED BY <3>1, <3>2
    <2> QED BY <2>1, <2>2
  <1> DEFINE rest == <<endpoint, Service>>
             all == user \o rest
  <1>4. all \in Seq(Keys) /\ Len(all) <= 3
    <2> HIDE DEF rest
    <2> QED BY <1>2, <1>3 DEF rest
  <1> HIDE DEF all
  <1>5. path \in [Requests -> Seq(Keys)] /\ \A x \in Requests : Len(path[x]) <= 3
    BY DEF RateInv, RateTypeOK
  <1>6. path' \in [Requests -> Seq(Keys)] /\ \A x \in Requests : Len(path'[x]) <= 3
    <2>1. path' = [path EXCEPT ![r] = all]
      BY <1>1 DEF all
    <2> QED BY <2>1, <1>4, <1>5
  <1> QED BY <1>1, <1>6 DEF RateInv, RateTypeOK, Counted

LEMMA CheckRateLimitKeeps ==
    ASSUME RateInv, NEW r \in Requests, CheckRateLimit(r) PROVE RateInv'
  <1>0. /\ path \in [Requests -> Seq(Keys)] /\ \A x \in Requests : Len(path[x]) <= 3
        /\ count \in [Keys -> Nat] /\ ttl \in [Keys -> 0 .. Window]
        /\ passes \in [Keys -> [1 .. Window -> Nat]]
        /\ \A k \in Keys : count[k] <= Limit[k] + 1 /\ (ttl[k] = 0 <=> count[k] = 0)
    BY DEF RateInv, RateTypeOK
  <1>1. path[r] # <<>>
    BY DEF CheckRateLimit
  <1>2. Head(path[r]) \in Keys /\ Tail(path[r]) \in Seq(Keys) /\ Len(Tail(path[r])) <= 3
    <2> DEFINE p == path[r]
    <2>1. p \in Seq(Keys) /\ p # <<>> /\ Len(p) <= 3
      BY <1>0, <1>1
    <2> HIDE DEF p
    <2>2. Head(p) \in Keys /\ Tail(p) \in Seq(Keys) /\ Len(Tail(p)) <= 3
      BY <2>1
    <2> QED BY <2>2 DEF p
  <1> SUFFICES ASSUME NEW k \in Keys, Head(path[r]) = k PROVE RateInv'
    BY <1>2
  <1> DEFINE allowed == count[k] < Limit[k]
  <1>3. /\ count' = [count EXCEPT ![k] = IF allowed THEN @ + 1 ELSE Limit[k] + 1]
        /\ ttl' = [ttl EXCEPT ![k] = Window]
        /\ path' = [path EXCEPT ![r] = IF allowed THEN Tail(@) ELSE <<>>]
        /\ passes' = IF allowed THEN [passes EXCEPT ![k] = [t \in 1 .. Window |-> @[t] + 1]] ELSE passes
    BY DEF CheckRateLimit, Expire
  <1>4. path' \in [Requests -> Seq(Keys)] /\ \A x \in Requests : Len(path'[x]) <= 3
    <2> DEFINE left == IF allowed THEN Tail(path[r]) ELSE <<>>
    <2>1. left \in Seq(Keys) /\ Len(left) <= 3
      BY <1>2
    <2>2. path' = [path EXCEPT ![r] = left]
      BY <1>3
    <2> HIDE DEF left
    <2> QED BY <1>0, <2>1, <2>2
  <1>5. /\ Limit[k] \in Nat \ {0}
        /\ count[k] \in Nat /\ ttl'[k] = Window
        /\ count'[k] = IF allowed THEN count[k] + 1 ELSE Limit[k] + 1
        /\ passes'[k] = IF allowed THEN [t \in 1 .. Window |-> passes[k][t] + 1] ELSE passes[k]
        /\ passes[k] \in [1 .. Window -> Nat]
        /\ \A x \in Keys : x # k => ttl'[x] = ttl[x] /\ count'[x] = count[x] /\ passes'[x] = passes[x]
    BY <1>0, <1>3
  <1>6. /\ \A t \in 1 .. Window : passes[k][t] <= count[k] /\ passes[k][t] <= Limit[k]
    BY DEF RateInv, Counted
  <1>7. /\ count'[k] \in Nat \ {0} /\ count'[k] <= Limit[k] + 1 /\ passes'[k] \in [1 .. Window -> Nat]
        /\ \A t \in 1 .. Window : passes'[k][t] <= count'[k] /\ passes'[k][t] <= Limit[k]
        /\ \A t \in 1 .. Window : ~(t <= Window - ttl'[k])
    <2>1. CASE allowed
      BY <1>5, <1>6, <2>1
    <2>2. CASE ~allowed
      BY <1>5, <1>6, <2>2
    <2> QED BY <2>1, <2>2
  <1>8. \A x \in Keys : Counted(x)'
    <2>1. Counted(k)'
      BY <1>7 DEF Counted
    <2>2. \A x \in Keys : x # k => Counted(x)'
      BY <1>5 DEF RateInv, Counted
    <2> QED BY <2>1, <2>2
  <1>9. /\ count' \in [Keys -> Nat] /\ ttl' \in [Keys -> 0 .. Window]
        /\ passes' \in [Keys -> [1 .. Window -> Nat]]
    <2>1. count' \in [Keys -> Nat]
      <3> DEFINE new == IF allowed THEN count[k] + 1 ELSE Limit[k] + 1
      <3>1. new \in Nat
        BY <1>5
      <3>2. count' = [count EXCEPT ![k] = new]
        BY <1>3
      <3> HIDE DEF new
      <3> QED BY <1>0, <3>1, <3>2
    <2>2. ttl' \in [Keys -> 0 .. Window]
      BY <1>0, <1>3
    <2>3. passes' \in [Keys -> [1 .. Window -> Nat]]
      BY <1>0, <1>3, <1>5, <1>7
    <2> QED BY <2>1, <2>2, <2>3
  <1>10. \A x \in Keys : count'[x] <= Limit[x] + 1 /\ (ttl'[x] = 0 <=> count'[x] = 0)
    BY <1>0, <1>5, <1>7
  <1> QED BY <1>4, <1>8, <1>9, <1>10 DEF RateInv, RateTypeOK

LEMMA RateInvIsInductive ==
    /\ RateInit => RateInv
    /\ RateInv /\ [RateNext]_rateVars => RateInv'
  <1>1. ASSUME RateInv, NEW r \in Requests, CheckFails(r) PROVE RateInv'
    <2>1. path' = [path EXCEPT ![r] = <<>>] /\ UNCHANGED <<count, ttl, passes>>
      BY <1>1 DEF CheckFails
    <2>2. path' \in [Requests -> Seq(Keys)] /\ \A x \in Requests : Len(path'[x]) <= 3
      BY <1>1, <2>1 DEF RateInv, RateTypeOK
    <2> QED BY <1>1, <2>1, <2>2 DEF RateInv, RateTypeOK, Counted
  <1>2. ASSUME RateInv, UNCHANGED rateVars PROVE RateInv'
    BY <1>2 DEF rateVars, RateInv, RateTypeOK, Counted
  <1>3. ASSUME RateInv, RateNext PROVE RateInv'
    BY <1>1, <1>3, RateTickKeeps, DispatchKeeps, CheckRateLimitKeeps DEF RateNext
  <1> QED BY <1>2, <1>3, RateInitially

\* In no window does a counter let through more than its limit, however the requests
\* interleave between their checks and whatever of them fails.
THEOREM RateKeepsItsPromise == RateSpec => []RatePromise
  <1>1. RateInv => RatePromise
    <2>1. Window \in 1 .. Window
      OBVIOUS
    <2> QED BY <2>1 DEF RateInv, RatePromise, WithinWindow, Counted
  <1> QED BY <1>1, RateInvIsInductive, PTL DEF RateSpec

HIDE RateLimitAssumption DEF RateLimitAssumption
USE EntitlementAssumption DEF EntitlementAssumption
-------------------------------------------------------------------------------
(* The entitlements of a user.                                                 *)

AccessRecords == [at : Waits, kind : KindsOfAccess, tier : UserTiers, age : 0 .. Flight]

\* The requests, of tiers no higher than one, that will still count themselves after
\* reading the counter of a kind.
WillCount(v, k, t) == v.at = "increase" /\ v.kind = k /\ AccessLimit[v.tier][k] <= AccessLimit[t][k]
Increasing(k, t) == {r \in Calls : WillCount(access[r], k, t)}

\* The subscriptions that found room and are not in the list yet, and those of tiers no
\* higher than one.
MayList(v) == v.kind = "stream" /\ v.at \in {"count", "create", "increase", "list"}
MayListUpTo(v, t) == MayList(v) /\ MaxConnections[v.tier] <= MaxConnections[t]
Listing(t) == {r \in Calls : MayListUpTo(access[r], t)}

\* A tier the cache or an answer under way tells of was that of the user lately.
ToldLately ==
    /\ sinceTier[userTier] = 0
    /\ cacheAge < CacheTTL => sinceTier[cachedTier] <= cacheAge + Flight
    /\ \A r \in Calls : access[r].at = "arriving" => sinceTier[access[r].tier] <= access[r].age

\* What is counted and what those of no higher tier will still count is within the
\* limit of a tier, unless a higher one has been counted.
RoomToCount(k, t) ==
    AccessLimit[countedFor[k]][k] <= AccessLimit[t][k]
        => used[k] + Cardinality(Increasing(k, t)) < AccessLimit[t][k] + Cardinality(Calls)

RoomToList(t) ==
    MaxConnections[listedFor] <= MaxConnections[t]
        => Cardinality(listed) + Cardinality(Listing(t)) < MaxConnections[t] + Cardinality(Calls)

Spare ==
    /\ \A k \in KindsOfAccess, t \in UserTiers : RoomToCount(k, t)
    /\ \A t \in UserTiers : RoomToList(t)

AccessInv ==
    /\ AccessTypeOK
    /\ ToldLately
    /\ Spare
    /\ IsFiniteSet(listed)

LEMMA LimitsAreNumbers ==
    ASSUME NEW t \in UserTiers
    PROVE  /\ MaxConnections[t] \in Nat \ {0}
           /\ \A k \in KindsOfAccess : AccessLimit[t][k] \in Nat \ {0}
  OBVIOUS

\* Sets of requests are counted like any finite sets.
LEMMA CallsCount ==
    ASSUME NEW S, S \subseteq Calls, NEW r \in Calls
    PROVE  /\ Cardinality(S) \in Nat /\ Cardinality(Calls) \in Nat
           /\ Cardinality(S) <= Cardinality(Calls)
           /\ Cardinality(S \cup {r}) \in Nat
           /\ Cardinality(S \cup {r}) <= Cardinality(Calls)
           /\ r \in S => Cardinality(S \ {r}) = Cardinality(S) - 1 /\ S \cup {r} = S
           /\ r \notin S => S \ {r} = S /\ Cardinality(S) < Cardinality(Calls)
  <1>1. IsFiniteSet(S) /\ Cardinality(S) \in Nat /\ Cardinality(Calls) \in Nat
          /\ Cardinality(S) <= Cardinality(Calls)
    BY FS_Subset, FS_CardinalityType
  <1>2. S \cup {r} \subseteq Calls
    OBVIOUS
  <1>3. Cardinality(S \cup {r}) \in Nat /\ Cardinality(S \cup {r}) <= Cardinality(Calls)
    BY <1>2, FS_Subset, FS_CardinalityType
  <1>4. r \in S => Cardinality(S \ {r}) = Cardinality(S) - 1
    BY <1>1, FS_RemoveElement
  <1>5. ASSUME r \notin S PROVE Cardinality(S) < Cardinality(Calls)
    <2>1. Cardinality(S \cup {r}) = Cardinality(S) + 1
      BY <1>1, <1>5, FS_AddElement
    <2> QED BY <1>1, <1>3, <2>1
  <1> QED BY <1>1, <1>3, <1>4, <1>5

LEMMA NoCallsCount ==
    ASSUME NEW S, S \subseteq Calls
    PROVE  Cardinality(S) \in Nat /\ Cardinality(Calls) \in Nat /\ Cardinality(S) <= Cardinality(Calls)
  BY FS_Subset, FS_CardinalityType

\* What one request does moves it and no other between the sets.
LEMMA MoveCounting ==
    ASSUME AccessTypeOK, NEW r \in Calls, NEW v \in AccessRecords, access' = [access EXCEPT ![r] = v],
           NEW k \in KindsOfAccess, NEW t \in UserTiers
    PROVE  Increasing(k, t)' =
             IF WillCount(v, k, t) THEN Increasing(k, t) \cup {r} ELSE Increasing(k, t) \ {r}
  <1>1. /\ access'[r] = v
        /\ \A x \in Calls : x # r => access'[x] = access[x]
    BY DEF AccessTypeOK
  <1>2. Increasing(k, t)' = {x \in Calls : WillCount(access'[x], k, t)}
    BY DEF Increasing, WillCount
  <1>3. CASE WillCount(v, k, t)
    BY <1>1, <1>2, <1>3 DEF Increasing
  <1>4. CASE ~WillCount(v, k, t)
    BY <1>1, <1>2, <1>4 DEF Increasing
  <1> QED BY <1>3, <1>4

LEMMA MoveListing ==
    ASSUME AccessTypeOK, NEW r \in Calls, NEW v \in AccessRecords, access' = [access EXCEPT ![r] = v],
           NEW t \in UserTiers
    PROVE  Listing(t)' =
             IF MayListUpTo(v, t) THEN Listing(t) \cup {r} ELSE Listing(t) \ {r}
  <1>1. /\ access'[r] = v
        /\ \A x \in Calls : x # r => access'[x] = access[x]
    BY DEF AccessTypeOK
  <1>2. Listing(t)' = {x \in Calls : MayListUpTo(access'[x], t)}
    BY DEF Listing, MayListUpTo, MayList
  <1>3. CASE MayListUpTo(v, t)
    BY <1>1, <1>2, <1>3 DEF Listing
  <1>4. CASE ~MayListUpTo(v, t)
    BY <1>1, <1>2, <1>4 DEF Listing
  <1> QED BY <1>3, <1>4

LEMMA MoveType ==
    ASSUME AccessTypeOK, NEW r \in Calls, NEW v \in AccessRecords, access' = [access EXCEPT ![r] = v],
           v.at \in {"connections", "list"} => v.kind = "stream"
    PROVE  /\ access' \in [Calls -> AccessRecords]
           /\ \A x \in Calls : access'[x].at \in {"connections", "list"} => access'[x].kind = "stream"
           /\ access'[r] = v
           /\ \A x \in Calls : x # r => access'[x] = access[x]
  <1>1. /\ access \in [Calls -> AccessRecords]
        /\ \A x \in Calls : access[x].at \in {"connections", "list"} => access[x].kind = "stream"
    BY DEF AccessTypeOK, AccessRecords
  <1> QED BY <1>1

\* A set of requests that one of them leaves or that it does not enter does not grow.
LEMMA LeavesOrStays ==
    ASSUME NEW I, I \subseteq Calls, NEW r \in Calls, NEW J, J = I \/ J = I \ {r}
    PROVE  Cardinality(J) <= Cardinality(I) /\ Cardinality(J) \in Nat /\ Cardinality(I) \in Nat
  <1>1. CASE J = I
    BY <1>1, NoCallsCount
  <1>2. CASE J = I \ {r} /\ r \in I
    <2>1. Cardinality(J) = Cardinality(I) - 1 /\ Cardinality(I) \in Nat
      BY <1>2, CallsCount
    <2>2. J \subseteq Calls
      BY <1>2
    <2> QED BY <2>1, <2>2, NoCallsCount
  <1>3. CASE J = I \ {r} /\ r \notin I
    BY <1>1, <1>3
  <1> QED BY <1>1, <1>2, <1>3

\* A request that only reads Redis goes on to write where it saw room, or not at all.
LEMMA ReadKeepsRoom ==
    ASSUME AccessInv, NEW r \in Calls, NEW v \in AccessRecords, access' = [access EXCEPT ![r] = v],
           UNCHANGED redisVars,
           v.at = "increase" => BelowLimit(v.kind, v.tier),
           MayList(v) => \/ MayList(access[r]) /\ v.tier = access[r].tier
                         \/ RoomForClient(v.tier)
    PROVE  Spare'
  <1>0. AccessTypeOK /\ Spare /\ IsFiniteSet(listed)
    BY DEF AccessInv
  <1>1. used' = used /\ listed' = listed /\ countedFor' = countedFor /\ listedFor' = listedFor
    BY DEF redisVars
  <1>2. v.tier \in UserTiers /\ v.kind \in KindsOfAccess
    BY DEF AccessRecords
  <1>3. ASSUME NEW k \in KindsOfAccess, NEW t \in UserTiers PROVE RoomToCount(k, t)'
    <2>0. Increasing(k, t)' =
             IF WillCount(v, k, t) THEN Increasing(k, t) \cup {r} ELSE Increasing(k, t) \ {r}
      BY <1>0, MoveCounting DEF WillCount
    <2> DEFINE I == Increasing(k, t)
               J == Increasing(k, t)'
               u == used[k]
               n == Cardinality(I)
               m == Cardinality(J)
               c == Cardinality(Calls)
               lim == AccessLimit[t][k]
    <2>1. J = IF WillCount(v, k, t) THEN I \cup {r} ELSE I \ {r}
      BY <2>0
    <2>2. I \subseteq Calls /\ J \subseteq Calls
      BY DEF Increasing
    <2>3. n \in Nat /\ m \in Nat /\ c \in Nat /\ m <= c
      BY <2>2, NoCallsCount
    <2>4. u \in Nat /\ lim \in Nat \ {0}
      BY <1>0, LimitsAreNumbers DEF AccessTypeOK
    <2>5. SUFFICES ASSUME AccessLimit[countedFor[k]][k] <= AccessLimit[t][k]
                   PROVE  u + m < lim + c
      BY <1>1 DEF RoomToCount
    <2>6. u + n < lim + c
      BY <1>0, <2>5 DEF Spare, RoomToCount
    <2>7. CASE WillCount(v, k, t)
      <3>1. u < AccessLimit[v.tier][k] /\ AccessLimit[v.tier][k] <= AccessLimit[t][k]
        BY <2>7 DEF BelowLimit, WillCount
      <3>2. AccessLimit[v.tier][k] \in Nat
        BY <1>2, LimitsAreNumbers
      <3>3. u < lim
        <4> HIDE DEF u
        <4> QED BY <3>1, <3>2, <2>4
      <3> HIDE DEF u, m, c, n, lim
      <3> QED BY <2>3, <2>4, <3>3
    <2>8. CASE ~WillCount(v, k, t)
      <3>1. J = I \ {r}
        BY <2>1, <2>8
      <3>2. m <= n
        BY <3>1, <2>2, LeavesOrStays
      <3> HIDE DEF u, m, c, n, lim
      <3> QED BY <2>3, <2>4, <2>6, <3>2
    <2> QED BY <2>7, <2>8
  <1>4. ASSUME NEW t \in UserTiers PROVE RoomToList(t)'
    <2> DEFINE I == Listing(t)
               J == Listing(t)'
               l == Cardinality(listed)
               n == Cardinality(I)
               m == Cardinality(J)
               c == Cardinality(Calls)
               lim == MaxConnections[t]
    <2>1. J = IF MayListUpTo(v, t) THEN I \cup {r} ELSE I \ {r}
      BY <1>0, MoveListing
    <2>2. I \subseteq Calls /\ J \subseteq Calls
      BY DEF Listing
    <2>3. n \in Nat /\ m \in Nat /\ c \in Nat /\ m <= c
      BY <2>2, NoCallsCount
    <2>4. l \in Nat /\ lim \in Nat \ {0}
      BY <1>0, FS_CardinalityType, LimitsAreNumbers
    <2>5. SUFFICES ASSUME MaxConnections[listedFor] <= MaxConnections[t]
                   PROVE  l + m < lim + c
      BY <1>1 DEF RoomToList
    <2>6. l + n < lim + c
      BY <1>0, <2>5 DEF Spare, RoomToList
    <2>7. CASE MayListUpTo(v, t) /\ r \notin I
      <3>1. RoomForClient(v.tier) /\ MaxConnections[v.tier] <= MaxConnections[t]
        BY <2>7 DEF Listing, MayListUpTo
      <3>2. l < MaxConnections[v.tier] /\ MaxConnections[v.tier] \in Nat
        BY <1>2, <3>1, LimitsAreNumbers DEF RoomForClient
      <3>3. l < lim
        <4> HIDE DEF l
        <4> QED BY <2>4, <3>1, <3>2
      <3> HIDE DEF l, m, c, n, lim
      <3> QED BY <2>3, <2>4, <3>3
    <2>8. CASE ~(MayListUpTo(v, t) /\ r \notin I)
      <3>1. J = I \/ J = I \ {r}
        BY <2>1, <2>8
      <3>2. m <= n
        BY <3>1, <2>2, LeavesOrStays
      <3> HIDE DEF l, m, c, n, lim
      <3> QED BY <2>3, <2>4, <2>6, <3>2
    <2> QED BY <2>7, <2>8
  <1> QED BY <1>3, <1>4 DEF Spare

\* Where a request goes to from where it is.
Gone(r, stage) ==
    IF stage = "idle" THEN IdleRequest ELSE [access[r] EXCEPT !.at = stage, !.age = 0]

LEMMA GoesToMoves ==
    ASSUME AccessTypeOK, NEW r \in Calls, NEW stage \in Waits, GoesTo(r, stage),
           stage \in {"connections", "list"} => access[r].kind = "stream"
    PROVE  /\ Gone(r, stage) \in AccessRecords /\ access' = [access EXCEPT ![r] = Gone(r, stage)]
           /\ Gone(r, stage).at = stage
           /\ stage # "idle" => /\ Gone(r, stage).kind = access[r].kind
                                /\ Gone(r, stage).tier = access[r].tier
           /\ stage \in {"connections", "list"} => Gone(r, stage).kind = "stream"
  <1>1. access[r] \in AccessRecords
    BY DEF AccessTypeOK, AccessRecords
  <1>2. access' = [access EXCEPT ![r] = Gone(r, stage)]
    BY DEF GoesTo, Gone
  <1>3. IdleRequest \in AccessRecords /\ IdleRequest.at = "idle"
    BY DEF IdleRequest, AccessRecords, Waits, KindsOfAccess
  <1>4. CASE stage = "idle"
    BY <1>2, <1>3, <1>4 DEF Gone
  <1>5. CASE stage # "idle"
    <2>1. Gone(r, stage) = [access[r] EXCEPT !.at = stage, !.age = 0]
      BY <1>5 DEF Gone
    <2>2. Gone(r, stage) \in AccessRecords /\ Gone(r, stage).at = stage
            /\ Gone(r, stage).kind = access[r].kind /\ Gone(r, stage).tier = access[r].tier
      <3> DEFINE a == access[r]
                 g == [a EXCEPT !.at = stage, !.age = 0]
      <3>1. a \in AccessRecords /\ 0 \in 0 .. Flight
        BY <1>1
      <3> HIDE DEF a
      <3>2. g \in AccessRecords /\ g.at = stage /\ g.kind = a.kind /\ g.tier = a.tier
        BY <3>1 DEF AccessRecords
      <3> QED BY <2>1, <3>2 DEF a
    <2> QED BY <1>2, <1>5, <2>2
  <1> QED BY <1>4, <1>5

\* Nothing is told by the step of a request, unless an answer was told to it or the cache.
LEMMA MoveKeepsTold ==
    ASSUME AccessTypeOK, ToldLately, NEW r \in Calls, NEW v \in AccessRecords,
           access' = [access EXCEPT ![r] = v], UNCHANGED <<userTier, sinceTier>>,
           v.at = "arriving" => sinceTier[v.tier] <= v.age,
           cacheAge' < CacheTTL => sinceTier[cachedTier'] <= cacheAge' + Flight
    PROVE  ToldLately'
  <1>1. /\ access'[r] = v
        /\ \A x \in Calls : x # r => access'[x] = access[x]
    BY DEF AccessTypeOK
  <1>2. \A x \in Calls : access'[x].at = "arriving" => sinceTier'[access'[x].tier] <= access'[x].age
    BY <1>1 DEF ToldLately
  <1> QED BY <1>2 DEF ToldLately

\* The state of who the user is and of Redis, when it stays.
StaysPut == UNCHANGED <<userTier, cachedTier, cacheAge, sinceTier, used, expiry, listed, countedFor, listedFor>>

\* A request that asks who the user is or reads Redis, and does not write there.
LEMMA ReadKeeps ==
    ASSUME AccessInv, NEW r \in Calls, NEW v \in AccessRecords, access' = [access EXCEPT ![r] = v],
           v.at \in {"connections", "list"} => v.kind = "stream",
           StaysPut,
           v.at = "arriving" => sinceTier[v.tier] <= v.age,
           v.at = "increase" => BelowLimit(v.kind, v.tier),
           MayList(v) => \/ MayList(access[r]) /\ v.tier = access[r].tier
                         \/ RoomForClient(v.tier)
    PROVE  AccessInv'
  <1>0. AccessTypeOK /\ ToldLately
    BY DEF AccessInv
  <1>1. Spare'
    BY ReadKeepsRoom DEF StaysPut, redisVars
  <1>2. cacheAge' < CacheTTL => sinceTier[cachedTier'] <= cacheAge' + Flight
    BY <1>0 DEF ToldLately, StaysPut
  <1>3. ToldLately'
    BY <1>0, <1>2, MoveKeepsTold DEF StaysPut
  <1>4. /\ access' \in [Calls -> AccessRecords]
        /\ \A x \in Calls : access'[x].at \in {"connections", "list"} => access'[x].kind = "stream"
    BY <1>0, MoveType
  <1>5. AccessTypeOK'
    BY <1>0, <1>4 DEF AccessTypeOK, AccessRecords, StaysPut
  <1>6. IsFiniteSet(listed')
    BY DEF AccessInv, StaysPut
  <1> QED BY <1>1, <1>3, <1>5, <1>6 DEF AccessInv

\* The same of a request that goes to another place.
LEMMA GoneKeeps ==
    ASSUME AccessInv, NEW r \in Calls, NEW stage \in Waits, GoesTo(r, stage),
           stage \in {"connections", "list"} => access[r].kind = "stream",
           stage # "arriving", StaysPut,
           stage = "increase" => BelowLimit(access[r].kind, access[r].tier),
           stage \in {"count", "create", "increase", "list"} =>
               access[r].kind # "stream" \/ MayList(access[r]) \/ RoomForClient(access[r].tier)
    PROVE  AccessInv'
  <1>0. AccessTypeOK
    BY DEF AccessInv
  <1> DEFINE v == Gone(r, stage)
  <1>1. /\ v \in AccessRecords /\ access' = [access EXCEPT ![r] = v] /\ v.at = stage
        /\ stage # "idle" => v.kind = access[r].kind /\ v.tier = access[r].tier
        /\ stage \in {"connections", "list"} => v.kind = "stream"
    BY <1>0, GoesToMoves
  <1> HIDE DEF v
  <1>2. v.at = "increase" => BelowLimit(v.kind, v.tier)
    BY <1>1
  <1>3. MayList(v) => \/ MayList(access[r]) /\ v.tier = access[r].tier
                      \/ RoomForClient(v.tier)
    BY <1>1 DEF MayList
  <1> QED BY <1>1, <1>2, <1>3, ReadKeeps

\* A request whose tier is known has not read Redis yet.
LEMMA ToldIs ==
    ASSUME NEW kind \in KindsOfAccess, NEW t \in UserTiers
    PROVE  /\ Told(kind, t) \in AccessRecords
           /\ Told(kind, t).at \in {"connections", "count", "idle"}
           /\ Told(kind, t).at \in {"connections", "list"} => Told(kind, t).kind = "stream"
           /\ Told(kind, t).at \in {"connections", "count"} => Told(kind, t).tier = t
           /\ ~MayList(Told(kind, t))
  <1> DEFINE stage == Next1(kind, t)
             g == [IdleRequest EXCEPT !.at = stage, !.kind = kind, !.tier = t]
  <1>1. /\ stage \in {"connections", "count", "idle"}
        /\ stage = "connections" => kind = "stream"
        /\ stage = "count" => kind # "stream"
    BY DEF Next1
  <1>2. IdleRequest \in AccessRecords /\ IdleRequest.at = "idle"
    BY DEF IdleRequest, AccessRecords, Waits, KindsOfAccess
  <1>3. Told(kind, t) = IF stage = "idle" THEN IdleRequest ELSE g
    BY DEF Told
  <1> HIDE DEF stage
  <1>4. g \in AccessRecords /\ g.at = stage /\ g.kind = kind /\ g.tier = t
    <2>1. stage \in Waits
      BY <1>1 DEF Waits
    <2> QED BY <1>2, <2>1 DEF AccessRecords
  <1> HIDE DEF g
  <1>5. CASE stage = "idle"
    BY <1>2, <1>3, <1>5 DEF MayList
  <1>6. CASE stage # "idle"
    BY <1>1, <1>3, <1>4, <1>6 DEF MayList
  <1> QED BY <1>5, <1>6

LEMMA CheckAccessKeeps ==
    ASSUME AccessInv, NEW r \in Calls, NEW kind \in KindsOfAccess, CheckAccess(r, kind)
    PROVE  AccessInv'
  <1> DEFINE w == [IdleRequest EXCEPT !.at = "fetch", !.kind = kind]
             v == IF cacheAge < CacheTTL THEN Told(kind, cachedTier) ELSE w
  <1>1. access' = [access EXCEPT ![r] = v] /\ StaysPut
    BY DEF CheckAccess, StaysPut, tierVars, redisVars
  <1>2. cachedTier \in UserTiers
    BY DEF AccessInv, AccessTypeOK
  <1>3. w \in AccessRecords /\ w.at = "fetch"
    <2>1. IdleRequest \in AccessRecords
      <3>1. 0 \in 0 .. Flight
        OBVIOUS
      <3> QED BY <3>1 DEF IdleRequest, AccessRecords, Waits, KindsOfAccess
    <2>2. "fetch" \in Waits
      BY DEF Waits
    <2> QED BY <2>1, <2>2 DEF AccessRecords
  <1> HIDE DEF w
  <1>4. /\ v \in AccessRecords
        /\ v.at \in {"connections", "list"} => v.kind = "stream"
        /\ v.at \notin {"arriving", "increase"} /\ ~MayList(v)
    BY <1>2, <1>3, ToldIs DEF MayList
  <1> HIDE DEF v
  <1> QED BY <1>1, <1>4, ReadKeeps

LEMMA MarketplaceAnswersKeeps ==
    ASSUME AccessInv, NEW r \in Calls, MarketplaceAnswers(r) PROVE AccessInv'
  <1>0. AccessTypeOK /\ ToldLately /\ access[r] \in AccessRecords /\ userTier \in UserTiers
    BY DEF AccessInv, AccessTypeOK, AccessRecords
  <1> DEFINE v == [access[r] EXCEPT !.at = "arriving", !.tier = userTier]
  <1>1. access' = [access EXCEPT ![r] = v] /\ StaysPut
    <2>1. access' = [access EXCEPT ![r].at = "arriving", ![r].tier = userTier]
      BY DEF MarketplaceAnswers
    <2>2. access' = [access EXCEPT ![r] = v]
      BY <1>0, <2>1 DEF AccessTypeOK
    <2> QED BY <2>2 DEF MarketplaceAnswers, StaysPut, tierVars, redisVars
  <1>2. v \in AccessRecords /\ v.at = "arriving" /\ v.tier = userTier /\ v.age \in 0 .. Flight
    BY <1>0 DEF AccessRecords, Waits
  <1> HIDE DEF v
  <1>3. ~MayList(v) /\ v.at \notin {"increase", "connections", "list"}
    BY <1>2 DEF MayList
  <1>4. sinceTier[v.tier] <= v.age
    BY <1>0, <1>2 DEF ToldLately
  <1> QED BY <1>1, <1>2, <1>3, <1>4, ReadKeeps

LEMMA AnswerArrivesKeeps ==
    ASSUME AccessInv, NEW r \in Calls, AnswerArrives(r) PROVE AccessInv'
  <1>0. AccessTypeOK /\ ToldLately /\ access[r] \in AccessRecords
    BY DEF AccessInv, AccessTypeOK, AccessRecords
  <1>1. access[r].kind \in KindsOfAccess /\ access[r].tier \in UserTiers
    BY <1>0 DEF AccessRecords
  <1> DEFINE v == Told(access[r].kind, access[r].tier)
  <1>2. /\ access' = [access EXCEPT ![r] = v] /\ cachedTier' = access[r].tier /\ cacheAge' = 0
        /\ UNCHANGED <<userTier, sinceTier, redisVars>>
    BY DEF AnswerArrives
  <1>3. /\ v \in AccessRecords
        /\ v.at \in {"connections", "list"} => v.kind = "stream"
        /\ v.at \notin {"arriving", "increase"} /\ ~MayList(v)
    BY <1>1, ToldIs
  <1> HIDE DEF v
  <1>4. Spare'
    BY <1>2, <1>3, ReadKeepsRoom
  <1>5. ToldLately'
    <2>1. sinceTier[access[r].tier] <= access[r].age
      BY <1>0 DEF ToldLately, AnswerArrives
    <2>2. access[r].age <= Flight /\ access[r].age \in Nat /\ Flight \in Nat
            /\ sinceTier[access[r].tier] \in Nat
      BY <1>0, <1>1 DEF AccessRecords, AccessTypeOK
    <2>3. cacheAge' < CacheTTL => sinceTier[cachedTier'] <= cacheAge' + Flight
      BY <1>2, <2>1, <2>2
    <2> QED BY <1>0, <1>2, <1>3, <2>3, MoveKeepsTold
  <1>6. /\ access' \in [Calls -> AccessRecords]
        /\ \A x \in Calls : access'[x].at \in {"connections", "list"} => access'[x].kind = "stream"
    BY <1>0, <1>2, <1>3, MoveType
  <1>7. AccessTypeOK'
    <2>1. cachedTier' \in UserTiers /\ cacheAge' \in 0 .. CacheTTL
      BY <1>1, <1>2
    <2> QED BY <1>0, <1>2, <1>6, <2>1 DEF AccessTypeOK, AccessRecords, redisVars
  <1>8. IsFiniteSet(listed')
    BY <1>2 DEF AccessInv, redisVars
  <1> QED BY <1>4, <1>5, <1>7, <1>8 DEF AccessInv

LEMMA WriteCounterKeeps ==
    ASSUME AccessInv, NEW r \in Calls, WriteCounter(r) PROVE AccessInv'
  <1>0. /\ AccessTypeOK /\ ToldLately /\ access[r] \in AccessRecords
        /\ Spare /\ IsFiniteSet(listed)
    BY DEF AccessInv, AccessTypeOK, AccessRecords
  <1> DEFINE k == access[r].kind
             rt == access[r].tier
             stage == AfterCounter(k)
             v == Gone(r, stage)
             highest == IF AccessLimit[countedFor[k]][k] < AccessLimit[rt][k] THEN rt ELSE countedFor[k]
  <1>1. /\ access[r].at \in {"create", "increase"} /\ GoesTo(r, stage)
        /\ UNCHANGED <<userTier, cachedTier, cacheAge, sinceTier, listed, listedFor>>
        /\ access[r].at = "create" => /\ used' = [used EXCEPT ![k] = 1]
                                      /\ expiry' = [expiry EXCEPT ![k] = RateWindow]
                                      /\ countedFor' = [countedFor EXCEPT ![k] = rt]
        /\ access[r].at = "increase" => /\ used' = [used EXCEPT ![k] = @ + 1]
                                        /\ expiry' = [expiry EXCEPT ![k] = IF @ = 0 THEN NoExpiry ELSE @]
                                        /\ countedFor' = [countedFor EXCEPT ![k] = highest]
    BY DEF WriteCounter, tierVars
  <1>2. k \in KindsOfAccess /\ stage \in Waits /\ stage \in {"list", "idle"} /\ (stage = "list" => k = "stream")
    BY <1>0 DEF AccessRecords, AfterCounter, Waits
  <1>3. /\ v \in AccessRecords /\ access' = [access EXCEPT ![r] = v] /\ v.at = stage
        /\ stage # "idle" => v.tier = access[r].tier
        /\ stage \in {"connections", "list"} => v.kind = "stream"
    <2> HIDE DEF stage
    <2> QED BY <1>0, <1>1, <1>2, GoesToMoves
  <1> HIDE DEF stage, v
  <1>4. /\ v.at \notin {"increase", "arriving"}
        /\ MayList(v) => MayList(access[r]) /\ v.tier = access[r].tier
    BY <1>1, <1>2, <1>3 DEF MayList, AfterCounter, stage
  <1>5. /\ access' \in [Calls -> AccessRecords]
        /\ \A x \in Calls : access'[x].at \in {"connections", "list"} => access'[x].kind = "stream"
    BY <1>0, <1>2, <1>3, MoveType
  <1>6. ToldLately'
    <2>1. cacheAge' < CacheTTL => sinceTier[cachedTier'] <= cacheAge' + Flight
      BY <1>0, <1>1 DEF ToldLately
    <2> QED BY <1>0, <1>1, <1>3, <1>4, <2>1, MoveKeepsTold
  <1>7. /\ used \in [KindsOfAccess -> Nat] /\ expiry \in [KindsOfAccess -> {NoExpiry} \cup (0 .. RateWindow)]
        /\ \A x \in KindsOfAccess : used[x] = 0 <=> expiry[x] = 0
        /\ countedFor \in [KindsOfAccess -> UserTiers] /\ rt \in UserTiers
    BY <1>0 DEF AccessTypeOK, AccessRecords
  <1>8. /\ used' \in [KindsOfAccess -> Nat] /\ expiry' \in [KindsOfAccess -> {NoExpiry} \cup (0 .. RateWindow)]
        /\ \A x \in KindsOfAccess : used'[x] = 0 <=> expiry'[x] = 0
        /\ used'[k] = 1 \/ (access[r].at = "increase" /\ used'[k] = used[k] + 1)
        /\ \A x \in KindsOfAccess : x # k => used'[x] = used[x]
    <2> HIDE DEF k, rt, highest
    <2>1. CASE access[r].at = "create"
      <3>1. used' = [used EXCEPT ![k] = 1] /\ expiry' = [expiry EXCEPT ![k] = RateWindow]
        BY <1>1, <2>1
      <3> DEFINE e == RateWindow
      <3>2. e \in {NoExpiry} \cup (0 .. RateWindow) /\ e # 0
        OBVIOUS
      <3>3. expiry' = [expiry EXCEPT ![k] = e]
        BY <3>1
      <3> HIDE DEF e
      <3>4. used' \in [KindsOfAccess -> Nat]
        BY <3>1, <1>2, <1>7
      <3>5. expiry' \in [KindsOfAccess -> {NoExpiry} \cup (0 .. RateWindow)]
        BY <3>2, <3>3, <1>2, <1>7
      <3>6. used'[k] = 1 /\ expiry'[k] = e
        BY <3>1, <3>3, <1>2, <1>7
      <3>7. \A x \in KindsOfAccess : x # k => used'[x] = used[x] /\ expiry'[x] = expiry[x]
        BY <3>1, <3>3, <1>2, <1>7
      <3>8. \A x \in KindsOfAccess : used'[x] = 0 <=> expiry'[x] = 0
        BY <3>2, <3>6, <3>7, <1>7
      <3> QED BY <3>4, <3>5, <3>6, <3>7, <3>8
    <2>2. CASE access[r].at = "increase"
      <3> DEFINE e == IF expiry[k] = 0 THEN NoExpiry ELSE expiry[k]
                 u == used[k] + 1
      <3>1. /\ used' = [used EXCEPT ![k] = u] /\ expiry' = [expiry EXCEPT ![k] = e]
            /\ u \in Nat \ {0} /\ e \in {NoExpiry} \cup (0 .. RateWindow) /\ e # 0
        BY <1>1, <1>2, <1>7, <2>2 DEF NoExpiry
      <3>2. u = used[k] + 1
        OBVIOUS
      <3> HIDE DEF e, u
      <3> QED BY <3>1, <3>2, <1>2, <1>7, <2>2
    <2> QED BY <1>1, <2>1, <2>2
  <1>9. /\ countedFor' \in [KindsOfAccess -> UserTiers]
        /\ countedFor'[k] = rt \/ (access[r].at = "increase" /\ countedFor'[k] = highest)
        /\ access[r].at = "increase" => countedFor'[k] = highest
        /\ access[r].at = "create" => used'[k] = 1
        /\ \A x \in KindsOfAccess : x # k => countedFor'[x] = countedFor[x]
    <2>1. highest \in UserTiers
      BY <1>2, <1>7
    <2> HIDE DEF k, rt, highest
    <2> QED BY <1>1, <1>2, <1>7, <2>1
  <1>10. AccessTypeOK'
    BY <1>0, <1>1, <1>5, <1>8, <1>9 DEF AccessTypeOK, AccessRecords
  <1>11. ASSUME NEW x \in KindsOfAccess, NEW t \in UserTiers PROVE RoomToCount(x, t)'
    <2>0. Increasing(x, t)' =
             IF WillCount(v, x, t) THEN Increasing(x, t) \cup {r} ELSE Increasing(x, t) \ {r}
      BY <1>0, <1>3, MoveCounting DEF WillCount
    <2> DEFINE I == Increasing(x, t)
               J == Increasing(x, t)'
               n == Cardinality(I)
               m == Cardinality(J)
               c == Cardinality(Calls)
               lim == AccessLimit[t][x]
               old == AccessLimit[countedFor[x]][x]
    <2>1. J = I \ {r} /\ I \subseteq Calls /\ J \subseteq Calls
      <3>3. J = I \ {r}
        BY <1>4, <2>0 DEF WillCount
      <3>2. I \subseteq Calls
        BY DEF Increasing
      <3> QED BY <3>2, <3>3
    <2>2. /\ n \in Nat /\ m \in Nat /\ c \in Nat /\ n <= c /\ m <= n
          /\ r \in I => m = n - 1
      <3>1. m <= n
        BY <2>1, LeavesOrStays
      <3> QED BY <2>1, <3>1, CallsCount, NoCallsCount
    <2>3. used[x] \in Nat /\ lim \in Nat \ {0} /\ old \in Nat
      BY <1>0, LimitsAreNumbers DEF AccessTypeOK
    <2>4. m < c
      <3>1. r \notin J
        BY <2>1
      <3> QED BY <2>1, <3>1, CallsCount
    <2>5. SUFFICES ASSUME AccessLimit[countedFor'[x]][x] <= AccessLimit[t][x]
                   PROVE  used'[x] + m < lim + c
      BY DEF RoomToCount
    <2>6. old <= lim => used[x] + n < lim + c
      BY <1>0 DEF Spare, RoomToCount
    <2>7. CASE x = k /\ used'[k] = 1
      <3> HIDE DEF m, n, c, k, lim, old
      <3> QED BY <2>2, <2>3, <2>4, <2>7
    <2>8. CASE x = k /\ access[r].at = "increase" /\ used'[k] = used[k] + 1
      <3>1. countedFor'[x] = highest
        BY <1>9, <2>8
      <3>2. AccessLimit[rt][x] \in Nat
        BY <1>7, LimitsAreNumbers
      <3>3. old <= lim /\ AccessLimit[rt][x] <= lim
        <4>1. AccessLimit[highest][x] <= lim
          BY <2>5, <3>1
        <4>2. CASE old < AccessLimit[rt][x]
          <5>1. highest = rt
            BY <2>8, <4>2
          <5>2. AccessLimit[rt][x] <= lim
            BY <4>1, <5>1
          <5> HIDE DEF old, lim
          <5> QED BY <2>3, <3>2, <4>2, <5>2
        <4>3. CASE ~(old < AccessLimit[rt][x])
          <5>1. highest = countedFor[x]
            BY <2>8, <4>3
          <5>2. old <= lim
            BY <4>1, <5>1
          <5> HIDE DEF old, lim
          <5> QED BY <2>3, <3>2, <4>3, <5>2
        <4> QED BY <4>2, <4>3
      <3>4. r \in I
        BY <2>8, <3>3 DEF Increasing, WillCount
      <3> HIDE DEF m, n, c, k, I, lim, old
      <3> QED BY <2>2, <2>3, <2>6, <2>8, <3>3, <3>4
    <2>9. CASE x # k
      <3>1. used'[x] = used[x] /\ countedFor'[x] = countedFor[x]
        BY <1>8, <1>9, <2>9
      <3>2. old <= lim
        BY <2>5, <3>1
      <3> HIDE DEF m, n, c, k, I, lim, old
      <3> QED BY <2>2, <2>3, <2>6, <3>1, <3>2
    <2> QED BY <1>8, <2>7, <2>8, <2>9
  <1>12. ASSUME NEW t \in UserTiers PROVE RoomToList(t)'
    <2> DEFINE I == Listing(t)
               J == Listing(t)'
               l == Cardinality(listed)
               n == Cardinality(I)
               m == Cardinality(J)
               c == Cardinality(Calls)
               lim == MaxConnections[t]
    <2>1. J = IF MayListUpTo(v, t) THEN I \cup {r} ELSE I \ {r}
      BY <1>0, <1>3, MoveListing
    <2>2. I \subseteq Calls /\ (MayListUpTo(v, t) => r \in I)
      BY <1>4 DEF Listing, MayListUpTo
    <2>3. J = I \/ J = I \ {r}
      BY <2>1, <2>2
    <2>4. n \in Nat /\ m \in Nat /\ c \in Nat /\ m <= n
      BY <2>2, <2>3, LeavesOrStays, NoCallsCount
    <2>5. l \in Nat /\ lim \in Nat
      BY <1>0, FS_CardinalityType, LimitsAreNumbers
    <2>6. RoomToList(t) /\ listed' = listed /\ listedFor' = listedFor
      BY <1>0, <1>1 DEF Spare
    <2>7. l + n < lim + c => l + m < lim + c
      <3> HIDE DEF l, m, n, c, lim
      <3> QED BY <2>4, <2>5
    <2> QED BY <2>6, <2>7 DEF RoomToList
  <1>13. IsFiniteSet(listed')
    BY <1>0, <1>1
  <1> QED BY <1>6, <1>10, <1>11, <1>12, <1>13 DEF AccessInv, Spare

LEMMA AddConnectionKeeps ==
    ASSUME AccessInv, NEW r \in Calls, NEW c \in Clients, AddConnection(r, c) PROVE AccessInv'
  <1>0. /\ AccessTypeOK /\ ToldLately /\ access[r] \in AccessRecords
        /\ Spare /\ IsFiniteSet(listed)
    BY DEF AccessInv, AccessTypeOK, AccessRecords
  <1> DEFINE v == Gone(r, "idle")
             rt == access[r].tier
  <1>1. /\ access[r].at = "list" /\ GoesTo(r, "idle") /\ listed' = listed \cup {c}
        /\ listedFor' = IF c \notin listed /\ MaxConnections[listedFor] < MaxConnections[rt]
                        THEN rt ELSE listedFor
        /\ UNCHANGED <<userTier, cachedTier, cacheAge, sinceTier, used, expiry, countedFor>>
    BY DEF AddConnection, tierVars
  <1>2. v \in AccessRecords /\ access' = [access EXCEPT ![r] = v] /\ v.at = "idle"
    <2>1. "idle" \in Waits
      BY DEF Waits
    <2> QED BY <1>0, <1>1, <2>1, GoesToMoves
  <1> HIDE DEF v
  <1>3. ~MayList(v) /\ MayList(access[r]) /\ rt \in UserTiers /\ listedFor \in UserTiers
    BY <1>0, <1>1, <1>2 DEF MayList, AccessTypeOK, AccessRecords
  <1>4. /\ access' \in [Calls -> AccessRecords]
        /\ \A x \in Calls : access'[x].at \in {"connections", "list"} => access'[x].kind = "stream"
    BY <1>0, <1>2, MoveType
  <1>5. AccessTypeOK'
    <2>1. listedFor' \in UserTiers /\ listed' \subseteq Clients
      BY <1>0, <1>1, <1>3 DEF AccessTypeOK
    <2> QED BY <1>0, <1>1, <1>4, <2>1 DEF AccessTypeOK, AccessRecords
  <1>6. ToldLately'
    <2>1. cacheAge' < CacheTTL => sinceTier[cachedTier'] <= cacheAge' + Flight
      BY <1>0, <1>1 DEF ToldLately
    <2> QED BY <1>0, <1>1, <1>2, <2>1, MoveKeepsTold
  <1>7. ASSUME NEW x \in KindsOfAccess, NEW t \in UserTiers PROVE RoomToCount(x, t)'
    <2>1. Increasing(x, t)' = Increasing(x, t) \ {r}
      BY <1>0, <1>2, MoveCounting DEF WillCount
    <2>2. r \notin Increasing(x, t)
      BY <1>1 DEF Increasing, WillCount
    <2>3. Increasing(x, t)' = Increasing(x, t)
      BY <2>1, <2>2
    <2> QED BY <1>0, <1>1, <2>3 DEF RoomToCount, Spare
  <1>8. IsFiniteSet(listed') /\ Cardinality(listed) \in Nat /\ Cardinality(listed') \in Nat
          /\ Cardinality(listed') = IF c \in listed THEN Cardinality(listed) ELSE Cardinality(listed) + 1
    <2>1. /\ Cardinality(listed \cup {c}) = IF c \in listed THEN Cardinality(listed) ELSE Cardinality(listed) + 1
          /\ IsFiniteSet(listed \cup {c})
      BY <1>0, FS_AddElement
    <2> QED BY <1>0, <1>1, <2>1, FS_CardinalityType
  <1>9. ASSUME NEW t \in UserTiers PROVE RoomToList(t)'
    <2> DEFINE I == Listing(t)
               J == Listing(t)'
               l == Cardinality(listed)
               q == Cardinality(listed')
               n == Cardinality(I)
               m == Cardinality(J)
               a == Cardinality(Calls)
               lim == MaxConnections[t]
               old == MaxConnections[listedFor]
               own == MaxConnections[rt]
    <2>1. J = I \ {r} /\ I \subseteq Calls
      <3>1. Listing(t)' = IF MayListUpTo(v, t) THEN Listing(t) \cup {r} ELSE Listing(t) \ {r}
        BY <1>0, <1>2, MoveListing
      <3>2. ~MayListUpTo(v, t)
        BY <1>3 DEF MayListUpTo
      <3>3. I \subseteq Calls
        BY DEF Listing
      <3> QED BY <3>1, <3>2, <3>3
    <2>2. n \in Nat /\ m \in Nat /\ a \in Nat /\ m <= n /\ (r \in I => m = n - 1)
      <3>1. m <= n
        BY <2>1, LeavesOrStays
      <3>2. J \subseteq Calls
        BY <2>1
      <3> QED BY <2>1, <3>1, <3>2, CallsCount, NoCallsCount
    <2>3. lim \in Nat /\ old \in Nat /\ own \in Nat
      BY <1>3, LimitsAreNumbers
    <2>4. old <= lim => l + n < lim + a
      BY <1>0 DEF Spare, RoomToList
    <2>5. SUFFICES ASSUME MaxConnections[listedFor'] <= MaxConnections[t]
                   PROVE  q + m < lim + a
      BY DEF RoomToList
    <2>6. CASE c \in listed
      <3>1. q = l /\ l \in Nat /\ listedFor' = listedFor
        BY <1>1, <1>8, <2>6
      <3>2. old <= lim
        BY <2>5, <3>1
      <3> HIDE DEF l, q, m, n, a, lim, old
      <3> QED BY <2>2, <2>3, <2>4, <3>1, <3>2
    <2>7. CASE c \notin listed
      <3>1. q = l + 1 /\ l \in Nat /\ listedFor' = IF old < own THEN rt ELSE listedFor
        BY <1>1, <1>8, <2>7
      <3>2. old <= lim /\ own <= lim
        <4>1. CASE old < own
          <5>1. own <= lim
            BY <2>5, <3>1, <4>1
          <5> HIDE DEF old, own, lim
          <5> QED BY <2>3, <4>1, <5>1
        <4>2. CASE ~(old < own)
          <5>1. old <= lim
            BY <2>5, <3>1, <4>2
          <5> HIDE DEF old, own, lim
          <5> QED BY <2>3, <4>2, <5>1
        <4> QED BY <4>1, <4>2
      <3>3. r \in I
        BY <1>3, <3>2 DEF Listing, MayListUpTo
      <3> HIDE DEF l, q, m, n, a, lim, old, own, I
      <3> QED BY <2>2, <2>3, <2>4, <3>1, <3>2, <3>3
    <2> QED BY <2>6, <2>7
  <1> QED BY <1>5, <1>6, <1>7, <1>8, <1>9 DEF AccessInv, Spare

LEMMA AccessTickKeeps == ASSUME AccessInv, AccessTick PROVE AccessInv'
  <1>0. /\ AccessTypeOK /\ ToldLately
        /\ Spare /\ IsFiniteSet(listed)
        /\ access \in [Calls -> AccessRecords]
    BY DEF AccessInv, AccessTypeOK, AccessRecords
  <1>1. /\ \A r \in Calls : access[r].at = "arriving" => access[r].age < Flight
        /\ cacheAge' = IF cacheAge = CacheTTL THEN CacheTTL ELSE cacheAge + 1
        /\ expiry' = [k \in KindsOfAccess |-> IF expiry[k] > 0 THEN expiry[k] - 1 ELSE expiry[k]]
        /\ used' = [k \in KindsOfAccess |-> IF expiry[k] = 1 THEN 0 ELSE used[k]]
        /\ countedFor' = [k \in KindsOfAccess |-> IF expiry[k] = 1 THEN FreeTier ELSE countedFor[k]]
        /\ sinceTier' = [t \in UserTiers |->
              IF t = userTier \/ sinceTier[t] = Forgotten THEN sinceTier[t] ELSE sinceTier[t] + 1]
        /\ userTier' = userTier /\ cachedTier' = cachedTier /\ listed' = listed /\ listedFor' = listedFor
    BY DEF AccessTick
  <1>2. ASSUME NEW r \in Calls
        PROVE  /\ access'[r] \in AccessRecords
               /\ access'[r].at = access[r].at /\ access'[r].kind = access[r].kind
               /\ access'[r].tier = access[r].tier
               /\ access[r].at = "arriving" => access'[r].age = access[r].age + 1
    <2> DEFINE a == access[r]
               b == access'[r]
    <2>1. b = IF a.at = "arriving" THEN [a EXCEPT !.age = a.age + 1] ELSE a
      BY DEF AccessTick
    <2>2. a \in AccessRecords /\ (a.at = "arriving" => a.age < Flight)
      BY <1>0, <1>1
    <2>3. a.at = "arriving" => a.age + 1 \in 0 .. Flight
      <3> HIDE DEF a
      <3>1. a.age \in 0 .. Flight
        BY <2>2 DEF AccessRecords
      <3> QED BY <2>2, <3>1
    <2> HIDE DEF a, b
    <2>4. /\ b \in AccessRecords
          /\ b.at = a.at /\ b.kind = a.kind /\ b.tier = a.tier
          /\ a.at = "arriving" => b.age = a.age + 1
      <3>1. CASE a.at = "arriving"
        BY <2>1, <2>2, <2>3, <3>1 DEF AccessRecords
      <3>2. CASE a.at # "arriving"
        BY <2>1, <2>2, <3>2
      <3> QED BY <3>1, <3>2
    <2> QED BY <2>4 DEF a, b
  <1>3. access' \in [Calls -> AccessRecords]
          /\ \A x \in Calls : access'[x].at \in {"connections", "list"} => access'[x].kind = "stream"
    <2>1. access' = [r \in Calls |->
              IF access[r].at = "arriving" THEN [access[r] EXCEPT !.age = @ + 1] ELSE access[r]]
      BY DEF AccessTick
    <2>2. access' \in [Calls -> AccessRecords]
      <3>1. \A r \in Calls : access'[r] \in AccessRecords
        BY <1>2
      <3>2. access' = [r \in Calls |-> access'[r]]
        BY <2>1
      <3> QED BY <3>1, <3>2
    <2>3. \A x \in Calls : access'[x].at \in {"connections", "list"} => access'[x].kind = "stream"
      BY <1>0, <1>2 DEF AccessTypeOK
    <2> QED BY <2>2, <2>3
  <1>4. /\ cacheAge \in 0 .. CacheTTL /\ sinceTier \in [UserTiers -> 0 .. Forgotten]
        /\ userTier \in UserTiers /\ cachedTier \in UserTiers /\ Flight \in Nat
        /\ used \in [KindsOfAccess -> Nat] /\ expiry \in [KindsOfAccess -> {NoExpiry} \cup (0 .. RateWindow)]
        /\ \A k \in KindsOfAccess : used[k] = 0 <=> expiry[k] = 0
        /\ countedFor \in [KindsOfAccess -> UserTiers]
    BY <1>0 DEF AccessTypeOK
  <1>5. /\ cacheAge' \in 0 .. CacheTTL
        /\ cacheAge' < CacheTTL => cacheAge < CacheTTL /\ cacheAge' = cacheAge + 1
        /\ Forgotten \in Nat
    <2>1. cacheAge' = IF cacheAge = CacheTTL THEN CacheTTL ELSE cacheAge + 1
      BY <1>1
    <2>2. cacheAge \in 0 .. CacheTTL /\ CacheTTL \in Nat /\ Flight \in Nat
      BY <1>4
    <2> QED BY <2>1, <2>2 DEF Forgotten
  <1>6. ASSUME NEW t \in UserTiers
        PROVE  /\ sinceTier'[t] \in 0 .. Forgotten /\ sinceTier'[t] <= sinceTier[t] + 1
               /\ sinceTier[t] \in Nat
    <2>1. sinceTier'[t] = IF t = userTier \/ sinceTier[t] = Forgotten THEN sinceTier[t] ELSE sinceTier[t] + 1
      BY <1>1
    <2>2. sinceTier[t] \in 0 .. Forgotten /\ Forgotten \in Nat
      BY <1>4, <1>5
    <2> QED BY <2>1, <2>2
  <1>7. ASSUME NEW k \in KindsOfAccess
        PROVE  /\ used'[k] \in Nat /\ expiry'[k] \in {NoExpiry} \cup (0 .. RateWindow)
               /\ used'[k] = 0 <=> expiry'[k] = 0
               /\ used'[k] = 0 \/ (used'[k] = used[k] /\ countedFor'[k] = countedFor[k])
               /\ countedFor'[k] \in UserTiers
    <2>1. CASE expiry[k] = 1
      BY <1>1, <1>4, <2>1 DEF NoExpiry
    <2>2. CASE expiry[k] # 1
      BY <1>1, <1>4, <2>2 DEF NoExpiry
    <2> QED BY <2>1, <2>2
  <1>8. /\ used' \in [KindsOfAccess -> Nat] /\ expiry' \in [KindsOfAccess -> {NoExpiry} \cup (0 .. RateWindow)]
        /\ sinceTier' \in [UserTiers -> 0 .. Forgotten]
        /\ countedFor' \in [KindsOfAccess -> UserTiers]
    BY <1>1, <1>6, <1>7
  <1>9. AccessTypeOK'
    BY <1>0, <1>1, <1>3, <1>5, <1>7, <1>8 DEF AccessTypeOK, AccessRecords
  <1>10. ToldLately'
    <2>1. sinceTier'[userTier'] = 0
      BY <1>0, <1>1, <1>4 DEF ToldLately
    <2>2. cacheAge' < CacheTTL => sinceTier'[cachedTier'] <= cacheAge' + Flight
      <3> SUFFICES ASSUME cacheAge' < CacheTTL
                   PROVE  sinceTier'[cachedTier] <= cacheAge' + Flight
        BY <1>1
      <3>1. sinceTier[cachedTier] <= cacheAge + Flight /\ cacheAge' = cacheAge + 1
        BY <1>0, <1>5 DEF ToldLately
      <3>2. sinceTier'[cachedTier] <= sinceTier[cachedTier] + 1 /\ sinceTier[cachedTier] \in Nat
              /\ sinceTier'[cachedTier] \in 0 .. Forgotten
        BY <1>4, <1>6
      <3>3. cacheAge \in Nat /\ Flight \in Nat
        BY <1>4
      <3> QED BY <1>5, <3>1, <3>2, <3>3
    <2>3. ASSUME NEW r \in Calls, access'[r].at = "arriving"
          PROVE  sinceTier'[access'[r].tier] <= access'[r].age
      <3>1. sinceTier[access[r].tier] <= access[r].age /\ access'[r].age = access[r].age + 1
              /\ access'[r].tier = access[r].tier
        BY <1>0, <1>2, <2>3 DEF ToldLately
      <3>2. access[r].age \in Nat /\ access[r].tier \in UserTiers
        BY <1>0 DEF AccessRecords
      <3>3. sinceTier'[access[r].tier] <= sinceTier[access[r].tier] + 1
              /\ sinceTier[access[r].tier] \in Nat /\ sinceTier'[access[r].tier] \in 0 .. Forgotten
        BY <1>6, <3>2
      <3> QED BY <1>5, <3>1, <3>2, <3>3
    <2> QED BY <2>1, <2>2, <2>3 DEF ToldLately
  <1>11. ASSUME NEW k \in KindsOfAccess, NEW t \in UserTiers PROVE RoomToCount(k, t)'
    <2>1. Increasing(k, t)' = Increasing(k, t)
      BY <1>2 DEF Increasing, WillCount
    <2> DEFINE n == Cardinality(Increasing(k, t))
               c == Cardinality(Calls)
               lim == AccessLimit[t][k]
    <2>2. n \in Nat /\ c \in Nat /\ n <= c
      <3>1. Increasing(k, t) \subseteq Calls
        BY DEF Increasing
      <3> QED BY <3>1, NoCallsCount
    <2>3. lim \in Nat \ {0}
      BY LimitsAreNumbers
    <2>4. CASE used'[k] = 0
      <3>1. 0 + n < lim + c
        <4> HIDE DEF n, c, lim
        <4> QED BY <2>2, <2>3
      <3> QED BY <2>1, <2>4, <3>1 DEF RoomToCount
    <2>5. CASE used'[k] = used[k] /\ countedFor'[k] = countedFor[k]
      BY <1>0, <2>1, <2>5 DEF RoomToCount, Spare
    <2> QED BY <1>7, <2>4, <2>5
  <1>12. ASSUME NEW t \in UserTiers PROVE RoomToList(t)'
    <2>1. Listing(t)' = Listing(t)
      BY <1>2 DEF Listing, MayListUpTo, MayList
    <2> QED BY <1>0, <1>1, <2>1 DEF RoomToList, Spare
  <1> QED BY <1>0, <1>1, <1>9, <1>10, <1>11, <1>12 DEF AccessInv, Spare

\* Nobody counts or is listed at first.
LEMMA AccessInitially == AccessInit => AccessInv
  <1> SUFFICES ASSUME AccessInit PROVE AccessInv
    OBVIOUS
  <1>1. IdleRequest \in AccessRecords /\ IdleRequest.at = "idle"
    <2>1. 0 \in 0 .. Flight
      OBVIOUS
    <2> QED BY <2>1 DEF IdleRequest, AccessRecords, Waits, KindsOfAccess
  <1>2. access \in [Calls -> AccessRecords] /\ \A r \in Calls : access[r].at = "idle"
    BY <1>1 DEF AccessInit
  <1>3. Forgotten \in Nat /\ cacheAge \in 0 .. CacheTTL
    BY DEF AccessInit, Forgotten
  <1>4. AccessTypeOK
    <2>1. access \in [Calls -> [at : Waits, kind : KindsOfAccess, tier : UserTiers, age : 0 .. Flight]]
      BY <1>2 DEF AccessRecords
    <2>2. {userTier, cachedTier, listedFor} \subseteq UserTiers /\ listed \subseteq Clients
      BY DEF AccessInit
    <2>3. /\ used \in [KindsOfAccess -> Nat]
          /\ expiry \in [KindsOfAccess -> {NoExpiry} \cup (0 .. RateWindow)]
          /\ \A k \in KindsOfAccess : used[k] = 0 <=> expiry[k] = 0
      <3>1. 0 \in {NoExpiry} \cup (0 .. RateWindow)
        OBVIOUS
      <3> QED BY <3>1 DEF AccessInit
    <2>4. sinceTier \in [UserTiers -> 0 .. Forgotten] /\ countedFor \in [KindsOfAccess -> UserTiers]
      BY <1>3 DEF AccessInit
    <2> QED BY <1>2, <1>3, <2>1, <2>2, <2>3, <2>4 DEF AccessTypeOK
  <1>5. ToldLately
    BY <1>2 DEF AccessInit, ToldLately
  <1>6. ASSUME NEW k \in KindsOfAccess, NEW t \in UserTiers PROVE RoomToCount(k, t)
    <2>1. Increasing(k, t) = {}
      BY <1>2 DEF Increasing, WillCount
    <2>2. Cardinality(Increasing(k, t)) = 0 /\ Cardinality(Calls) \in Nat
      BY <2>1, FS_EmptySet, FS_CardinalityType
    <2>3. used[k] = 0 /\ AccessLimit[t][k] \in Nat \ {0}
      BY LimitsAreNumbers DEF AccessInit
    <2> DEFINE lim == AccessLimit[t][k]
               c == Cardinality(Calls)
               n == Cardinality(Increasing(k, t))
    <2>4. used[k] + n < lim + c
      <3>1. lim \in Nat \ {0} /\ c \in Nat /\ n = 0 /\ used[k] = 0
        BY <2>2, <2>3
      <3> HIDE DEF lim, c, n
      <3> QED BY <3>1
    <2> QED BY <2>4 DEF RoomToCount
  <1>7. ASSUME NEW t \in UserTiers PROVE RoomToList(t)
    <2>1. Listing(t) = {} /\ listed = {}
      BY <1>2 DEF Listing, MayListUpTo, MayList, AccessInit
    <2>2. Cardinality(Listing(t)) = 0 /\ Cardinality(listed) = 0 /\ Cardinality(Calls) \in Nat
            /\ MaxConnections[t] \in Nat \ {0}
      BY <2>1, FS_EmptySet, FS_CardinalityType, LimitsAreNumbers
    <2> DEFINE lim == MaxConnections[t]
               c == Cardinality(Calls)
               n == Cardinality(Listing(t))
               l == Cardinality(listed)
    <2>3. l + n < lim + c
      <3>1. lim \in Nat \ {0} /\ c \in Nat /\ n = 0 /\ l = 0
        BY <2>2
      <3> HIDE DEF lim, c, n, l
      <3> QED BY <3>1
    <2> QED BY <2>3 DEF RoomToList
  <1>8. IsFiniteSet(listed)
    BY FS_EmptySet DEF AccessInit
  <1> QED BY <1>4, <1>5, <1>6, <1>7, <1>8 DEF AccessInv, Spare

LEMMA AccessInvIsInductive == AccessInv /\ [AccessNext]_accessVars => AccessInv'
  <1> SUFFICES ASSUME AccessInv, [AccessNext]_accessVars PROVE AccessInv'
    OBVIOUS
  <1>0. /\ AccessTypeOK /\ ToldLately
        /\ Spare /\ IsFiniteSet(listed)
    BY DEF AccessInv
  <1>1. CASE TierChanges
    <2>1. PICK t \in UserTiers \ {userTier} : userTier' = t /\ sinceTier' = [sinceTier EXCEPT ![t] = 0]
      BY <1>1 DEF TierChanges
    <2>2. UNCHANGED <<cachedTier, cacheAge, access, used, expiry, listed, countedFor, listedFor>>
      BY <1>1 DEF TierChanges, redisVars
    <2>3. sinceTier \in [UserTiers -> 0 .. Forgotten] /\ Forgotten \in Nat /\ cacheAge \in 0 .. CacheTTL
            /\ cachedTier \in UserTiers /\ \A r \in Calls : access[r].age \in Nat /\ access[r].tier \in UserTiers
      BY <1>0 DEF AccessTypeOK, Forgotten
    <2>4. /\ sinceTier' \in [UserTiers -> 0 .. Forgotten] /\ sinceTier'[t] = 0
          /\ \A x \in UserTiers : sinceTier'[x] <= sinceTier[x] /\ sinceTier'[x] \in Nat /\ sinceTier[x] \in Nat
      BY <2>1, <2>3
    <2>5. AccessTypeOK'
      <3>1. userTier' \in UserTiers
        BY <2>1
      <3> QED BY <1>0, <2>2, <2>4, <3>1 DEF AccessTypeOK
    <2>6. ToldLately'
      <3>1. ASSUME cacheAge < CacheTTL PROVE sinceTier'[cachedTier] <= cacheAge + Flight
        <4>1. sinceTier[cachedTier] <= cacheAge + Flight
          BY <1>0, <3>1 DEF ToldLately
        <4>2. cacheAge + Flight \in Nat /\ sinceTier'[cachedTier] <= sinceTier[cachedTier]
                /\ sinceTier'[cachedTier] \in Nat /\ sinceTier[cachedTier] \in Nat
          BY <2>3, <2>4
        <4> QED BY <4>1, <4>2
      <3>2. ASSUME NEW r \in Calls, access[r].at = "arriving"
            PROVE  sinceTier'[access[r].tier] <= access[r].age
        <4>1. sinceTier[access[r].tier] <= access[r].age
          BY <1>0, <3>2 DEF ToldLately
        <4>2. sinceTier'[access[r].tier] <= sinceTier[access[r].tier] /\ access[r].age \in Nat
                /\ sinceTier'[access[r].tier] \in Nat /\ sinceTier[access[r].tier] \in Nat
          BY <2>3, <2>4
        <4> QED BY <4>1, <4>2
      <3> QED BY <2>1, <2>2, <2>4, <3>1, <3>2 DEF ToldLately
    <2>7. Spare'
      BY <1>0, <2>2 DEF Spare, RoomToCount, RoomToList, Increasing, Listing, WillCount, MayListUpTo, MayList
    <2> QED BY <1>0, <2>2, <2>5, <2>6, <2>7 DEF AccessInv
  <1>2. CASE AccessTick
    BY <1>2, AccessTickKeeps
  <1>3. CASE ConnectionsExpire
    <2>1. /\ listed' = {} /\ listedFor' = FreeTier
          /\ UNCHANGED <<userTier, cachedTier, cacheAge, sinceTier, access, used, expiry, countedFor>>
      BY <1>3 DEF ConnectionsExpire, tierVars
    <2>2. AccessTypeOK' /\ ToldLately'
      BY <1>0, <2>1 DEF AccessTypeOK, ToldLately
    <2>3. \A k \in KindsOfAccess, t \in UserTiers : RoomToCount(k, t)'
      BY <1>0, <2>1 DEF Spare, RoomToCount, Increasing, WillCount
    <2>4. ASSUME NEW t \in UserTiers PROVE RoomToList(t)'
      <3> DEFINE n == Cardinality(Listing(t))
                 c == Cardinality(Calls)
                 lim == MaxConnections[t]
      <3>1. n \in Nat /\ c \in Nat /\ n <= c /\ lim \in Nat \ {0}
        <4>1. Listing(t) \subseteq Calls
          BY DEF Listing
        <4> QED BY <4>1, NoCallsCount, LimitsAreNumbers
      <3>2. Cardinality(listed') = 0
        BY <2>1, FS_EmptySet
      <3>3. 0 + n < lim + c
        <4> HIDE DEF n, c, lim
        <4> QED BY <3>1
      <3>4. Listing(t)' = Listing(t)
        BY <2>1 DEF Listing, MayListUpTo, MayList
      <3> QED BY <3>2, <3>3, <3>4 DEF RoomToList
    <2>5. IsFiniteSet(listed')
      BY <2>1, FS_EmptySet
    <2> QED BY <2>2, <2>3, <2>4, <2>5 DEF AccessInv, Spare
  <1>4. ASSUME NEW r \in Calls, FetchFails(r) \/ CounterFails(r) PROVE AccessInv'
    <2>1. GoesTo(r, "idle") /\ StaysPut
      BY <1>4 DEF FetchFails, CounterFails, StaysPut, tierVars, redisVars
    <2>2. "idle" \in Waits
      BY DEF Waits
    <2> QED BY <2>1, <2>2, GoneKeeps
  <1>5. ASSUME NEW r \in Calls, CheckConnections(r) PROVE AccessInv'
    <2> DEFINE stage == IF RoomForClient(access[r].tier) THEN "count" ELSE "idle"
    <2>1. GoesTo(r, stage) /\ StaysPut
      BY <1>5 DEF CheckConnections, StaysPut, tierVars, redisVars
    <2>2. stage \in Waits /\ stage \in {"count", "idle"} /\ (stage = "count" => RoomForClient(access[r].tier))
      BY DEF Waits
    <2> HIDE DEF stage
    <2> QED BY <2>1, <2>2, GoneKeeps
  <1>6. ASSUME NEW r \in Calls, ReadCounter(r) PROVE AccessInv'
    <2> DEFINE k == access[r].kind
               stage == IF used[k] = 0 THEN "create"
                        ELSE IF BelowLimit(k, access[r].tier) THEN "increase" ELSE "idle"
    <2>1. GoesTo(r, stage) /\ StaysPut /\ access[r].at = "count"
      BY <1>6 DEF ReadCounter, StaysPut, tierVars, redisVars
    <2>2. stage \in Waits /\ stage \in {"create", "increase", "idle"}
            /\ (stage = "increase" => BelowLimit(k, access[r].tier))
      BY DEF Waits
    <2>3. k # "stream" \/ MayList(access[r])
      BY <2>1 DEF MayList
    <2> HIDE DEF stage
    <2> QED BY <2>1, <2>2, <2>3, GoneKeeps
  <1>7. CASE UNCHANGED accessVars
    <2>1. UNCHANGED <<userTier, cachedTier, cacheAge, sinceTier, access, used, expiry, listed, countedFor, listedFor>>
      BY <1>7 DEF accessVars
    <2>2. AccessTypeOK' /\ ToldLately'
      BY <1>0, <2>1 DEF AccessTypeOK, ToldLately
    <2>3. Spare'
      BY <1>0, <2>1 DEF Spare, RoomToCount, RoomToList, Increasing, Listing, WillCount, MayListUpTo, MayList
    <2> QED BY <1>0, <2>1, <2>2, <2>3 DEF AccessInv
  <1> QED BY <1>1, <1>2, <1>3, <1>4, <1>5, <1>6, <1>7, CheckAccessKeeps, MarketplaceAnswersKeeps,
             AnswerArrivesKeeps, WriteCounterKeeps, AddConnectionKeeps DEF AccessNext

\* The API is open, and limits are lent, to those who are or were lately of a tier.
LEMMA RevokedStep ==
    ASSUME AccessInv, [AccessNext]_accessVars, NEW r \in Calls,
           access[r].at \notin {"connections", "count"}, access'[r].at \in {"connections", "count"}
    PROVE  sinceTier[access'[r].tier] < Forgotten
  <1>0. /\ AccessTypeOK /\ ToldLately /\ access \in [Calls -> AccessRecords]
        /\ sinceTier \in [UserTiers -> 0 .. Forgotten] /\ cacheAge \in 0 .. CacheTTL /\ Flight \in Nat
        /\ CacheTTL \in Nat \ {0} /\ cachedTier \in UserTiers
    BY DEF AccessInv, AccessTypeOK, AccessRecords
  <1>1. ~UNCHANGED accessVars
    BY DEF accessVars
  <1>2. ~(TierChanges \/ ConnectionsExpire)
    BY DEF TierChanges, ConnectionsExpire
  <1>3. ~AccessTick
    <2> SUFFICES ASSUME AccessTick PROVE access'[r].at = access[r].at
      OBVIOUS
    <2>1. access'[r] = IF access[r].at = "arriving" THEN [access[r] EXCEPT !.age = @ + 1] ELSE access[r]
      BY DEF AccessTick
    <2>2. access[r] \in AccessRecords
      BY <1>0
    <2> QED BY <2>1, <2>2 DEF AccessRecords
  <1>5. ASSUME NEW x \in Calls, NEW stage \in Waits, GoesTo(x, stage),
               stage \in {"connections", "list"} => access[x].kind = "stream"
        PROVE  x = r /\ stage \in {"connections", "count"}
    <2>1. /\ access' = [access EXCEPT ![x] = Gone(x, stage)]
          /\ Gone(x, stage).at = stage
      BY <1>0, <1>5, GoesToMoves
    <2>2. x = r
      BY <1>0, <2>1
    <2>3. access'[r] = Gone(x, stage)
      BY <1>0, <2>1, <2>2
    <2> QED BY <2>1, <2>2, <2>3
  <1>6. ASSUME NEW x \in Calls, FetchFails(x) \/ CounterFails(x) \/ (\E c \in Clients : AddConnection(x, c))
        PROVE  FALSE
    <2>1. GoesTo(x, "idle")
      BY <1>6 DEF FetchFails, CounterFails, AddConnection
    <2>2. "idle" \in Waits
      BY DEF Waits
    <2> QED BY <1>5, <2>1, <2>2
  <1>7. ASSUME NEW x \in Calls, CheckConnections(x) PROVE FALSE
    <2> DEFINE stage == IF RoomForClient(access[x].tier) THEN "count" ELSE "idle"
    <2>1. GoesTo(x, stage) /\ access[x].at = "connections"
      BY <1>7 DEF CheckConnections
    <2>2. stage \in Waits /\ stage \notin {"connections", "list"}
      BY DEF Waits
    <2> HIDE DEF stage
    <2> QED BY <1>5, <2>1, <2>2
  <1>8. ASSUME NEW x \in Calls, ReadCounter(x) PROVE FALSE
    <2> DEFINE k == access[x].kind
               stage == IF used[k] = 0 THEN "create"
                        ELSE IF BelowLimit(k, access[x].tier) THEN "increase" ELSE "idle"
    <2>1. GoesTo(x, stage)
      BY <1>8 DEF ReadCounter
    <2>2. stage \in Waits /\ stage \notin {"connections", "list", "count"}
      BY DEF Waits
    <2> HIDE DEF stage
    <2> QED BY <1>5, <2>1, <2>2
  <1>9. ASSUME NEW x \in Calls, WriteCounter(x) PROVE FALSE
    <2> DEFINE k == access[x].kind
               stage == AfterCounter(k)
    <2>1. GoesTo(x, stage)
      BY <1>9 DEF WriteCounter
    <2>2. stage \in Waits /\ stage \notin {"connections", "count"} /\ (stage = "list" => k = "stream")
      BY DEF Waits, AfterCounter
    <2> HIDE DEF stage
    <2> QED BY <1>5, <2>1, <2>2
  <1>10. ASSUME NEW x \in Calls, MarketplaceAnswers(x) PROVE FALSE
    <2>1. access' = [access EXCEPT ![x].at = "arriving", ![x].tier = userTier]
      BY <1>10 DEF MarketplaceAnswers
    <2> DEFINE v == [access[x] EXCEPT !.at = "arriving", !.tier = userTier]
    <2>2. access' = [access EXCEPT ![x] = v]
      BY <1>0, <2>1
    <2>3. access[x] \in AccessRecords
      BY <1>0
    <2>4. v.at = "arriving"
      BY <2>3 DEF AccessRecords
    <2> HIDE DEF v
    <2> QED BY <1>0, <2>2, <2>4
  <1>11. ASSUME NEW x \in Calls, AnswerArrives(x) PROVE sinceTier[access'[r].tier] < Forgotten
    <2> DEFINE v == Told(access[x].kind, access[x].tier)
    <2>1. access' = [access EXCEPT ![x] = v] /\ access[x].at = "arriving"
      BY <1>11 DEF AnswerArrives
    <2>2. access[x].kind \in KindsOfAccess /\ access[x].tier \in UserTiers /\ access[x].age \in 0 .. Flight
      BY <1>0 DEF AccessRecords
    <2>3. v.at \in {"connections", "count"} => v.tier = access[x].tier
      BY <2>2, ToldIs
    <2> HIDE DEF v
    <2>4. x = r
      BY <1>0, <2>1
    <2>5. access'[r].tier = access[x].tier
      BY <1>0, <2>1, <2>3, <2>4
    <2>6. sinceTier[access[x].tier] <= access[x].age
      BY <1>0, <2>1 DEF ToldLately
    <2>7. sinceTier[access[x].tier] \in Nat
      BY <1>0, <2>2 DEF Forgotten
    <2> QED BY <1>0, <2>2, <2>5, <2>6, <2>7 DEF Forgotten
  <1>12. ASSUME NEW x \in Calls, NEW kind \in KindsOfAccess, CheckAccess(x, kind)
         PROVE  sinceTier[access'[r].tier] < Forgotten
    <2> DEFINE v == Told(kind, cachedTier)
               w == [IdleRequest EXCEPT !.at = "fetch", !.kind = kind]
    <2>1. access' = [access EXCEPT ![x] = IF cacheAge < CacheTTL THEN v ELSE w]
      BY <1>12 DEF CheckAccess
    <2>2. w.at = "fetch"
      BY DEF IdleRequest
    <2>3. v.at \in {"connections", "count"} => v.tier = cachedTier
      BY <1>0, ToldIs
    <2> HIDE DEF v, w
    <2>4. cacheAge < CacheTTL /\ access'[r].tier = cachedTier
      BY <1>0, <2>1, <2>2, <2>3
    <2>5. sinceTier[cachedTier] <= cacheAge + Flight
      BY <1>0, <2>4 DEF ToldLately
    <2>6. sinceTier[cachedTier] \in Nat
      BY <1>0 DEF Forgotten
    <2> QED BY <1>0, <2>4, <2>5, <2>6 DEF Forgotten
  <1> QED BY <1>1, <1>2, <1>3, <1>6, <1>7, <1>8, <1>9, <1>10, <1>11, <1>12 DEF AccessNext

\* Access and limits end with the tier, and the counter and the list pass the limits of
\* the highest tier told to those in them by no more than the requests that overlap,
\* whatever fails between two calls of Redis.
THEOREM AccessKeepsItsPromise == AccessSpec => AccessPromise
  <1>1. ASSUME AccessInv PROVE AccessTypeOK /\ CountedInTime /\ ConnectionsInBounds
    <2>1. ASSUME NEW k \in KindsOfAccess
          PROVE  used[k] < AccessLimit[countedFor[k]][k] + Cardinality(Calls)
      <3> DEFINE t == countedFor[k]
                 n == Cardinality(Increasing(k, t))
                 c == Cardinality(Calls)
                 lim == AccessLimit[t][k]
      <3>1. t \in UserTiers /\ used[k] \in Nat
        BY <1>1 DEF AccessInv, AccessTypeOK
      <3>2. n \in Nat /\ c \in Nat /\ lim \in Nat
        <4>1. Increasing(k, t) \subseteq Calls
          BY DEF Increasing
        <4> QED BY <3>1, <4>1, NoCallsCount, LimitsAreNumbers
      <3>3. used[k] + n < lim + c
        <4>1. lim <= lim
          <5> HIDE DEF lim
          <5> QED BY <3>2
        <4>2. RoomToCount(k, t)
          <5> HIDE DEF t
          <5> QED BY <1>1, <3>1 DEF AccessInv, Spare
        <4> QED BY <4>1, <4>2 DEF RoomToCount
      <3>4. used[k] < lim + c
        <4> HIDE DEF n, lim, c
        <4> QED BY <3>1, <3>2, <3>3
      <3> QED BY <3>4
    <2>2. Cardinality(listed) < MaxConnections[listedFor] + Cardinality(Calls)
      <3> DEFINE n == Cardinality(Listing(listedFor))
                 l == Cardinality(listed)
                 c == Cardinality(Calls)
                 lim == MaxConnections[listedFor]
      <3>1. listedFor \in UserTiers /\ l \in Nat
        BY <1>1, FS_CardinalityType DEF AccessInv, AccessTypeOK
      <3>2. n \in Nat /\ c \in Nat /\ lim \in Nat
        <4>1. Listing(listedFor) \subseteq Calls
          BY DEF Listing
        <4> QED BY <3>1, <4>1, NoCallsCount, LimitsAreNumbers
      <3>3. l + n < lim + c
        <4>1. lim <= lim
          <5> HIDE DEF lim
          <5> QED BY <3>2
        <4> QED BY <1>1, <3>1, <4>1 DEF AccessInv, Spare, RoomToList
      <3>4. l < lim + c
        <4> HIDE DEF n, l, c, lim
        <4> QED BY <3>1, <3>2, <3>3
      <3> QED BY <3>4
    <2> QED BY <1>1, <2>1, <2>2 DEF AccessInv, CountedInTime, ConnectionsInBounds
  <1>2. AccessInv /\ [AccessNext]_accessVars =>
          [\A r \in Calls :
             (access[r].at \notin {"connections", "count"} /\ access'[r].at \in {"connections", "count"})
                 => sinceTier[access'[r].tier] < Forgotten]_accessVars
    BY RevokedStep
  <1> QED BY <1>1, <1>2, AccessInitially, AccessInvIsInductive, PTL
        DEF AccessSpec, AccessPromise, RevokedInTime

HIDE EntitlementAssumption DEF EntitlementAssumption

-------------------------------------------------------------------------------
(* The limits counted in Redis, beside the other guards.                       *)

\* Whatever part moves, the counters of the limiter and of the entitlements move by the
\* steps of their own component or not at all.
LEMMA PartsStep ==
    [PartsNext]_<<part, allVars>> => [RateNext]_rateVars /\ [AccessNext]_accessVars
  <1> SUFFICES ASSUME [PartsNext]_<<part, allVars>>
               PROVE  [RateNext]_rateVars /\ [AccessNext]_accessVars
    OBVIOUS
  <1>1. CASE RateNext /\ BesideRate
    BY <1>1 DEF BesideRate
  <1>2. CASE AccessNext /\ BesideAccess
    BY <1>2 DEF BesideAccess
  <1>3. CASE UNCHANGED rateVars /\ UNCHANGED accessVars
    BY <1>3
  <1>4. CASE UNCHANGED <<part, allVars>>
    BY <1>3, <1>4 DEF allVars
  <1>5. CASE \/ BesideBreaker \/ BesideLoad \/ BesideThresholds \/ BesideHealth
             \/ BesideBudget \/ BesideTicker \/ BesideCrash
    BY <1>3, <1>5 DEF BesideBreaker, BesideLoad, BesideThresholds, BesideHealth, BesideBudget,
                      BesideTicker, BesideCrash
  <1> QED BY <1>1, <1>2, <1>4, <1>5 DEF PartsNext

\* Neither the rate limiter nor the entitlements let through more than they say, whatever
\* the other guards do.
THEOREM QuotasKeepTheirPromise == PartsSpec => QuotasPromise
  <1>1. PartsInit => RateInit /\ AccessInit
    BY DEF PartsInit
  <1>2. PartsSpec => RateSpec /\ AccessSpec
    BY <1>1, PartsStep, PTL DEF PartsSpec, RateSpec, AccessSpec
  <1> QED BY <1>2, RateKeepsItsPromise, AccessKeepsItsPromise, PTL DEF QuotasPromise

-------------------------------------------------------------------------------
(* The two breakers.                                                           *)

USE ResilienceAssumption DEF ResilienceAssumption

\* Until a call succeeds a tripped breaker does not close, and its clock is that of the trip.
TrippedWaits ==
    sinceTrip # Never /\ ~rescued =>
        /\ breakerState # "CLOSED" /\ sinceFailure = sinceTrip
        /\ breakerState = "HALF_OPEN" => sinceTrip = RecoveryTimeout

BreakerInv == BreakerTypeOK /\ TrippedWaits

LEMMA BreakerInvIsInductive ==
    /\ BreakerInit => BreakerInv
    /\ BreakerInv /\ [BreakerNext]_breakerVars => BreakerInv'
  <1>1. BreakerInit => BreakerInv
    <2> SUFFICES ASSUME BreakerInit PROVE BreakerInv
      OBVIOUS
    <2>1. 0 \in 0 .. FailureThreshold - 1
      OBVIOUS
    <2>2. BreakerTypeOK
      BY <2>1 DEF BreakerInit, BreakerTypeOK
    <2>3. TrippedWaits
      BY DEF BreakerInit, TrippedWaits
    <2> QED BY <2>2, <2>3 DEF BreakerInv
  <1> SUFFICES ASSUME BreakerInv, [BreakerNext]_breakerVars PROVE BreakerInv'
    BY <1>1
  <1> USE DEF BreakerInv, BreakerTypeOK, TrippedWaits, Never
  <1>2. CASE BreakerTick
    BY <1>2 DEF BreakerTick, Aged
  <1>3. ASSUME NEW c \in Callers, Call(c) PROVE BreakerInv'
    BY <1>3 DEF Call, AllowsExecution
  <1>4. ASSUME NEW c \in Callers, CallFails(c) PROVE BreakerInv'
    <2>1. CASE failureCount + 1 >= FailureThreshold
      <3>1. /\ breakerState' = "OPEN" /\ sinceFailure' = 0 /\ failureCount' = 0 /\ sinceTrip' = 0
            /\ rescued' = FALSE /\ calling' \subseteq Callers
        BY <1>4, <2>1 DEF CallFails, OpenCircuit
      <3>2. 0 \in 0 .. FailureThreshold - 1 /\ 0 \in 0 .. RecoveryTimeout
        OBVIOUS
      <3>3. BreakerTypeOK'
        <4>1. failureCount' \in 0 .. FailureThreshold - 1
          BY <3>1, <3>2
        <4>2. sinceFailure' \in {Never} \cup (0 .. RecoveryTimeout) /\ sinceFailure' # Never
          BY <3>1, <3>2
        <4>3. sinceTrip' \in {Never} \cup (0 .. RecoveryTimeout)
          BY <3>1, <3>2
        <4> HIDE DEF BreakerInv, TrippedWaits, Never
        <4> QED BY <3>1, <4>1, <4>2, <4>3
      <3>4. TrippedWaits'
        BY <3>1
      <3> QED BY <3>3, <3>4
    <2>2. CASE ~(failureCount + 1 >= FailureThreshold)
      BY <1>4, <2>2 DEF CallFails
    <2> QED BY <2>1, <2>2
  <1>5. ASSUME NEW c \in Callers, CallSucceeds(c) PROVE BreakerInv'
    BY <1>5 DEF CallSucceeds, RecordSuccess
  <1>6. ASSUME NEW c \in Callers, CallCancelled(c) PROVE BreakerInv'
    BY <1>6 DEF CallCancelled
  <1>7. CASE UNCHANGED breakerVars
    BY <1>7 DEF breakerVars
  <1> QED BY <1>2, <1>3, <1>4, <1>5, <1>6, <1>7 DEF BreakerNext

LEMMA RestsStep ==
    ASSUME BreakerInv, [BreakerNext]_breakerVars, NEW c \in Callers,
           c \notin calling, c \in calling', sinceTrip # Never, ~rescued
    PROVE  sinceTrip = RecoveryTimeout
  <1>1. PICK d \in Callers : Call(d)
    BY DEF BreakerNext, breakerVars, BreakerTick, CallFails, CallSucceeds, CallCancelled
  <1> QED BY <1>1 DEF Call, AllowsExecution, BreakerInv, BreakerTypeOK, TrippedWaits

\* The service behind the generic breaker rests for RecoveryTimeout after every trip,
\* unless a call that was under way succeeds: the safety part of BreakerPromise.
THEOREM TrippedRests == BreakerSpec => []BreakerTypeOK /\ Rests
  <1>1. BreakerInv => BreakerTypeOK
    BY DEF BreakerInv
  <1>2. BreakerInv /\ [BreakerNext]_breakerVars =>
          [\A c \in Callers :
             (c \notin calling /\ c \in calling' /\ sinceTrip # Never /\ ~rescued)
                 => sinceTrip = RecoveryTimeout]_breakerVars
    BY RestsStep
  <1> QED BY <1>1, <1>2, BreakerInvIsInductive, PTL DEF BreakerSpec, Rests

HIDE ResilienceAssumption DEF ResilienceAssumption
USE TickerAssumption DEF TickerAssumption

\* The time the breaker waits from is that of the last request that failed, or, once a
\* refusal was counted, a later one.
WaitsFromTheLoss == sinceFailed <= sinceLoss /\ (~snubbed => sinceFailed = sinceLoss)

TickerInv == TickerTypeOK /\ OpenForAReason /\ WaitsFromTheLoss

\* The least of two numbers.
LEMMA LeastOfTwo ==
    ASSUME NEW a \in Nat, NEW b \in Nat
    PROVE  Min({a, b}) = IF a <= b THEN a ELSE b
  <1>1. \E x \in {a, b} : \A y \in {a, b} : x <= y
    OBVIOUS
  <1>2. Min({a, b}) \in {a, b} /\ \A y \in {a, b} : Min({a, b}) <= y
    BY <1>1 DEF Min
  <1> QED BY <1>2

LEMMA HandleFailureKeeps ==
    ASSUME TickerInv, HandleFailure
    PROVE  /\ tripped' \in BOOLEAN /\ failed' \in 0 .. MaxFailures /\ sinceFailed' = 0
           /\ healthy' \in BOOLEAN /\ OpenForAReason'
  <1>1. failed \in 0 .. MaxFailures /\ MaxFailures \in Nat \ {0} /\ tripped \in BOOLEAN /\ healthy \in BOOLEAN
    BY DEF TickerInv, TickerTypeOK
  <1>2. failed' = IF failed + 1 <= MaxFailures THEN failed + 1 ELSE MaxFailures
    BY <1>1, LeastOfTwo DEF HandleFailure
  <1>3. failed' \in 0 .. MaxFailures /\ (failed = MaxFailures => failed' = MaxFailures)
    BY <1>1, <1>2
  <1> QED BY <1>1, <1>3 DEF HandleFailure, OpenForAReason, TickerInv

LEMMA TickerInvIsInductive ==
    /\ TickerInit => TickerInv
    /\ TickerInv /\ [TickerNext]_tickerVars => TickerInv'
  <1>1. TickerInit => TickerInv
    <2> SUFFICES ASSUME TickerInit PROVE TickerInv
      OBVIOUS
    <2>1. Cooling + 1 \in 0 .. Cooling + 1 /\ 0 \in 0 .. MaxFailures
      OBVIOUS
    <2>2. fetch \in [Fetchers -> Requested \cup {"nothing"}]
      BY DEF TickerInit
    <2>3. TickerTypeOK
      BY <2>1, <2>2 DEF TickerInit, TickerTypeOK
    <2> QED BY <2>1, <2>3 DEF TickerInit, TickerInv, OpenForAReason, WaitsFromTheLoss
  <1> SUFFICES ASSUME TickerInv, [TickerNext]_tickerVars PROVE TickerInv'
    BY <1>1
  <1>2. CASE TickerTick
    <2>1. /\ sinceFailed' = IF sinceFailed + 1 <= Cooling + 1 THEN sinceFailed + 1 ELSE Cooling + 1
          /\ sinceLoss' = IF sinceLoss + 1 <= Cooling + 1 THEN sinceLoss + 1 ELSE Cooling + 1
      <3>1. sinceFailed + 1 \in Nat /\ sinceLoss + 1 \in Nat /\ Cooling + 1 \in Nat
        BY DEF TickerInv, TickerTypeOK
      <3> QED BY <1>2, <3>1, LeastOfTwo DEF TickerTick, Later
    <2> QED BY <1>2, <2>1 DEF TickerTick, TickerInv, TickerTypeOK, OpenForAReason, WaitsFromTheLoss
  <1>3. ASSUME NEW c \in Fetchers, Sends(c) PROVE TickerInv'
    <2>1. PICK what \in Requested : Send(c, what)
      BY <1>3 DEF Sends
    <2>2. fetch' \in [Fetchers -> Requested \cup {"nothing"}]
      BY <2>1 DEF Send, TickerInv, TickerTypeOK
    <2>3. failed' \in 0 .. MaxFailures
      BY <2>1 DEF Send, TickerInv, TickerTypeOK
    <2>4. TickerTypeOK'
      BY <2>1, <2>2, <2>3 DEF Send, TickerInv, TickerTypeOK
    <2> QED BY <2>1, <2>4 DEF Send, TickerInv, OpenForAReason, WaitsFromTheLoss
  <1>4. ASSUME NEW c \in Fetchers, NEW what \in Requested, Refuse(c, what) PROVE TickerInv'
    <2>1. /\ snubbed' = (snubbed \/ what = "data") /\ fetch' = fetch /\ sinceLoss' = sinceLoss
          /\ IF what = "data" THEN HandleFailure ELSE UNCHANGED <<tripped, failed, sinceFailed, healthy>>
      BY <1>4 DEF Refuse, CountedRefusal
    <2>2. CASE what = "data"
      <3>1. /\ tripped' \in BOOLEAN /\ failed' \in 0 .. MaxFailures /\ sinceFailed' = 0
            /\ healthy' \in BOOLEAN /\ OpenForAReason'
        BY <2>1, <2>2, HandleFailureKeeps
      <3>2. 0 \in 0 .. Cooling + 1 /\ sinceLoss \in 0 .. Cooling + 1
        BY DEF TickerInv, TickerTypeOK
      <3>3. snubbed' /\ snubbed' \in BOOLEAN
        BY <2>1, <2>2 DEF TickerInv, TickerTypeOK
      <3>4. TickerTypeOK'
        BY <2>1, <3>1, <3>2, <3>3 DEF TickerInv, TickerTypeOK
      <3>5. WaitsFromTheLoss'
        BY <2>1, <3>1, <3>2, <3>3 DEF WaitsFromTheLoss
      <3> QED BY <3>1, <3>4, <3>5 DEF TickerInv
    <2>3. CASE what # "data"
      BY <2>1, <2>3 DEF TickerInv, TickerTypeOK, OpenForAReason, WaitsFromTheLoss
    <2> QED BY <2>2, <2>3
  <1>5. ASSUME NEW c \in Fetchers, Fails(c) PROVE TickerInv'
    <2>1. /\ tripped' \in BOOLEAN /\ failed' \in 0 .. MaxFailures /\ sinceFailed' = 0
          /\ healthy' \in BOOLEAN /\ OpenForAReason'
      BY <1>5, HandleFailureKeeps DEF Fails
    <2>2. 0 \in 0 .. Cooling + 1 /\ sinceLoss' = 0 /\ snubbed' = FALSE
      BY <1>5 DEF Fails
    <2>3. fetch' \in [Fetchers -> Requested \cup {"nothing"}]
      BY <1>5 DEF Fails, TickerInv, TickerTypeOK
    <2>4. TickerTypeOK'
      BY <2>1, <2>2, <2>3 DEF TickerTypeOK
    <2> QED BY <2>1, <2>2, <2>4 DEF TickerInv, WaitsFromTheLoss
  <1>6. ASSUME NEW c \in Fetchers, FetchCancelled(c) PROVE TickerInv'
    BY <1>6 DEF FetchCancelled, TickerInv, TickerTypeOK, OpenForAReason, WaitsFromTheLoss
  <1>7. ASSUME NEW c \in Fetchers, NEW ok \in BOOLEAN, Answered(c, ok) PROVE TickerInv'
    <2>1. fetch' = [fetch EXCEPT ![c] = "nothing"] /\ UNCHANGED <<tripped, sinceFailed, sinceLoss, snubbed>>
            /\ ((failed' = 0 /\ healthy' = TRUE) \/ UNCHANGED <<failed, healthy>>)
      BY <1>7 DEF Answered
    <2>2. fetch' \in [Fetchers -> Requested \cup {"nothing"}]
      BY <2>1 DEF TickerInv, TickerTypeOK
    <2>3. 0 \in 0 .. MaxFailures
      OBVIOUS
    <2>4. failed' \in 0 .. MaxFailures /\ healthy' \in BOOLEAN
      BY <2>1, <2>3 DEF TickerInv, TickerTypeOK
    <2>5. TickerTypeOK'
      BY <2>1, <2>2, <2>4 DEF TickerInv, TickerTypeOK
    <2>6. OpenForAReason' /\ WaitsFromTheLoss'
      BY <2>1 DEF TickerInv, OpenForAReason, WaitsFromTheLoss
    <2> QED BY <2>5, <2>6 DEF TickerInv
  <1>8. CASE UNCHANGED tickerVars
    BY <1>8 DEF tickerVars, TickerInv, TickerTypeOK, OpenForAReason, WaitsFromTheLoss
  <1> QED BY <1>2, <1>3, <1>4, <1>5, <1>6, <1>7, <1>8 DEF TickerNext, FetchEnds

LEMMA LeftAloneStep ==
    ASSUME TickerInv, [TickerNext]_tickerVars, NEW c \in Fetchers,
           fetch[c] = "nothing", fetch'[c] # "nothing", tripped
    PROVE  sinceLoss > Cooling
  <1>0. fetch \in [Fetchers -> Requested \cup {"nothing"}]
    BY DEF TickerInv, TickerTypeOK
  <1>1. ~(\E d \in Fetchers : FetchEnds(d) \/ \E what \in Requested : Refuse(d, what))
    BY <1>0 DEF FetchEnds, Fails, FetchCancelled, Answered, Refuse
  <1>2. \E d \in Fetchers : Sends(d)
    BY <1>1 DEF TickerNext, TickerTick, tickerVars
  <1>3. sinceFailed > Cooling
    BY <1>2 DEF Sends, Send, Open, TickerInv, TickerTypeOK
  <1> QED BY <1>3 DEF TickerInv, TickerTypeOK, WaitsFromTheLoss

\* The ticker service is left alone while its breaker waits, the breaker waits from what
\* the service did unless it has snubbed a request itself, and it opened for a reason: the
\* safety part of TickerPromise.
THEOREM TickerIsLeftAlone ==
    TickerSpec => [](TickerTypeOK /\ WaitsForTheService /\ OpenForAReason) /\ LeftAlone
  <1>1. TickerInv => TickerTypeOK /\ WaitsForTheService /\ OpenForAReason
    BY DEF TickerInv, TickerTypeOK, WaitsFromTheLoss, WaitsForTheService
  <1>2. TickerInv /\ [TickerNext]_tickerVars =>
          [\A c \in Fetchers :
             fetch[c] = "nothing" /\ fetch'[c] # "nothing" /\ tripped
                 => sinceLoss > Cooling]_tickerVars
    BY LeftAloneStep
  <1> QED BY <1>1, <1>2, TickerInvIsInductive, PTL DEF TickerSpec, LeftAlone

HIDE TickerAssumption DEF TickerAssumption

-------------------------------------------------------------------------------
(* Load shedding: what the policy of critical requests gives is nothing at     *)
(* every load it divides for, and nothing is what the adaptations make of it.  *)

USE OverloadAssumption DEF OverloadAssumption

\* The policy of critical requests gives a probability of nothing, whatever adapts it.
LEMMA CriticalProbabilities ==
    ASSUME LoadTypeOK, ~(overloads > 5), NEW load \in Loads, Divides("critical", load),
           NEW p \in Probabilities("critical", load)
    PROVE  p = 0
  <1>1. Policy("critical") = [from |-> 100, ratio |-> 0]
    BY DEF Policy
  <1>2. ShedProbability("critical", load) = 0
    BY <1>1 DEF Divides, ShedProbability
  <1>3. PICK rising \in BOOLEAN, above \in BOOLEAN, discount \in {1, 2} :
            p = Adapted(0, rising, above) \div discount
    BY <1>2 DEF Probabilities
  <1>4. (0 * 3) \div 2 = 0 /\ (0 * 6) \div 5 = 0 /\ AtMost1000(0) = 0
    BY DEF AtMost1000
  <1>5. Adapted(0, rising, above) = 0
    BY <1>4 DEF Adapted
  <1> QED BY <1>3, <1>5

LEMMA AnswerKeepsTheEpisode ==
    ASSUME LoadTypeOK, EpisodeLasts, NEW priority \in Priorities, NEW load \in Loads,
           NEW shed \in BOOLEAN, ShouldAcceptRequest(priority, load, shed)
    PROVE  (LoadTypeOK /\ EpisodeLasts)'
  <1> USE DEF LoadTypeOK, EpisodeLasts, Many
  <1>1. overloads' \in 0 .. Many
    BY DEF ShouldAcceptRequest, CountsOverload
  <1>2. /\ decision' = [priority |-> priority, answer |-> IF shed THEN "shed" ELSE "accept"]
        /\ level' = level /\ recommended' = recommended /\ sinceAsked' = sinceAsked
    BY DEF ShouldAcceptRequest
  <1>3. /\ sheddingActive' \in BOOLEAN /\ sinceShed' \in 0 .. Quiet + 1
        /\ sinceShed' < Quiet => sheddingActive'
    <2>1. Quiet \in Nat
      OBVIOUS
    <2>2. CASE shed
      <3>1. sheddingActive' = TRUE /\ sinceShed' = 0
        BY <2>2 DEF ShouldAcceptRequest, ShedState
      <3>2. 0 \in 0 .. Quiet + 1
        BY <2>1
      <3> QED BY <3>1, <3>2
    <2>3. CASE ~shed
      <3>1. sheddingActive' = (sheddingActive /\ sinceShed <= Quiet) /\ sinceShed' = sinceShed
        BY <2>3 DEF ShouldAcceptRequest, ShedState
      <3>2. sheddingActive' \in BOOLEAN /\ (sheddingActive /\ sinceShed <= Quiet => sheddingActive')
        BY <3>1
      <3> QED BY <2>1, <3>1, <3>2
    <2> QED BY <2>2, <2>3
  <1>4. /\ decision' \in [priority : Priorities, answer : {"none", "accept", "shed", "raise"}]
        /\ decision'.answer # "raise"
    BY <1>2
  <1> QED BY <1>1, <1>2, <1>3, <1>4

LEMMA EpisodeIsInductive ==
    /\ LoadInit => LoadTypeOK /\ EpisodeLasts
    /\ LoadTypeOK /\ EpisodeLasts /\ [LoadNext]_loadVars => (LoadTypeOK /\ EpisodeLasts)'
  <1>1. LoadInit => LoadTypeOK /\ EpisodeLasts
    <2>1. Quiet \in Nat /\ Cooldown \in Nat
      OBVIOUS
    <2>2. 0 \in 0 .. Many /\ Quiet + 1 \in 0 .. Quiet + 1 /\ Cooldown \in 0 .. Cooldown
      BY <2>1 DEF Many
    <2>3. NoDecision \in [priority : Priorities, answer : {"none", "accept", "shed", "raise"}]
      BY DEF NoDecision, Priorities
    <2>4. NoDecision.answer # "raise" /\ "LOW" \in Levels /\ "none" \in Actions
      BY DEF NoDecision, Levels, Actions
    <2>5. ~(Quiet + 1 < Quiet)
      BY <2>1
    <2> HIDE DEF OverloadAssumption
    <2> QED BY <2>2, <2>3, <2>4, <2>5 DEF LoadInit, LoadTypeOK, EpisodeLasts
  <1> SUFFICES ASSUME LoadTypeOK, EpisodeLasts, [LoadNext]_loadVars
               PROVE  (LoadTypeOK /\ EpisodeLasts)'
    BY <1>1
  <1>2. ASSUME NEW priority \in Priorities, NEW load \in Loads, ShedderRaises(priority, load)
        PROVE  (LoadTypeOK /\ EpisodeLasts)'
    <2>1. Policy(priority).from < 100 \/ priority = "critical"
      BY DEF Policy, Priorities
    <2>2. priority = "critical"
      BY <2>1, <1>2 DEF ShedderRaises, Divides
    <2> QED BY <1>2, <2>2 DEF ShedderRaises, LoadTypeOK, EpisodeLasts, Many
  <1>3. CASE AcceptHighValue
    BY <1>3 DEF AcceptHighValue, LoadTypeOK, EpisodeLasts, Many, Priorities
  <1>4. ASSUME NEW l \in Levels, UpdateMetrics(l) PROVE (LoadTypeOK /\ EpisodeLasts)'
    BY <1>4 DEF UpdateMetrics, LoadTypeOK, EpisodeLasts, Many
  <1>5. CASE AskRecommendation
    <2>1. PICK action \in Actions : GetScalingRecommendation(action)
      BY <1>5 DEF AskRecommendation, ScalingAction, Actions
    <2> QED BY <2>1 DEF GetScalingRecommendation, Recommend, LoadTypeOK, EpisodeLasts, Many
  <1>6. CASE LoadTick
    BY <1>6 DEF LoadTick, LoadTypeOK, EpisodeLasts, Many
  <1>7. CASE UNCHANGED loadVars
    BY <1>7 DEF loadVars, LoadTypeOK, EpisodeLasts, Many
  <1> QED BY AnswerKeepsTheEpisode, <1>2, <1>3, <1>4, <1>5, <1>6, <1>7 DEF LoadNext

LEMMA CriticalIsLastStep ==
    ASSUME LoadTypeOK, [LoadNext]_loadVars, decision' # decision,
           decision'.priority = "critical", decision'.answer = "shed"
    PROVE  overloads > 5
  <1>1. PICK priority \in Priorities, load \in Loads, shed \in BOOLEAN :
            ShouldAcceptRequest(priority, load, shed)
    BY DEF LoadNext, loadVars, ShedderRaises, AcceptHighValue, UpdateMetrics,
           AskRecommendation, GetScalingRecommendation, LoadTick
  <1>2. priority = "critical" /\ shed
    BY <1>1 DEF ShouldAcceptRequest
  <1>3. PICK p \in Probabilities("critical", load) : p > 0
    BY <1>1, <1>2 DEF ShouldAcceptRequest
  <1> QED BY <1>1, <1>2, <1>3, CriticalProbabilities DEF ShouldAcceptRequest

\* For any loads and times: an episode of shedding is not cut short, and a critical
\* request is shed only after more than five overloads in a row.
THEOREM CriticalGoesLast == LoadSpec => [](LoadTypeOK /\ EpisodeLasts) /\ CriticalIsLast
  <1>1. LoadTypeOK /\ [LoadNext]_loadVars
            => [decision' # decision /\ decision'.priority = "critical"
                    /\ decision'.answer = "shed" => overloads > 5]_loadVars
    BY CriticalIsLastStep
  <1> QED BY EpisodeIsInductive, <1>1, PTL DEF LoadSpec, CriticalIsLast

HIDE OverloadAssumption DEF OverloadAssumption

-------------------------------------------------------------------------------
(* The threshold monitor.                                                      *)

USE ThresholdAssumption DEF ThresholdAssumption

CheckStages == {"idle", "value", "alert", "save"}

\* An asker has one check made at a time.
OneCheckEach ==
    \A a \in Askers : \A j, k \in Jobs :
        checks[a][j] # "idle" /\ checks[a][k] # "idle" => j = k

\* The types, without a count.
MonitorTypes ==
    /\ jobState \in [Jobs -> {"new", "adding", "active", "removing", "removed"}]
    /\ tierJobs = {j \in Jobs : InTables(j)}
    /\ isRunning \subseteq Jobs
    /\ \A j \in isRunning : InFlight(j)
    /\ checks \in [Checkers -> [Jobs -> CheckStages]]
    /\ OneCheckEach
    /\ sinceCheck \in [Jobs -> 0 .. CheckInterval]
    /\ sinceAlert \in [Jobs -> 0 .. AlertCooldown]
    /\ savedJobs \subseteq Jobs
    /\ excused \subseteq Jobs
    /\ alertsAt \in [Jobs -> [1 .. AlertCooldown -> Nat]]

Alerting(j) == {w \in Checkers : checks[w][j] = "alert"}

\* The alerts of the last ticks are under way, all of them, when the cooldown is over,
\* and none has begun since it started.
CountsOf(j) ==
    \A t \in 1 .. AlertCooldown :
        /\ alertsAt[j][t] <= Cardinality(Checkers)
        /\ sinceAlert[j] = AlertCooldown => alertsAt[j][t] <= Cardinality(Alerting(j))
        /\ t <= sinceAlert[j] /\ sinceAlert[j] < AlertCooldown => alertsAt[j][t] = 0
CooldownCounts == \A j \in Jobs : CountsOf(j)

\* A job that was not removed under a check has none from then on.
RemovedIsLeft ==
    \A j \in Jobs \ excused :
        /\ jobState[j] \in {"removing", "removed"} => ~InFlight(j)
        /\ jobState[j] = "removed" => j \notin savedJobs

ThresholdsInv == MonitorTypes /\ CooldownCounts /\ RemovedIsLeft

LEMMA CheckerCount == Cardinality(Checkers) \in Nat /\ IsFiniteSet(Checkers)
  <1>1. IsFiniteSet(Askers \cup {Loop})
    BY FS_AddElement
  <1> QED BY <1>1, FS_CardinalityType DEF Checkers

LEMMA AlertingCount ==
    ASSUME NEW j \in Jobs
    PROVE  /\ Cardinality(Alerting(j)) \in Nat
           /\ Cardinality(Alerting(j)) <= Cardinality(Checkers)
           /\ IsFiniteSet(Alerting(j))
  <1>1. Alerting(j) \subseteq Checkers
    BY DEF Alerting
  <1> QED BY <1>1, CheckerCount, FS_Subset, FS_CardinalityType

LEMMA StepsOfATick ==
    ASSUME NEW n \in Nat, NEW top \in Nat, n <= top
    PROVE  /\ Min({n + 1, top}) \in 0 .. top
           /\ n < top => Min({n + 1, top}) = n + 1
           /\ n = top => Min({n + 1, top}) = top
  BY LeastOfTwo

\* What moving one check does to all of them.
LEMMA CheckMoves ==
    ASSUME checks \in [Checkers -> [Jobs -> CheckStages]],
           NEW w \in Checkers, NEW j \in Jobs, NEW stage \in CheckStages,
           checks' = [checks EXCEPT ![w][j] = stage]
    PROVE  /\ checks' \in [Checkers -> [Jobs -> CheckStages]]
           /\ \A v \in Checkers, k \in Jobs :
                 checks'[v][k] = IF v = w /\ k = j THEN stage ELSE checks[v][k]
  <1> DEFINE row == [checks[w] EXCEPT ![j] = stage]
  <1>1. row \in [Jobs -> CheckStages] /\ \A k \in Jobs : row[k] = IF k = j THEN stage ELSE checks[w][k]
    OBVIOUS
  <1>2. checks' = [checks EXCEPT ![w] = row]
    OBVIOUS
  <1> HIDE DEF row
  <1> QED BY <1>1, <1>2

\* What a round of a loop does to them.
LEMMA RoundBegins ==
    ASSUME MonitorTypes, NEW tier \in {"real_time", "periodic"}, LoopRound(tier)
    PROVE  /\ checks' \in [Checkers -> [Jobs -> CheckStages]]
           /\ \A v \in Checkers, k \in Jobs :
                 checks'[v][k] = IF v = Loop /\ k \in DueIn(tier) THEN "value" ELSE checks[v][k]
           /\ \A k \in DueIn(tier) : k \in Jobs /\ checks[Loop][k] = "idle" /\ InTables(k)
  <1> DEFINE row == [j \in Jobs |-> IF j \in DueIn(tier) THEN "value" ELSE checks[Loop][j]]
  <1> Loop \in Checkers
    BY DEF Checkers
  <1>1. checks' = [checks EXCEPT ![Loop] = row]
    BY DEF LoopRound
  <1>2. checks \in [Checkers -> [Jobs -> CheckStages]] /\ tierJobs = {j \in Jobs : InTables(j)}
    BY DEF MonitorTypes
  <1>3. row \in [Jobs -> CheckStages]
    BY <1>2 DEF CheckStages
  <1>4. \A k \in DueIn(tier) : k \in Jobs /\ checks[Loop][k] = "idle" /\ InTables(k)
    BY <1>2 DEF LoopRound, DueIn
  <1>5. \A k \in Jobs : row[k] = IF k \in DueIn(tier) THEN "value" ELSE checks[Loop][k]
    OBVIOUS
  <1> HIDE DEF row
  <1> QED BY <1>1, <1>2, <1>3, <1>4, <1>5

\* A check that moves leaves running jobs with a check, and every asker with one at most.
LEMMA MovesKeepTypes ==
    ASSUME MonitorTypes, NEW w \in Checkers, NEW j \in Jobs, NEW stage \in CheckStages,
           checks' = [checks EXCEPT ![w][j] = stage],
           IF stage = "idle" THEN isRunning' = isRunning \ {j}
           ELSE isRunning' = isRunning \/ isRunning' = isRunning \cup {j},
           \/ stage = "idle" \/ checks[w][j] # "idle"
           \/ w \in Askers /\ \A k \in Jobs : checks[w][k] = "idle"
    PROVE  /\ checks' \in [Checkers -> [Jobs -> CheckStages]]
           /\ isRunning' \subseteq Jobs
           /\ \A k \in isRunning' : InFlight(k)'
           /\ OneCheckEach'
  <1>1. /\ isRunning \subseteq Jobs
        /\ \A k \in isRunning : InFlight(k)
        /\ checks \in [Checkers -> [Jobs -> CheckStages]]
        /\ OneCheckEach
    BY DEF MonitorTypes
  <1>2. /\ checks' \in [Checkers -> [Jobs -> CheckStages]]
        /\ \A v \in Checkers, k \in Jobs :
              checks'[v][k] = IF v = w /\ k = j THEN stage ELSE checks[v][k]
    BY <1>1, CheckMoves
  <1>3. ASSUME NEW k \in isRunning' PROVE InFlight(k)'
    <2>1. CASE k = j /\ stage # "idle"
      BY <2>1, <1>2 DEF InFlight
    <2>2. CASE k # j
      <3>1. PICK v \in Checkers : checks[v][k] # "idle"
        BY <1>1, <1>3, <2>2 DEF InFlight
      <3>2. checks'[v][k] = checks[v][k]
        BY <1>1, <1>2, <1>3, <2>2
      <3> QED BY <3>1, <3>2 DEF InFlight
    <2>3. CASE k = j /\ stage = "idle"
      BY <2>3, <1>3
    <2> QED BY <2>1, <2>2, <2>3
  <1>4. OneCheckEach'
    <2> SUFFICES ASSUME NEW a \in Askers, NEW k \in Jobs, NEW l \in Jobs,
                        checks'[a][k] # "idle", checks'[a][l] # "idle"
                 PROVE  k = l
      BY DEF OneCheckEach
    <2>1. a \in Checkers
      BY DEF Checkers
    <2>2. checks[a][k] # "idle" /\ checks[a][l] # "idle" => k = l
      BY <1>1 DEF OneCheckEach
    <2> QED BY <1>2, <2>1, <2>2
  <1> QED BY <1>1, <1>2, <1>3, <1>4

LEMMA MonitorTypesInit == ThresholdsInit => MonitorTypes
  <1> SUFFICES ASSUME ThresholdsInit PROVE MonitorTypes
    OBVIOUS
  <1>1. CheckInterval \in 0 .. CheckInterval /\ AlertCooldown \in 0 .. AlertCooldown
    OBVIOUS
  <1>2. checks \in [Checkers -> [Jobs -> CheckStages]]
    BY DEF ThresholdsInit, CheckStages
  <1>3. \A a \in Askers : a \in Checkers
    BY DEF Checkers
  <1>4. OneCheckEach
    BY <1>3 DEF ThresholdsInit, OneCheckEach
  <1>5. alertsAt \in [Jobs -> [1 .. AlertCooldown -> Nat]]
    BY DEF ThresholdsInit
  <1> QED BY <1>1, <1>2, <1>4, <1>5 DEF ThresholdsInit, MonitorTypes, InTables

LEMMA MonitorTypesStep ==
    ASSUME MonitorTypes, [ThresholdsNext]_thresholdVars
    PROVE  MonitorTypes'
  <1>0. /\ jobState \in [Jobs -> {"new", "adding", "active", "removing", "removed"}]
        /\ tierJobs = {j \in Jobs : InTables(j)}
        /\ sinceCheck \in [Jobs -> 0 .. CheckInterval]
        /\ sinceAlert \in [Jobs -> 0 .. AlertCooldown]
        /\ savedJobs \subseteq Jobs
        /\ excused \subseteq Jobs
        /\ alertsAt \in [Jobs -> [1 .. AlertCooldown -> Nat]]
    BY DEF MonitorTypes
  <1>1. CASE ThresholdTick
    <2>1. sinceCheck' \in [Jobs -> 0 .. CheckInterval]
      <3>1. ASSUME NEW j \in Jobs PROVE Min({sinceCheck[j] + 1, CheckInterval}) \in 0 .. CheckInterval
        <4> DEFINE n == sinceCheck[j]
        <4>1. n \in Nat /\ n <= CheckInterval /\ CheckInterval \in Nat
          BY <1>0
        <4> HIDE DEF n
        <4> QED BY <4>1, StepsOfATick DEF n
      <3>2. sinceCheck' = [j \in Jobs |-> Min({sinceCheck[j] + 1, CheckInterval})]
        BY <1>1 DEF ThresholdTick
      <3> QED BY <3>1, <3>2
    <2>2. sinceAlert' \in [Jobs -> 0 .. AlertCooldown]
      <3>1. ASSUME NEW j \in Jobs PROVE Min({sinceAlert[j] + 1, AlertCooldown}) \in 0 .. AlertCooldown
        <4> DEFINE n == sinceAlert[j]
        <4>1. n \in Nat /\ n <= AlertCooldown /\ AlertCooldown \in Nat
          BY <1>0
        <4> HIDE DEF n
        <4> QED BY <4>1, StepsOfATick DEF n
      <3>2. sinceAlert' = [j \in Jobs |-> Min({sinceAlert[j] + 1, AlertCooldown})]
        BY <1>1 DEF ThresholdTick
      <3> QED BY <3>1, <3>2
    <2>3. alertsAt' \in [Jobs -> [1 .. AlertCooldown -> Nat]]
      <3>1. ASSUME NEW j \in Jobs, NEW t \in 1 .. AlertCooldown
            PROVE  (IF t = 1 THEN 0 ELSE alertsAt[j][t - 1]) \in Nat
        <4>1. alertsAt[j] \in [1 .. AlertCooldown -> Nat]
          BY <1>0
        <4>2. t # 1 => t - 1 \in 1 .. AlertCooldown
          OBVIOUS
        <4> QED BY <4>1, <4>2
      <3>2. alertsAt' = [j \in Jobs |-> [t \in 1 .. AlertCooldown |->
                            IF t = 1 THEN 0 ELSE alertsAt[j][t - 1]]]
        BY <1>1 DEF ThresholdTick
      <3> QED BY <3>1, <3>2
    <2> QED BY <1>1, <2>1, <2>2, <2>3 DEF ThresholdTick, MonitorTypes, InTables, InFlight, OneCheckEach
  <1>2. ASSUME NEW j \in Jobs, \/ AddThreshold(j) \/ RemoveThreshold(j)
                               \/ \E fails \in BOOLEAN : Added(j, fails) \/ Removed(j, fails)
        PROVE  MonitorTypes'
    <2>1. UNCHANGED checkVars
      BY <1>2 DEF AddThreshold, RemoveThreshold, Added, Removed
    <2>2. PICK s \in {"adding", "active", "removing", "removed"} :
              jobState' = [jobState EXCEPT ![j] = s]
      BY <1>2 DEF AddThreshold, RemoveThreshold, Added, Removed
    <2>3. jobState' \in [Jobs -> {"new", "adding", "active", "removing", "removed"}]
      BY <1>0, <2>2
    <2>4. savedJobs' \subseteq Jobs /\ excused' \subseteq Jobs
      BY <1>0, <1>2 DEF AddThreshold, RemoveThreshold, Added, Removed
    <2>5. tierJobs' = {k \in Jobs : InTables(k)'}
      BY <1>0, <1>2 DEF AddThreshold, RemoveThreshold, Added, Removed, DropFromTiers, InTables
    <2> QED BY <2>1, <2>3, <2>4, <2>5 DEF checkVars, MonitorTypes, InFlight, OneCheckEach
  <1>3. ASSUME NEW j \in Jobs, NEW a \in Askers, CheckOnDemand(a, j) PROVE MonitorTypes'
    <2>1. a \in Checkers /\ "value" \in CheckStages /\ "value" # "idle"
      BY DEF Checkers, CheckStages
    <2>2. /\ checks' = [checks EXCEPT ![a][j] = "value"] /\ isRunning' = isRunning \cup {j}
          /\ \A k \in Jobs : checks[a][k] = "idle"
          /\ UNCHANGED <<jobState, tierJobs, excused, sinceCheck, sinceAlert, savedJobs, alertsAt>>
      BY <1>3 DEF CheckOnDemand, jobVars
    <2>3. /\ checks' \in [Checkers -> [Jobs -> CheckStages]]
          /\ isRunning' \subseteq Jobs
          /\ \A k \in isRunning' : InFlight(k)'
          /\ OneCheckEach'
      BY <2>1, <2>2, MovesKeepTypes
    <2> QED BY <1>0, <2>2, <2>3 DEF MonitorTypes, InTables
  <1>4. ASSUME NEW j \in Jobs, NEW w \in Checkers, NEW seen \in {"nothing", "calm", "breach"},
               ValueArrives(w, j, seen)
        PROVE  MonitorTypes'
    <2>1. /\ checks[w][j] # "idle"
          /\ UNCHANGED <<jobState, tierJobs, excused, sinceAlert, savedJobs>>
      BY <1>4 DEF ValueArrives, jobVars
    <2>2. \/ /\ checks' = [checks EXCEPT ![w][j] = "alert"] /\ isRunning' = isRunning
          \/ /\ checks' = [checks EXCEPT ![w][j] = "idle"] /\ isRunning' = isRunning \ {j}
      BY <1>4 DEF ValueArrives, EndCheck
    <2>3. /\ checks' \in [Checkers -> [Jobs -> CheckStages]]
          /\ isRunning' \subseteq Jobs
          /\ \A k \in isRunning' : InFlight(k)'
          /\ OneCheckEach'
      <3>1. "alert" \in CheckStages /\ "idle" \in CheckStages /\ "alert" # "idle"
        BY DEF CheckStages
      <3> QED BY <2>1, <2>2, <3>1, MovesKeepTypes
    <2>4. sinceCheck' \in [Jobs -> 0 .. CheckInterval]
      BY <1>0, <1>4 DEF ValueArrives
    <2>5. alertsAt' \in [Jobs -> [1 .. AlertCooldown -> Nat]]
      <3>1. [t \in 1 .. AlertCooldown |-> alertsAt[j][t] + 1] \in [1 .. AlertCooldown -> Nat]
        BY <1>0
      <3>2. \/ UNCHANGED alertsAt
            \/ alertsAt' = [alertsAt EXCEPT ![j] = [t \in 1 .. AlertCooldown |-> alertsAt[j][t] + 1]]
        BY <1>4 DEF ValueArrives
      <3> QED BY <1>0, <3>1, <3>2
    <2> QED BY <1>0, <2>1, <2>3, <2>4, <2>5 DEF MonitorTypes, InTables
  <1>5. ASSUME NEW j \in Jobs, NEW w \in Checkers, AlertSent(w, j) PROVE MonitorTypes'
    <2>1. /\ checks' = [checks EXCEPT ![w][j] = "save"] /\ isRunning' = isRunning
          /\ checks[w][j] # "idle" /\ "save" # "idle" /\ "save" \in CheckStages
          /\ UNCHANGED <<jobState, tierJobs, excused, sinceCheck, savedJobs, alertsAt>>
      BY <1>5 DEF AlertSent, jobVars, CheckStages
    <2>2. /\ checks' \in [Checkers -> [Jobs -> CheckStages]]
          /\ isRunning' \subseteq Jobs
          /\ \A k \in isRunning' : InFlight(k)'
          /\ OneCheckEach'
      BY <2>1, MovesKeepTypes
    <2>3. sinceAlert' \in [Jobs -> 0 .. AlertCooldown]
      BY <1>0, <1>5 DEF AlertSent, Triggered
    <2> QED BY <1>0, <2>1, <2>2, <2>3 DEF MonitorTypes, InTables
  <1>6. ASSUME NEW j \in Jobs, NEW w \in Checkers, NEW fails \in BOOLEAN, BreachSaved(w, j, fails)
        PROVE  MonitorTypes'
    <2>1. /\ checks' = [checks EXCEPT ![w][j] = "idle"] /\ isRunning' = isRunning \ {j}
          /\ "idle" \in CheckStages
          /\ UNCHANGED <<jobState, tierJobs, excused, sinceCheck, sinceAlert, alertsAt>>
      BY <1>6 DEF BreachSaved, EndCheck, jobVars, CheckStages
    <2>2. /\ checks' \in [Checkers -> [Jobs -> CheckStages]]
          /\ isRunning' \subseteq Jobs
          /\ \A k \in isRunning' : InFlight(k)'
          /\ OneCheckEach'
      BY <2>1, MovesKeepTypes
    <2>3. savedJobs' \subseteq Jobs
      BY <1>0, <1>6 DEF BreachSaved
    <2> QED BY <1>0, <2>1, <2>2, <2>3 DEF MonitorTypes, InTables
  <1>7. ASSUME NEW tier \in {"real_time", "periodic"}, LoopRound(tier) PROVE MonitorTypes'
    <2>1. /\ isRunning' = isRunning \cup DueIn(tier)
          /\ UNCHANGED <<jobState, tierJobs, excused, sinceCheck, sinceAlert, savedJobs, alertsAt>>
      BY <1>7 DEF LoopRound, jobVars
    <2>2. /\ checks' \in [Checkers -> [Jobs -> CheckStages]]
          /\ \A v \in Checkers, k \in Jobs :
                checks'[v][k] = IF v = Loop /\ k \in DueIn(tier) THEN "value" ELSE checks[v][k]
          /\ \A k \in DueIn(tier) : k \in Jobs
      BY <1>7, RoundBegins
    <2>3. \A k \in isRunning' : InFlight(k)'
      <3> SUFFICES ASSUME NEW k \in isRunning' PROVE InFlight(k)'
        OBVIOUS
      <3>1. CASE k \in DueIn(tier)
        BY <3>1, <2>2 DEF InFlight, Checkers
      <3>2. CASE k \notin DueIn(tier)
        <4>1. PICK v \in Checkers : checks[v][k] # "idle"
          BY <2>1, <3>2 DEF InFlight, MonitorTypes
        <4>2. k \in Jobs
          BY <2>1, <3>2 DEF MonitorTypes
        <4> QED BY <3>2, <4>1, <4>2, <2>2 DEF InFlight
      <3> QED BY <3>1, <3>2
    <2>4. OneCheckEach'
      <3>1. \A a \in Askers : a \in Checkers /\ a # Loop
        BY DEF Checkers
      <3> QED BY <2>2, <3>1 DEF OneCheckEach, MonitorTypes
    <2> QED BY <1>0, <2>1, <2>2, <2>3, <2>4 DEF MonitorTypes, InTables
  <1>8. CASE UNCHANGED thresholdVars
    BY <1>8 DEF thresholdVars, MonitorTypes, InTables, InFlight, OneCheckEach
  <1> QED
    BY <1>1, <1>2, <1>3, <1>4, <1>5, <1>6, <1>7, <1>8 DEF ThresholdsNext, CheckStep

LEMMA CountsInit == ThresholdsInit => CooldownCounts
  <1> SUFFICES ASSUME ThresholdsInit, NEW j \in Jobs, NEW t \in 1 .. AlertCooldown
               PROVE  /\ alertsAt[j][t] = 0 /\ 0 <= Cardinality(Checkers)
                      /\ 0 <= Cardinality(Alerting(j))
    BY DEF CooldownCounts, CountsOf
  <1> QED BY CheckerCount, AlertingCount DEF ThresholdsInit

\* A job whose alerts, clock and checks under an alert stay keeps its counts.
LEMMA CountsStay ==
    ASSUME NEW j \in Jobs, CountsOf(j),
           alertsAt'[j] = alertsAt[j], sinceAlert'[j] = sinceAlert[j],
           \A w \in Checkers : (checks'[w][j] = "alert") = (checks[w][j] = "alert")
    PROVE  CountsOf(j)'
  <1>1. Alerting(j)' = Alerting(j)
    BY DEF Alerting
  <1> QED BY <1>1 DEF CountsOf

\* Time takes the oldest alerts out of the count, and all of them when the cooldown ends.
LEMMA CountsTick ==
    ASSUME MonitorTypes, NEW j \in Jobs, CountsOf(j), ThresholdTick
    PROVE  CountsOf(j)'
  <1> DEFINE since == sinceAlert[j]  ats == alertsAt[j]
             n == Cardinality(Alerting(j))  c == Cardinality(Checkers)
  <1>1. since \in Nat /\ since <= AlertCooldown /\ ats \in [1 .. AlertCooldown -> Nat]
    BY DEF MonitorTypes
  <1>2. sinceAlert'[j] = Min({since + 1, AlertCooldown})
    BY DEF ThresholdTick
  <1>3. \A t \in 1 .. AlertCooldown : alertsAt'[j][t] = IF t = 1 THEN 0 ELSE ats[t - 1]
    BY DEF ThresholdTick
  <1>4. Alerting(j)' = Alerting(j)
    BY DEF ThresholdTick, Alerting
  <1>5. \A t \in 1 .. AlertCooldown :
            /\ ats[t] <= c
            /\ since = AlertCooldown => ats[t] <= n
            /\ t <= since /\ since < AlertCooldown => ats[t] = 0
    BY DEF CountsOf
  <1>6. n \in Nat /\ c \in Nat
    BY CheckerCount, AlertingCount
  <1>7. /\ Min({since + 1, AlertCooldown}) \in 0 .. AlertCooldown
        /\ since < AlertCooldown => Min({since + 1, AlertCooldown}) = since + 1
        /\ since = AlertCooldown => Min({since + 1, AlertCooldown}) = AlertCooldown
    <2> HIDE DEF since
    <2> QED BY <1>1, StepsOfATick
  <1> SUFFICES ASSUME NEW t \in 1 .. AlertCooldown
               PROVE  /\ alertsAt'[j][t] <= c
                      /\ sinceAlert'[j] = AlertCooldown => alertsAt'[j][t] <= n
                      /\ t <= sinceAlert'[j] /\ sinceAlert'[j] < AlertCooldown => alertsAt'[j][t] = 0
    BY <1>4 DEF CountsOf
  <1> HIDE DEF since, ats, n, c
  <1>8. CASE t = 1
    BY <1>3, <1>6, <1>8
  <1>9. CASE t # 1
    <2>1. t - 1 \in 1 .. AlertCooldown /\ alertsAt'[j][t] = ats[t - 1]
      BY <1>3, <1>9
    <2>2. ats[t - 1] \in Nat
      BY <1>1, <2>1
    <2> QED BY <1>1, <1>2, <1>5, <1>6, <1>7, <2>1, <2>2
  <1> QED BY <1>8, <1>9

\* An alert that begins is one more that is under way.
LEMMA CountsAlert ==
    ASSUME MonitorTypes, NEW j \in Jobs, CountsOf(j), NEW w \in Checkers,
           checks[w][j] = "value", checks' = [checks EXCEPT ![w][j] = "alert"],
           sinceAlert[j] = AlertCooldown, sinceAlert' = sinceAlert,
           alertsAt' = [alertsAt EXCEPT ![j] = [t \in 1 .. AlertCooldown |-> @[t] + 1]]
    PROVE  CountsOf(j)'
  <1> DEFINE n == Cardinality(Alerting(j))  c == Cardinality(Checkers)
             m == Cardinality(Alerting(j) \cup {w})
  <1>1. /\ checks \in [Checkers -> [Jobs -> CheckStages]]
        /\ alertsAt \in [Jobs -> [1 .. AlertCooldown -> Nat]]
    BY DEF MonitorTypes
  <1>2. \A v \in Checkers : checks'[v][j] = IF v = w THEN "alert" ELSE checks[v][j]
    BY <1>1, CheckMoves DEF CheckStages
  <1>3. Alerting(j)' = Alerting(j) \cup {w} /\ w \notin Alerting(j)
    BY <1>2 DEF Alerting
  <1>4. Alerting(j) \cup {w} \subseteq Checkers
    BY DEF Alerting
  <1>5. m = n + 1 /\ n \in Nat
    BY <1>3, AlertingCount, FS_AddElement
  <1>6. m <= c /\ c \in Nat
    BY <1>4, CheckerCount, FS_Subset
  <1>7. \A t \in 1 .. AlertCooldown :
            /\ alertsAt[j][t] \in Nat /\ alertsAt[j][t] <= n
            /\ alertsAt'[j][t] = alertsAt[j][t] + 1
    BY <1>1 DEF CountsOf
  <1> SUFFICES ASSUME NEW t \in 1 .. AlertCooldown
               PROVE  alertsAt'[j][t] <= c /\ alertsAt'[j][t] <= m
    <2>1. ~(sinceAlert'[j] < AlertCooldown)
      OBVIOUS
    <2>2. Cardinality(Alerting(j)') = m
      BY <1>3
    <2> HIDE DEF m
    <2> QED BY <2>1, <2>2 DEF CountsOf
  <1> HIDE DEF n, c, m
  <1> QED BY <1>5, <1>6, <1>7

\* One that was sent starts the cooldown, and those that overlap were counted.
LEMMA CountsSent ==
    ASSUME MonitorTypes, NEW j \in Jobs, CountsOf(j), NEW w \in Checkers, AlertSent(w, j)
    PROVE  CountsOf(j)'
  <1>1. sinceAlert'[j] = 0 /\ alertsAt' = alertsAt
    BY DEF AlertSent, Triggered, MonitorTypes
  <1>2. 0 < AlertCooldown
    OBVIOUS
  <1> QED BY <1>1, <1>2 DEF CountsOf

LEMMA CountsStep ==
    ASSUME MonitorTypes, CooldownCounts, [ThresholdsNext]_thresholdVars
    PROVE  CooldownCounts'
  <1> SUFFICES ASSUME NEW j \in Jobs PROVE CountsOf(j)'
    BY DEF CooldownCounts
  <1>0. /\ CountsOf(j)
        /\ checks \in [Checkers -> [Jobs -> CheckStages]]
        /\ sinceAlert \in [Jobs -> 0 .. AlertCooldown]
        /\ alertsAt \in [Jobs -> [1 .. AlertCooldown -> Nat]]
    BY DEF CooldownCounts, MonitorTypes
  <1>1. CASE ThresholdTick
    BY <1>0, <1>1, CountsTick
  <1>2. ASSUME NEW w \in Checkers, NEW k \in Jobs, NEW stage \in CheckStages,
               checks[w][k] # "alert", stage # "alert",
               checks' = [checks EXCEPT ![w][k] = stage], UNCHANGED <<sinceAlert, alertsAt>>
        PROVE  CountsOf(j)'
    <2>1. \A v \in Checkers : (checks'[v][j] = "alert") = (checks[v][j] = "alert")
      BY <1>0, <1>2, CheckMoves
    <2> QED BY <1>0, <1>2, <2>1, CountsStay
  <1>3. ASSUME NEW k \in Jobs, NEW a \in Askers, CheckOnDemand(a, k) PROVE CountsOf(j)'
    <2>1. /\ a \in Checkers /\ "value" \in CheckStages /\ checks[a][k] # "alert"
          /\ checks' = [checks EXCEPT ![a][k] = "value"] /\ UNCHANGED <<sinceAlert, alertsAt>>
      BY <1>3 DEF CheckOnDemand, Checkers, CheckStages
    <2> QED BY <2>1, <1>2
  <1>4. ASSUME NEW w \in Checkers, NEW k \in Jobs, NEW seen \in {"nothing", "calm", "breach"},
               ValueArrives(w, k, seen)
        PROVE  CountsOf(j)'
    <2>1. CASE seen = "breach" /\ sinceAlert[k] = AlertCooldown
      <3>1. /\ checks[w][k] = "value" /\ checks' = [checks EXCEPT ![w][k] = "alert"]
            /\ sinceAlert' = sinceAlert
            /\ alertsAt' = [alertsAt EXCEPT ![k] = [t \in 1 .. AlertCooldown |-> @[t] + 1]]
        BY <1>4, <2>1 DEF ValueArrives
      <3>2. CASE k = j
        BY <1>0, <2>1, <3>1, <3>2, CountsAlert
      <3>3. CASE k # j
        <4>1. \A v \in Checkers : checks'[v][j] = checks[v][j]
          BY <1>0, <3>1, <3>3, CheckMoves DEF CheckStages
        <4>2. alertsAt'[j] = alertsAt[j]
          BY <1>0, <3>1, <3>3
        <4> QED BY <1>0, <3>1, <4>1, <4>2, CountsStay
      <3> QED BY <3>2, <3>3
    <2>2. CASE ~(seen = "breach" /\ sinceAlert[k] = AlertCooldown)
      <3>1. /\ checks[w][k] # "alert" /\ checks' = [checks EXCEPT ![w][k] = "idle"]
            /\ UNCHANGED <<sinceAlert, alertsAt>> /\ "idle" \in CheckStages
        BY <1>4, <2>2 DEF ValueArrives, EndCheck, CheckStages
      <3> QED BY <3>1, <1>2
    <2> QED BY <2>1, <2>2
  <1>5. ASSUME NEW w \in Checkers, NEW k \in Jobs, AlertSent(w, k) PROVE CountsOf(j)'
    <2>1. CASE k = j
      BY <1>0, <1>5, <2>1, CountsSent
    <2>2. CASE k # j
      <3>1. /\ checks' = [checks EXCEPT ![w][k] = "save"] /\ "save" \in CheckStages
            /\ sinceAlert'[j] = sinceAlert[j] /\ alertsAt' = alertsAt
        BY <1>0, <1>5, <2>2 DEF AlertSent, Triggered, CheckStages
      <3>2. \A v \in Checkers : checks'[v][j] = checks[v][j]
        BY <1>0, <2>2, <3>1, CheckMoves
      <3> QED BY <1>0, <3>1, <3>2, CountsStay
    <2> QED BY <2>1, <2>2
  <1>6. ASSUME NEW w \in Checkers, NEW k \in Jobs, NEW fails \in BOOLEAN, BreachSaved(w, k, fails)
        PROVE  CountsOf(j)'
    <2>1. /\ checks[w][k] # "alert" /\ checks' = [checks EXCEPT ![w][k] = "idle"]
          /\ UNCHANGED <<sinceAlert, alertsAt>> /\ "idle" \in CheckStages
      BY <1>6 DEF BreachSaved, EndCheck, CheckStages
    <2> QED BY <2>1, <1>2
  <1>7. ASSUME NEW tier \in {"real_time", "periodic"}, LoopRound(tier) PROVE CountsOf(j)'
    <2>1. UNCHANGED <<sinceAlert, alertsAt>>
      BY <1>7 DEF LoopRound
    <2>2. \A v \in Checkers : (checks'[v][j] = "alert") = (checks[v][j] = "alert")
      BY <1>7, RoundBegins
    <2> QED BY <1>0, <2>1, <2>2, CountsStay
  <1>8. ASSUME UNCHANGED checkVars PROVE CountsOf(j)'
    BY <1>0, <1>8, CountsStay DEF checkVars
  <1>9. UNCHANGED thresholdVars => UNCHANGED checkVars
    BY DEF thresholdVars, checkVars
  <1>10. ASSUME NEW k \in Jobs, \/ AddThreshold(k) \/ RemoveThreshold(k)
                                \/ \E fails \in BOOLEAN : Added(k, fails) \/ Removed(k, fails)
         PROVE  UNCHANGED checkVars
    BY <1>10 DEF AddThreshold, RemoveThreshold, Added, Removed
  <1> QED
    BY <1>1, <1>3, <1>4, <1>5, <1>6, <1>7, <1>8, <1>9, <1>10 DEF ThresholdsNext, CheckStep

LEMMA RemovedStep ==
    ASSUME MonitorTypes, RemovedIsLeft, [ThresholdsNext]_thresholdVars
    PROVE  RemovedIsLeft'
  <1> SUFFICES ASSUME NEW j \in Jobs, j \notin excused'
               PROVE  /\ jobState'[j] \in {"removing", "removed"} => ~InFlight(j)'
                      /\ jobState'[j] = "removed" => j \notin savedJobs'
    BY DEF RemovedIsLeft
  <1>0. /\ jobState \in [Jobs -> {"new", "adding", "active", "removing", "removed"}]
        /\ checks \in [Checkers -> [Jobs -> CheckStages]]
    BY DEF MonitorTypes
  <1>1. ASSUME j \notin excused
        PROVE  /\ jobState[j] \in {"removing", "removed"} =>
                    ~InFlight(j) /\ \A w \in Checkers : checks[w][j] = "idle"
               /\ jobState[j] = "removed" => j \notin savedJobs
    BY <1>1 DEF RemovedIsLeft, InFlight
  <1>2. ASSUME UNCHANGED <<jobState, checks, savedJobs, excused>>
        PROVE  /\ jobState'[j] \in {"removing", "removed"} => ~InFlight(j)'
               /\ jobState'[j] = "removed" => j \notin savedJobs'
    BY <1>1, <1>2 DEF InFlight
  <1>3. ASSUME NEW k \in Jobs, \/ AddThreshold(k) \/ RemoveThreshold(k)
                               \/ \E fails \in BOOLEAN : Added(k, fails) \/ Removed(k, fails)
        PROVE  /\ jobState'[j] \in {"removing", "removed"} => ~InFlight(j)'
               /\ jobState'[j] = "removed" => j \notin savedJobs'
    <2>1. checks' = checks /\ InFlight(j)' = InFlight(j) /\ excused \subseteq excused'
      BY <1>3 DEF AddThreshold, RemoveThreshold, Added, Removed, checkVars, InFlight
    <2>2. CASE AddThreshold(k)
      BY <1>0, <1>1, <2>1, <2>2 DEF AddThreshold
    <2>3. CASE RemoveThreshold(k)
      BY <1>0, <1>1, <2>1, <2>3 DEF RemoveThreshold
    <2>4. ASSUME NEW fails \in BOOLEAN, Added(k, fails)
          PROVE  /\ jobState'[j] \in {"removing", "removed"} => ~InFlight(j)'
                 /\ jobState'[j] = "removed" => j \notin savedJobs'
      BY <1>0, <1>1, <2>1, <2>4 DEF Added
    <2>5. ASSUME NEW fails \in BOOLEAN, Removed(k, fails)
          PROVE  /\ jobState'[j] \in {"removing", "removed"} => ~InFlight(j)'
                 /\ jobState'[j] = "removed" => j \notin savedJobs'
      BY <1>0, <1>1, <2>1, <2>5 DEF Removed
    <2> QED BY <1>3, <2>2, <2>3, <2>4, <2>5
  <1>4. ASSUME NEW w \in Checkers, NEW k \in Jobs, NEW stage \in CheckStages,
               checks' = [checks EXCEPT ![w][k] = stage], UNCHANGED <<jobState, excused>>,
               checks[w][k] # "idle" \/ InTables(k),
               savedJobs' = savedJobs \/ (savedJobs' = savedJobs \cup {k} /\ checks[w][k] # "idle")
        PROVE  /\ jobState'[j] \in {"removing", "removed"} => ~InFlight(j)'
               /\ jobState'[j] = "removed" => j \notin savedJobs'
    <2> SUFFICES ASSUME jobState[j] \in {"removing", "removed"}
                 PROVE  ~InFlight(j)' /\ (jobState[j] = "removed" => j \notin savedJobs')
      BY <1>4
    <2>1. \A v \in Checkers : checks[v][j] = "idle"
      BY <1>1, <1>4
    <2>2. k # j
      BY <1>4, <2>1 DEF InTables
    <2>3. \A v \in Checkers : checks'[v][j] = "idle"
      BY <1>0, <1>4, <2>1, <2>2, CheckMoves
    <2> QED BY <1>1, <1>4, <2>2, <2>3 DEF InFlight
  <1>5. ASSUME NEW k \in Jobs, NEW a \in Askers, CheckOnDemand(a, k)
        PROVE  /\ jobState'[j] \in {"removing", "removed"} => ~InFlight(j)'
               /\ jobState'[j] = "removed" => j \notin savedJobs'
    <2>1. /\ a \in Checkers /\ "value" \in CheckStages /\ InTables(k)
          /\ checks' = [checks EXCEPT ![a][k] = "value"]
          /\ UNCHANGED <<jobState, excused, savedJobs>>
      BY <1>5 DEF CheckOnDemand, Checkers, CheckStages, jobVars
    <2> QED BY <2>1, <1>4
  <1>6. ASSUME NEW w \in Checkers, NEW k \in Jobs, CheckStep(w, k)
        PROVE  /\ jobState'[j] \in {"removing", "removed"} => ~InFlight(j)'
               /\ jobState'[j] = "removed" => j \notin savedJobs'
    <2>1. checks[w][k] # "idle" /\ UNCHANGED <<jobState, excused>>
      BY <1>6 DEF CheckStep, ValueArrives, AlertSent, BreachSaved, jobVars
    <2>2. \E stage \in CheckStages : checks' = [checks EXCEPT ![w][k] = stage]
      BY <1>6 DEF CheckStep, ValueArrives, AlertSent, BreachSaved, EndCheck, CheckStages
    <2>3. savedJobs' = savedJobs \/ savedJobs' = savedJobs \cup {k}
      BY <1>6 DEF CheckStep, ValueArrives, AlertSent, BreachSaved
    <2> QED BY <2>1, <2>2, <2>3, <1>4
  <1>7. ASSUME NEW tier \in {"real_time", "periodic"}, LoopRound(tier)
        PROVE  /\ jobState'[j] \in {"removing", "removed"} => ~InFlight(j)'
               /\ jobState'[j] = "removed" => j \notin savedJobs'
    <2>1. UNCHANGED <<jobState, excused, savedJobs>>
      BY <1>7 DEF LoopRound, jobVars
    <2>2. jobState[j] \in {"removing", "removed"} => j \notin DueIn(tier)
      BY <1>7, RoundBegins DEF InTables
    <2> QED BY <1>1, <1>7, <2>1, <2>2, RoundBegins DEF InFlight
  <1>8. CASE ThresholdTick
    BY <1>2, <1>8 DEF ThresholdTick
  <1>9. CASE UNCHANGED thresholdVars
    BY <1>2, <1>9 DEF thresholdVars
  <1> QED BY <1>3, <1>5, <1>6, <1>7, <1>8, <1>9 DEF ThresholdsNext

\* One check of an asker at most, counted.
LEMMA CountOfOne ==
    ASSUME OneCheckEach, NEW a \in Askers
    PROVE  Cardinality({j \in Jobs : checks[a][j] # "idle"}) <= 1
  <1> DEFINE mine == {j \in Jobs : checks[a][j] # "idle"}
  <1>1. CASE mine = {}
    BY <1>1, FS_EmptySet
  <1>2. ASSUME NEW k \in mine PROVE Cardinality(mine) <= 1
    <2>1. mine = {k}
      BY <1>2 DEF OneCheckEach
    <2>2. Cardinality({k}) = 1
      BY FS_Singleton
    <2> QED BY <2>1, <2>2
  <1> QED BY <1>1, <1>2

LEMMA ThresholdsInvHolds ==
    ThresholdsInv => ThresholdsTypeOK /\ AlertsInCooldown /\ RemovedIsGone
  <1> SUFFICES ASSUME ThresholdsInv PROVE ThresholdsTypeOK /\ AlertsInCooldown /\ RemovedIsGone
    OBVIOUS
  <1> USE DEF ThresholdsInv
  <1>1. ThresholdsTypeOK
    <2>1. \A a \in Askers : Cardinality({j \in Jobs : checks[a][j] # "idle"}) <= 1
      BY CountOfOne DEF MonitorTypes
    <2> QED BY <2>1 DEF ThresholdsTypeOK, MonitorTypes, CheckStages
  <1>2. AlertsInCooldown
    <2>1. AlertCooldown \in 1 .. AlertCooldown
      OBVIOUS
    <2> QED BY <2>1 DEF AlertsInCooldown, CooldownCounts, CountsOf
  <1>3. RemovedIsGone
    BY DEF RemovedIsGone, RemovedIsLeft
  <1> QED BY <1>1, <1>2, <1>3

\* For any jobs, tiers, askers, interval and cooldown: in no stretch of the cooldown are
\* there more alerts of a job than checks can overlap, and a job that was removed
\* without a check under way is neither checked nor saved again.
THEOREM AlertsAreFew == ThresholdsSpec => [](ThresholdsTypeOK /\ AlertsInCooldown /\ RemovedIsGone)
  <1>1. ThresholdsInit => ThresholdsInv
    <2>1. ThresholdsInit => RemovedIsLeft
      BY DEF ThresholdsInit, RemovedIsLeft
    <2> QED BY <2>1, MonitorTypesInit, CountsInit DEF ThresholdsInv
  <1>2. ThresholdsInv /\ [ThresholdsNext]_thresholdVars => ThresholdsInv'
    BY MonitorTypesStep, CountsStep, RemovedStep DEF ThresholdsInv
  <1> QED BY <1>1, <1>2, ThresholdsInvHolds, PTL DEF ThresholdsSpec

HIDE ThresholdAssumption DEF ThresholdAssumption

-------------------------------------------------------------------------------
(* The health of the instances.                                                *)

USE HealthAssumption DEF HealthAssumption

\* Of a record that counts, the age is at least the time since the last heartbeat; what
\* was found and what was published is as old as its reading at most.
Heard ==
    /\ \A j \in Instances :
          heartbeatAge[j] \in 0 .. InstanceTTL - 1 => lastSeen[j] <= heartbeatAge[j]
    /\ \A i \in Instances : \A j \in found[i] : lastSeen[j] < InstanceTTL + sinceStep[i]
    /\ \A j \in aggregate : lastSeen[j] < InstanceTTL + BeatTime + aggregateAge

HealthTypes ==
    /\ up \subseteq Instances
    /\ beatStage \in [Instances -> BeatStages]
    /\ sinceStep \in [Instances -> 0 .. Interval + BeatTime]
    /\ heartbeatAge \in [Instances -> {Missing} \cup (0 .. InstanceTTL)]
    /\ found \in [Instances -> SUBSET Instances]
    /\ aggregate \subseteq Instances
    /\ aggregateAge \in 0 .. AggregateTTL
    /\ toDelete \subseteq Instances
    /\ lastSeen \in [Instances -> 0 .. Longest]

\* Where the heartbeat of an instance is, and what belongs to it.
BeatAgrees(i) ==
    /\ i \notin up => beatStage[i] = "sleep"
    /\ beatStage[i] # "sleep" => sinceStep[i] <= BeatTime
    /\ beatStage[i] # "publish" => found[i] = {}

HealthInv ==
    /\ HealthTypes
    /\ \A i \in Instances : BeatAgrees(i)
    /\ aggregateAge = AggregateTTL => aggregate = {}
    /\ Heard

LEMMA HealthTimes ==
    /\ Interval \in Nat /\ InstanceTTL \in Nat /\ AggregateTTL \in Nat /\ BeatTime \in Nat
    /\ 0 < Interval /\ 0 < InstanceTTL /\ 0 < AggregateTTL
    /\ Longest \in Nat /\ Longest = InstanceTTL + BeatTime + AggregateTTL
  BY DEF Longest

LEMMA HealthInvInit == HealthInit => HealthInv
  <1> SUFFICES ASSUME HealthInit PROVE HealthInv
    OBVIOUS
  <1>1. /\ sinceStep \in [Instances -> 0 .. Interval + BeatTime]
        /\ heartbeatAge \in [Instances -> {Missing} \cup (0 .. InstanceTTL)]
        /\ lastSeen \in [Instances -> 0 .. Longest]
        /\ aggregateAge \in 0 .. AggregateTTL
    <2>1. Interval \in 0 .. Interval + BeatTime /\ Longest \in 0 .. Longest
          /\ AggregateTTL \in 0 .. AggregateTTL
      BY HealthTimes
    <2> QED BY <2>1 DEF HealthInit
  <1>2. HealthTypes
    BY <1>1 DEF HealthInit, HealthTypes, BeatStages
  <1>3. \A i \in Instances : BeatAgrees(i)
    BY DEF HealthInit, BeatAgrees
  <1>4. Heard
    BY DEF HealthInit, Heard, Missing
  <1> QED BY <1>2, <1>3, <1>4 DEF HealthInit, HealthInv

LEMMA HealthTickKeeps == HealthInv /\ HealthTick => HealthInv'
  <1> SUFFICES ASSUME HealthInv, HealthTick PROVE HealthInv'
    OBVIOUS
  <1>1. /\ HealthTypes
        /\ \A i \in Instances : BeatAgrees(i)
        /\ aggregateAge = AggregateTTL => aggregate = {}
        /\ Heard
    BY DEF HealthInv
  <1>2. ASSUME NEW i \in Instances
        PROVE  /\ sinceStep'[i] \in 0 .. Interval + BeatTime
               /\ sinceStep'[i] = IF i \in up THEN sinceStep[i] + 1 ELSE sinceStep[i]
               /\ beatStage[i] # "sleep" => sinceStep'[i] <= BeatTime
    BY <1>1, HealthTimes DEF HealthTick, HealthTypes, BeatAgrees
  <1>3. ASSUME NEW i \in Instances
        PROVE  /\ lastSeen'[i] \in 0 .. Longest /\ lastSeen'[i] <= lastSeen[i] + 1
    <2> DEFINE n == lastSeen[i]
    <2>1. n \in Nat /\ n <= Longest
      BY <1>1 DEF HealthTypes
    <2>2. lastSeen'[i] = Min({n + 1, Longest})
      BY DEF HealthTick
    <2> HIDE DEF n
    <2>3. /\ Min({n + 1, Longest}) \in 0 .. Longest
          /\ n < Longest => Min({n + 1, Longest}) = n + 1
          /\ n = Longest => Min({n + 1, Longest}) = Longest
      BY <2>1, HealthTimes, StepsOfATick
    <2>4. Min({n + 1, Longest}) <= n + 1
      BY <2>1, <2>3, HealthTimes
    <2> QED BY <2>2, <2>3, <2>4 DEF n
  <1>4. /\ aggregateAge' \in 0 .. AggregateTTL
        /\ aggregateAge' # AggregateTTL => aggregateAge' = aggregateAge + 1
    <2>1. aggregateAge \in Nat /\ aggregateAge <= AggregateTTL
      BY <1>1 DEF HealthTypes
    <2>2. aggregateAge' = Min({aggregateAge + 1, AggregateTTL})
      BY DEF HealthTick
    <2> QED BY <2>1, <2>2, HealthTimes, StepsOfATick
  <1>5. ASSUME NEW i \in Instances
        PROVE  /\ heartbeatAge'[i] \in {Missing} \cup (0 .. InstanceTTL)
               /\ heartbeatAge'[i] \in 0 .. InstanceTTL - 1 =>
                     /\ heartbeatAge[i] \in 0 .. InstanceTTL - 1
                     /\ heartbeatAge'[i] = heartbeatAge[i] + 1
    BY <1>1, HealthTimes DEF HealthTick, HealthTypes, Missing
  <1>6. HealthTypes'
    <2>1. sinceStep' \in [Instances -> 0 .. Interval + BeatTime]
      BY <1>2 DEF HealthTick
    <2>2. lastSeen' \in [Instances -> 0 .. Longest]
      BY <1>3 DEF HealthTick
    <2>3. heartbeatAge' \in [Instances -> {Missing} \cup (0 .. InstanceTTL)]
      BY <1>5 DEF HealthTick
    <2> QED BY <1>1, <1>4, <2>1, <2>2, <2>3 DEF HealthTick, HealthTypes
  <1>7. \A i \in Instances : BeatAgrees(i)'
    BY <1>1, <1>2 DEF HealthTick, BeatAgrees
  <1>8. aggregateAge' = AggregateTTL => aggregate' = {}
    BY DEF HealthTick
  <1>9. Heard'
    <2>1. ASSUME NEW j \in Instances, heartbeatAge'[j] \in 0 .. InstanceTTL - 1
          PROVE  lastSeen'[j] <= heartbeatAge'[j]
      <3>1. lastSeen[j] <= heartbeatAge[j]
        BY <1>1, <1>5, <2>1 DEF Heard
      <3> QED BY <1>1, <1>3, <1>5, <2>1, <3>1 DEF HealthTypes
    <2>2. ASSUME NEW i \in Instances, NEW j \in found'[i]
          PROVE  lastSeen'[j] < InstanceTTL + sinceStep'[i]
      <3>1. j \in found[i] /\ j \in Instances
        BY <1>1, <2>2 DEF HealthTick, HealthTypes
      <3>2. i \in up
        BY <1>1, <3>1 DEF BeatAgrees
      <3>3. lastSeen[j] < InstanceTTL + sinceStep[i]
        BY <1>1, <3>1 DEF Heard
      <3> QED BY <1>1, <1>2, <1>3, <3>1, <3>2, <3>3, HealthTimes DEF HealthTypes
    <2>3. ASSUME NEW j \in aggregate' PROVE lastSeen'[j] < InstanceTTL + BeatTime + aggregateAge'
      <3>1. j \in aggregate /\ j \in Instances /\ aggregateAge' = aggregateAge + 1
        BY <1>1, <1>4, <2>3 DEF HealthTick, HealthTypes
      <3>2. lastSeen[j] < InstanceTTL + BeatTime + aggregateAge
        BY <1>1, <3>1 DEF Heard
      <3> QED BY <1>1, <1>3, <3>1, <3>2, HealthTimes DEF HealthTypes
    <2> QED BY <2>1, <2>2, <2>3 DEF Heard
  <1> QED BY <1>6, <1>7, <1>8, <1>9 DEF HealthInv

\* Where the heartbeat of one instance goes.
LEMMA BeatGoesKeeps ==
    ASSUME HealthTypes, NEW i \in Instances, NEW stage \in BeatStages, BeatGoesTo(i, stage)
    PROVE  /\ beatStage' \in [Instances -> BeatStages]
           /\ sinceStep' \in [Instances -> 0 .. Interval + BeatTime]
           /\ \A k \in Instances : k # i => beatStage'[k] = beatStage[k] /\ sinceStep'[k] = sinceStep[k]
           /\ beatStage'[i] = stage /\ sinceStep'[i] = 0
  <1>1. 0 \in 0 .. Interval + BeatTime
    BY HealthTimes
  <1> QED BY <1>1 DEF HealthTypes, BeatGoesTo

\* A heartbeat that goes on, by what it does to the record and to what was found.
LEMMA BeatStepKeeps ==
    ASSUME HealthInv, NEW i \in Instances, BeatStep(i) \/ HeartbeatFails(i)
    PROVE  HealthInv'
  <1> USE HealthTimes
  <1>1. /\ HealthTypes
        /\ \A k \in Instances : BeatAgrees(k)
        /\ aggregateAge = AggregateTTL => aggregate = {}
        /\ Heard
    BY DEF HealthInv
  <1>2. PICK stage \in BeatStages : BeatGoesTo(i, stage)
    BY DEF BeatStep, SendHeartbeat, WriteHeartbeat, ReadInstances, TakeFresh, PublishAggregate,
           HeartbeatFails, BeatStages
  <1>3. /\ beatStage' \in [Instances -> BeatStages]
        /\ sinceStep' \in [Instances -> 0 .. Interval + BeatTime]
        /\ \A k \in Instances : k # i => beatStage'[k] = beatStage[k] /\ sinceStep'[k] = sinceStep[k]
        /\ beatStage'[i] = stage /\ sinceStep'[i] = 0
    BY <1>1, <1>2, BeatGoesKeeps
  <1>4. i \in up /\ up' = up /\ toDelete' = toDelete
    BY <1>1 DEF BeatStep, SendHeartbeat, WriteHeartbeat, ReadInstances, PublishAggregate,
                HeartbeatFails, BeatAgrees
  <1>5. /\ found \in [Instances -> SUBSET Instances]
        /\ heartbeatAge \in [Instances -> {Missing} \cup (0 .. InstanceTTL)]
        /\ lastSeen \in [Instances -> 0 .. Longest]
        /\ sinceStep \in [Instances -> 0 .. Interval + BeatTime]
        /\ beatStage[i] # "publish" => found[i] = {}
        /\ beatStage[i] # "sleep" => sinceStep[i] <= BeatTime
        /\ aggregateAge \in 0 .. AggregateTTL
        /\ \A j \in Instances :
              heartbeatAge[j] \in 0 .. InstanceTTL - 1 => lastSeen[j] <= heartbeatAge[j]
        /\ \A k \in Instances : \A j \in found[k] : lastSeen[j] < InstanceTTL + sinceStep[k]
        /\ \A j \in aggregate : lastSeen[j] < InstanceTTL + BeatTime + aggregateAge
    BY <1>1 DEF HealthTypes, BeatAgrees, Heard
  <1>6. CASE SendHeartbeat(i)
    <2>1. /\ found' = found /\ found[i] = {}
          /\ UNCHANGED <<heartbeatAge, aggregate, aggregateAge, lastSeen>>
      BY <1>5, <1>6 DEF SendHeartbeat
    <2>2. HealthTypes' /\ \A k \in Instances : BeatAgrees(k)'
      BY <1>1, <1>3, <1>4, <2>1 DEF HealthTypes, BeatAgrees
    <2>3. Heard'
      BY <1>3, <1>5, <2>1 DEF Heard
    <2> QED BY <1>1, <2>1, <2>2, <2>3 DEF HealthInv
  <1>7. CASE WriteHeartbeat(i)
    <2>1. /\ found' = found /\ found[i] = {} /\ UNCHANGED <<aggregate, aggregateAge>>
          /\ heartbeatAge' = [heartbeatAge EXCEPT ![i] = 0]
          /\ lastSeen' = [lastSeen EXCEPT ![i] = 0]
      BY <1>5, <1>7 DEF WriteHeartbeat, WriteRecord
    <2>2. 0 \in {Missing} \cup (0 .. InstanceTTL) /\ 0 \in 0 .. Longest
      OBVIOUS
    <2>3. /\ heartbeatAge' \in [Instances -> {Missing} \cup (0 .. InstanceTTL)]
          /\ lastSeen' \in [Instances -> 0 .. Longest]
          /\ \A j \in Instances : j # i => heartbeatAge'[j] = heartbeatAge[j] /\ lastSeen'[j] = lastSeen[j]
          /\ heartbeatAge'[i] = 0 /\ lastSeen'[i] = 0
      BY <1>5, <2>1, <2>2
    <2>4. HealthTypes' /\ \A k \in Instances : BeatAgrees(k)'
      BY <1>1, <1>3, <1>4, <2>1, <2>3 DEF HealthTypes, BeatAgrees
    <2>5. \A j \in Instances : lastSeen'[j] <= lastSeen[j]
      BY <1>5, <2>3
    <2>6. Heard'
      <3>1. \A j \in Instances :
                heartbeatAge'[j] \in 0 .. InstanceTTL - 1 => lastSeen'[j] <= heartbeatAge'[j]
        BY <1>5, <2>3
      <3>2. ASSUME NEW k \in Instances, NEW j \in found'[k]
            PROVE  lastSeen'[j] < InstanceTTL + sinceStep'[k]
        <4>1. k # i /\ j \in found[k] /\ j \in Instances
          BY <1>5, <2>1, <3>2
        <4> QED BY <1>3, <1>5, <2>3, <2>5, <4>1
      <3>3. ASSUME NEW j \in aggregate' PROVE lastSeen'[j] < InstanceTTL + BeatTime + aggregateAge'
        <4>1. j \in aggregate /\ j \in Instances
          BY <1>1, <2>1, <3>3 DEF HealthTypes
        <4> QED BY <1>5, <2>1, <2>3, <2>5, <4>1
      <3> QED BY <3>1, <3>2, <3>3 DEF Heard
    <2> QED BY <1>1, <2>1, <2>4, <2>6 DEF HealthInv
  <1>8. CASE ReadInstances(i)
    <2>1. /\ found' = [found EXCEPT ![i] = FreshInstances] /\ FreshInstances \subseteq Instances
          /\ UNCHANGED <<heartbeatAge, aggregate, aggregateAge, lastSeen>>
      BY <1>8 DEF ReadInstances, TakeFresh, FreshInstances
    <2>2. stage = "publish" \/ FreshInstances = {}
      <3>1. ~(Missing \in 0 .. InstanceTTL - 1)
        BY DEF Missing
      <3>2. beatStage'[i] = IF \A j \in Instances : heartbeatAge[j] = Missing THEN "sleep" ELSE "publish"
        BY <1>1, <1>8 DEF ReadInstances, TakeFresh, BeatGoesTo, HealthTypes
      <3> QED BY <1>3, <3>1, <3>2 DEF FreshInstances
    <2>3. /\ found' \in [Instances -> SUBSET Instances] /\ found'[i] = FreshInstances
          /\ \A k \in Instances : k # i => found'[k] = found[k]
      BY <1>5, <2>1
    <2>4. HealthTypes' /\ \A k \in Instances : BeatAgrees(k)'
      BY <1>1, <1>3, <1>4, <2>1, <2>2, <2>3 DEF HealthTypes, BeatAgrees
    <2>5. Heard'
      <3>1. \A j \in FreshInstances : lastSeen[j] < InstanceTTL
        BY <1>5 DEF FreshInstances
      <3> QED BY <1>3, <1>5, <2>1, <2>3, <3>1 DEF Heard
    <2> QED BY <1>1, <2>1, <2>4, <2>5 DEF HealthInv
  <1>9. CASE PublishAggregate(i)
    <2>1. /\ found' = [found EXCEPT ![i] = {}] /\ aggregate' = found[i] /\ aggregateAge' = 0
          /\ UNCHANGED <<heartbeatAge, lastSeen>> /\ beatStage[i] = "publish"
      BY <1>9 DEF PublishAggregate
    <2>2. /\ found' \in [Instances -> SUBSET Instances] /\ found'[i] = {}
          /\ \A k \in Instances : k # i => found'[k] = found[k]
      BY <1>5, <2>1
    <2>3. 0 \in 0 .. AggregateTTL /\ 0 # AggregateTTL
      OBVIOUS
    <2>4. HealthTypes' /\ \A k \in Instances : BeatAgrees(k)'
      BY <1>1, <1>3, <1>4, <1>5, <2>1, <2>2, <2>3 DEF HealthTypes, BeatAgrees
    <2>5. Heard'
      <3>1. ASSUME NEW j \in aggregate' PROVE lastSeen'[j] < InstanceTTL + BeatTime + aggregateAge'
        <4>1. j \in Instances /\ lastSeen[j] < InstanceTTL + sinceStep[i] /\ sinceStep[i] <= BeatTime
          BY <1>5, <2>1, <3>1
        <4> QED BY <1>5, <2>1, <4>1
      <3>2. ASSUME NEW k \in Instances, NEW j \in found'[k]
            PROVE  lastSeen'[j] < InstanceTTL + sinceStep'[k]
        BY <1>3, <1>5, <2>1, <2>2, <3>2
      <3> QED BY <1>5, <2>1, <3>1, <3>2 DEF Heard
    <2> QED BY <2>1, <2>3, <2>4, <2>5 DEF HealthInv
  <1>10. CASE HeartbeatFails(i)
    <2>1. /\ found' = [found EXCEPT ![i] = {}]
          /\ UNCHANGED <<heartbeatAge, aggregate, aggregateAge, lastSeen>>
      BY <1>10 DEF HeartbeatFails
    <2>2. /\ found' \in [Instances -> SUBSET Instances] /\ found'[i] = {}
          /\ \A k \in Instances : k # i => found'[k] = found[k]
      BY <1>5, <2>1
    <2>3. HealthTypes' /\ \A k \in Instances : BeatAgrees(k)'
      BY <1>1, <1>3, <1>4, <2>1, <2>2 DEF HealthTypes, BeatAgrees
    <2>4. Heard'
      BY <1>3, <1>5, <2>1, <2>2 DEF Heard
    <2> QED BY <1>1, <2>1, <2>3, <2>4 DEF HealthInv
  <1> QED BY <1>6, <1>7, <1>8, <1>9, <1>10 DEF BeatStep

LEMMA HealthInvStep ==
    ASSUME HealthInv, [HealthNext]_healthVars
    PROVE  HealthInv'
  <1> USE HealthTimes
  <1>1. /\ HealthTypes
        /\ \A k \in Instances : BeatAgrees(k)
        /\ aggregateAge = AggregateTTL => aggregate = {}
        /\ Heard
    BY DEF HealthInv
  <1>2. /\ found \in [Instances -> SUBSET Instances]
        /\ heartbeatAge \in [Instances -> {Missing} \cup (0 .. InstanceTTL)]
        /\ lastSeen \in [Instances -> 0 .. Longest]
        /\ sinceStep \in [Instances -> 0 .. Interval + BeatTime]
        /\ beatStage \in [Instances -> BeatStages]
        /\ aggregateAge \in 0 .. AggregateTTL
        /\ aggregate \subseteq Instances
        /\ \A j \in Instances :
              heartbeatAge[j] \in 0 .. InstanceTTL - 1 => lastSeen[j] <= heartbeatAge[j]
        /\ \A k \in Instances : \A j \in found[k] : lastSeen[j] < InstanceTTL + sinceStep[k]
        /\ \A j \in aggregate : lastSeen[j] < InstanceTTL + BeatTime + aggregateAge
    BY <1>1 DEF HealthTypes, Heard
  <1>3. ASSUME NEW i \in Instances, RegisterInstance(i) PROVE HealthInv'
    <2>1. /\ i \notin up /\ up' = up \cup {i} /\ sinceStep' = [sinceStep EXCEPT ![i] = Interval]
          /\ heartbeatAge' = [heartbeatAge EXCEPT ![i] = 0] /\ lastSeen' = [lastSeen EXCEPT ![i] = 0]
          /\ UNCHANGED <<beatStage, found, aggregate, aggregateAge, toDelete>>
      BY <1>3 DEF RegisterInstance
    <2>2. 0 \in {Missing} \cup (0 .. InstanceTTL) /\ 0 \in 0 .. Longest /\ Interval \in 0 .. Interval + BeatTime
      OBVIOUS
    <2>3. /\ heartbeatAge' \in [Instances -> {Missing} \cup (0 .. InstanceTTL)]
          /\ lastSeen' \in [Instances -> 0 .. Longest]
          /\ sinceStep' \in [Instances -> 0 .. Interval + BeatTime]
          /\ \A j \in Instances : j # i => /\ heartbeatAge'[j] = heartbeatAge[j]
                                           /\ lastSeen'[j] = lastSeen[j] /\ sinceStep'[j] = sinceStep[j]
          /\ heartbeatAge'[i] = 0 /\ lastSeen'[i] = 0 /\ sinceStep'[i] = Interval
      BY <1>2, <2>1, <2>2
    <2>4. beatStage[i] = "sleep" /\ found[i] = {}
      BY <1>1, <2>1 DEF BeatAgrees
    <2>5. HealthTypes' /\ \A k \in Instances : BeatAgrees(k)'
      BY <1>1, <2>1, <2>3, <2>4 DEF HealthTypes, BeatAgrees
    <2>6. \A j \in Instances : lastSeen'[j] <= lastSeen[j]
      BY <1>2, <2>3
    <2>7. Heard'
      <3>1. \A j \in Instances :
                heartbeatAge'[j] \in 0 .. InstanceTTL - 1 => lastSeen'[j] <= heartbeatAge'[j]
        BY <1>2, <2>3
      <3>2. ASSUME NEW k \in Instances, NEW j \in found'[k]
            PROVE  lastSeen'[j] < InstanceTTL + sinceStep'[k]
        <4>1. k # i /\ j \in found[k] /\ j \in Instances
          BY <1>2, <2>1, <2>4, <3>2
        <4> QED BY <1>2, <2>3, <2>6, <4>1
      <3>3. ASSUME NEW j \in aggregate' PROVE lastSeen'[j] < InstanceTTL + BeatTime + aggregateAge'
        <4>1. j \in aggregate /\ j \in Instances
          BY <1>2, <2>1, <3>3
        <4> QED BY <1>2, <2>1, <2>3, <2>6, <4>1
      <3> QED BY <3>1, <3>2, <3>3 DEF Heard
    <2> QED BY <1>1, <2>1, <2>5, <2>7 DEF HealthInv
  <1>4. ASSUME NEW i \in Instances, InstanceEnds(i) PROVE HealthInv'
    <2>1. /\ up' = up \ {i} /\ beatStage' = [beatStage EXCEPT ![i] = "sleep"]
          /\ found' = [found EXCEPT ![i] = {}] /\ sinceStep' = [sinceStep EXCEPT ![i] = Interval]
          /\ UNCHANGED <<heartbeatAge, aggregate, aggregateAge, toDelete, lastSeen>>
      BY <1>4 DEF InstanceEnds, EndBeat
    <2>2. "sleep" \in BeatStages /\ Interval \in 0 .. Interval + BeatTime
      BY DEF BeatStages
    <2>3. /\ beatStage' \in [Instances -> BeatStages] /\ found' \in [Instances -> SUBSET Instances]
          /\ sinceStep' \in [Instances -> 0 .. Interval + BeatTime]
          /\ \A j \in Instances : j # i => /\ beatStage'[j] = beatStage[j]
                                           /\ found'[j] = found[j] /\ sinceStep'[j] = sinceStep[j]
          /\ beatStage'[i] = "sleep" /\ found'[i] = {}
      BY <1>2, <2>1, <2>2
    <2>4. HealthTypes' /\ \A k \in Instances : BeatAgrees(k)'
      BY <1>1, <2>1, <2>3 DEF HealthTypes, BeatAgrees
    <2>5. Heard'
      BY <1>2, <2>1, <2>3 DEF Heard
    <2> QED BY <1>1, <2>1, <2>4, <2>5 DEF HealthInv
  <1>5. ASSUME NEW i \in Instances, heartbeatAge' = [heartbeatAge EXCEPT ![i] = Missing],
               toDelete' \subseteq toDelete,
               UNCHANGED <<up, beatStage, sinceStep, found, aggregate, aggregateAge, lastSeen>>
        PROVE  HealthInv'
    <2>1. ~(Missing \in 0 .. InstanceTTL - 1)
      BY DEF Missing
    <2>2. HealthTypes' /\ \A k \in Instances : BeatAgrees(k)'
      BY <1>1, <1>5 DEF HealthTypes, BeatAgrees
    <2>3. Heard'
      BY <1>2, <1>5, <2>1 DEF Heard
    <2> QED BY <1>1, <1>5, <2>2, <2>3 DEF HealthInv
  <1>6. ASSUME NEW i \in Instances, ShutdownInstance(i) \/ CleanupDeletes(i) PROVE HealthInv'
    BY <1>5, <1>6 DEF ShutdownInstance, CleanupDeletes
  <1>7. CASE CleanupReads \/ UNCHANGED healthVars
    <2>1. /\ UNCHANGED <<up, beatStage, sinceStep, heartbeatAge, found, aggregate, aggregateAge, lastSeen>>
          /\ toDelete' = toDelete \/ toDelete' \subseteq Instances
      BY <1>7 DEF CleanupReads, healthVars
    <2> QED BY <1>1, <2>1 DEF HealthInv, HealthTypes, BeatAgrees, Heard
  <1> QED BY HealthTickKeeps, BeatStepKeeps, <1>3, <1>4, <1>6, <1>7 DEF HealthNext

LEMMA HealthInvHolds == HealthInv => HealthTypeOK /\ GoneIsUnlisted
  <1> SUFFICES ASSUME HealthInv PROVE HealthTypeOK /\ GoneIsUnlisted
    OBVIOUS
  <1>1. HealthTypeOK
    BY DEF HealthInv, HealthTypes, BeatAgrees, HealthTypeOK
  <1>2. ASSUME NEW i \in aggregate PROVE lastSeen[i] < Longest
    <2>1. /\ aggregateAge # AggregateTTL /\ aggregateAge \in 0 .. AggregateTTL
          /\ lastSeen[i] < InstanceTTL + BeatTime + aggregateAge
          /\ lastSeen[i] \in 0 .. Longest
      BY <1>2 DEF HealthInv, HealthTypes, Heard
    <2> QED BY <2>1, HealthTimes
  <1> QED BY <1>1, <1>2 DEF GoneIsUnlisted

\* For any instances, intervals and expiries: an instance whose last heartbeat is too long
\* ago is not in the aggregate, whoever publishes it and whatever a cleanup deletes.
THEOREM TheGoneAreUnlisted == HealthSpec => [](HealthTypeOK /\ GoneIsUnlisted)
  BY HealthInvInit, HealthInvStep, HealthInvHolds, PTL DEF HealthSpec

HIDE HealthAssumption DEF HealthAssumption

=================================================================================
