---------------------------- MODULE HotConfigProofs ----------------------------
(* Safety of hot reloading for any parameters, values and number of reloads    *)
(* that overlap.                                                               *)
EXTENDS HotConfig, TLAPS

USE HotConfigAssumption

\* A reload of the guarded parameter that holds its lock.
Working(r) == param[r] = Guarded /\ phase[r] \in {"reading", "read", "notifying"}

\* The lock: one of them at a time.
Alone == \A r, s \in Reloads : Working(r) /\ Working(s) => r = s

\* The breaker has admitted it and only its own failure can open it again.
WorkersAdmitted == \A r \in Reloads : Working(r) => breaker # "open"

\* While the handler is awaited the replaced value is the one to go back to.
Replacing(r) == param[r] = Guarded /\ phase[r] = "notifying"
Returnable ==
    \A r \in Reloads : Replacing(r) =>
        /\ value[Guarded] = got[r]
        /\ old[r] \in Valid
        /\ "swallowed" \notin hidden => old[r] = inUse[Guarded]

\* A breaker that is not closed has counted a failure.
OpenHasFailed == breaker # "closed" => failureCount > 0

\* A change whose event waits for the lock or for the config service.
Pending == \E s \in Reloads : param[s] = Guarded /\ phase[s] \in {"waiting", "reading"}

\* What a reload has read is the latest value, or the latest value is on its way.
Fetched ==
    listening =>
        \A r \in Reloads : param[r] = Guarded /\ phase[r] \in {"read", "notifying"} =>
            got[r] = configured[Guarded] \/ Pending

\* So is what the configuration holds, as long as no failure has been counted.
Latest(r) == param[r] = Guarded /\ phase[r] = "read" /\ got[r] = configured[Guarded]
Coming ==
    (listening /\ hidden \cap {"cleared", "nothing"} = {} /\ failureCount = 0) =>
        \/ value[Guarded] = configured[Guarded]
        \/ Pending
        \/ \E r \in Reloads : Latest(r)

\* The failure that is one too many has ended the notifications for good.
Deaf == failures = EmergencyAfter => ~listening

Control == Alone /\ WorkersAdmitted /\ OpenHasFailed /\ Deaf
Sound == GuardedIsValid /\ GuardedIsInUse /\ Returnable
Inv == TypeOK /\ Control /\ Sound /\ Fetched /\ Coming

-------------------------------------------------------------------------------
(* The breaker alone.                                                          *)

BreakerType ==
    /\ breaker \in {"closed", "open", "half_open"}
    /\ elapsed \in BOOLEAN
    /\ failureCount \in 0 .. FailureThreshold
    /\ halfOpenCalls \in 0 .. HalfOpenMaxCalls - 1

\* A failure is counted: afterwards no breaker has counted none.
LEMMA FailureCounts ==
    ASSUME BreakerType, BreakerFailure
    PROVE  BreakerType' /\ failureCount' > 0
<1>1. failureCount' \in 0 .. FailureThreshold /\ failureCount' > 0
    BY DEF BreakerType, BreakerFailure
<1>2. /\ breaker' \in {"closed", "open", "half_open"} /\ elapsed' \in BOOLEAN
      /\ halfOpenCalls' = halfOpenCalls
    BY DEF BreakerType, BreakerFailure
<1>3. QED  BY <1>1, <1>2 DEF BreakerType

\* A success opens nothing, and a breaker that it does not close has counted before.
LEMMA SuccessCloses ==
    ASSUME BreakerType, BreakerSuccess
    PROVE  /\ BreakerType'
           /\ breaker' # "closed" => breaker = breaker' /\ failureCount' = failureCount
<1>1. CASE breaker = "half_open" /\ halfOpenCalls + 1 >= HalfOpenMaxCalls
    BY <1>1 DEF BreakerType, BreakerSuccess, circuit
<1>2. CASE breaker = "half_open" /\ halfOpenCalls + 1 < HalfOpenMaxCalls
    BY <1>2 DEF BreakerType, BreakerSuccess, circuit
<1>3. CASE breaker \in {"closed", "open"}
    BY <1>3 DEF BreakerType, BreakerSuccess, circuit
<1>4. QED  BY <1>1, <1>2, <1>3 DEF BreakerType

\* Who is admitted finds a breaker that is not open, and asking counts nothing.
LEMMA AskedAdmits ==
    ASSUME BreakerType, BreakerAsked
    PROVE  /\ BreakerType'
           /\ BreakerAdmits => breaker' # "open"
           /\ breaker' # "closed" => breaker # "closed"
           /\ failureCount' = failureCount
<1>1. CASE breaker = "open" /\ elapsed
    BY <1>1 DEF BreakerType, BreakerAsked
<1>2. CASE ~(breaker = "open" /\ elapsed)
    <2>1. UNCHANGED <<breaker, elapsed, failureCount, halfOpenCalls>>
        BY <1>2 DEF BreakerAsked, circuit
    <2>2. BreakerAdmits => breaker # "open"
        BY <1>2 DEF BreakerAdmits
    <2>3. QED  BY <2>1, <2>2 DEF BreakerType
<1>3. QED  BY <1>1, <1>2

-------------------------------------------------------------------------------
(* Types.                                                                      *)

\* The first state is well typed.
LEMMA InitType == Init => TypeOK
<1> SUFFICES ASSUME Init PROVE TypeOK
    OBVIOUS
<1>1. PICK v \in Valid : configured = [p \in Params |-> v] /\ value = configured
                        /\ inUse = configured /\ got = [r \in Reloads |-> v] /\ old = got
    BY DEF Init
<1>2. /\ configured \in [Params -> Values] /\ value \in [Params -> Values]
      /\ inUse \in [Params -> Values]
      /\ got \in [Reloads -> Values] /\ old \in [Reloads -> Values]
    BY <1>1
<1>3. /\ published \in 0 .. MaxPublish /\ failureCount \in 0 .. FailureThreshold
      /\ halfOpenCalls \in 0 .. HalfOpenMaxCalls - 1 /\ failures \in 0 .. EmergencyAfter
    BY DEF Init
<1>4. phase \in [Reloads -> Phases] /\ param \in [Reloads -> Params]
    BY DEF Init, Phases
<1>5. hidden \subseteq {"swallowed", "cleared", "nothing"}
    BY DEF Init
<1>6. QED  BY <1>2, <1>3, <1>4, <1>5 DEF Init, TypeOK

\* What Failed leaves well typed.
LEMMA FailedType ==
    ASSUME TypeOK, NEW r \in Reloads, Failed(r)
    PROVE  /\ BreakerType'
           /\ failures' \in 0 .. EmergencyAfter /\ killed' \in BOOLEAN /\ listening' \in BOOLEAN
           /\ phase' \in [Reloads -> Phases]
<1>1. BreakerType
    BY DEF TypeOK, BreakerType
<1>2. phase' \in [Reloads -> Phases]
    BY DEF Failed, Goto, TypeOK, Phases
<1>3. CASE param[r] = Guarded
    <2>1. BreakerType'
        BY <1>1, <1>3, FailureCounts DEF Failed
    <2>2. failures' \in 0 .. EmergencyAfter
        BY <1>3 DEF Failed, TypeOK
    <2>3. killed' \in BOOLEAN /\ listening' \in BOOLEAN
        BY <1>3, <2>2 DEF Failed, TypeOK
    <2>4. QED  BY <1>2, <2>1, <2>2, <2>3
<1>4. CASE param[r] # Guarded
    BY <1>1, <1>2, <1>4 DEF Failed, circuit, safety, BreakerType, TypeOK
<1>5. QED  BY <1>3, <1>4

\* Every step keeps the types.
LEMMA StepType == TypeOK /\ [Next]_vars => TypeOK'
<1> SUFFICES ASSUME TypeOK, [Next]_vars PROVE TypeOK'
    OBVIOUS
<1>0. BreakerType
    BY DEF TypeOK, BreakerType
<1>1. ASSUME NEW p \in Params, NEW v \in Values, NEW r \in Reloads, Publish(p, v, r)
      PROVE  TypeOK'
    BY <1>1 DEF Publish, Goto, TypeOK, Phases, circuit, safety
<1>2. ASSUME NEW r \in Reloads, Begin(r) PROVE TypeOK'
    <2>1. BreakerType'
        BY <1>0, <1>2, AskedAdmits DEF Begin, circuit, BreakerType
    <2>2. phase' \in [Reloads -> Phases]
        BY <1>2 DEF Begin, Goto, TypeOK, Phases
    <2>3. QED  BY <1>2, <2>1, <2>2 DEF Begin, TypeOK, BreakerType, service, safety
<1>3. ASSUME NEW r \in Reloads, Read(r) PROVE TypeOK'
    BY <1>3 DEF Read, Goto, TypeOK, Phases, service, circuit, safety
<1>3a. ASSUME NEW r \in Reloads, ReadNothing(r) PROVE TypeOK'
    BY <1>3a DEF ReadNothing, Goto, TypeOK, Phases, service, circuit, safety
<1>4. ASSUME NEW r \in Reloads, Apply(r) PROVE TypeOK'
    <2>1. BreakerType'
        BY <1>0, <1>4, FailureCounts DEF Apply, circuit, BreakerType
    <2>2. phase' \in [Reloads -> Phases]
        BY <1>4 DEF Apply, Goto, TypeOK, Phases
    <2>3. value' \in [Params -> Values] /\ old' \in [Reloads -> Values]
        BY <1>4 DEF Apply, TypeOK
    <2>4. QED  BY <1>4, <2>1, <2>2, <2>3 DEF Apply, TypeOK, BreakerType, service, safety
<1>5. ASSUME NEW r \in Reloads, Notified(r) PROVE TypeOK'
    <2>1. BreakerType'
        BY <1>0, <1>5, SuccessCloses DEF Notified, circuit, BreakerType
    <2>2. phase' \in [Reloads -> Phases] /\ inUse' \in [Params -> Values]
        BY <1>5 DEF Notified, Goto, TypeOK, Phases
    <2>3. failures' \in 0 .. EmergencyAfter /\ hidden' \subseteq {"swallowed", "cleared", "nothing"}
        <3>1. failures' = 0 \/ failures' = failures
            BY <1>5 DEF Notified
        <3>2. hidden' = {} \/ hidden' = hidden \/ hidden' = {"swallowed"}
            BY <1>5 DEF Notified
        <3>3. failures' \in 0 .. EmergencyAfter
            BY <3>1 DEF TypeOK
        <3>4. hidden' \subseteq {"swallowed", "cleared", "nothing"}
            BY <3>2 DEF TypeOK
        <3>5. QED  BY <3>3, <3>4
    <2>4. QED  BY <1>5, <2>1, <2>2, <2>3 DEF Notified, TypeOK, BreakerType, service
<1>6. ASSUME NEW r \in Reloads, ReadFailed(r) PROVE TypeOK'
    BY <1>6, FailedType DEF ReadFailed, Failed, TypeOK, BreakerType, service
<1>7. ASSUME NEW r \in Reloads, NotifyFailed(r) PROVE TypeOK'
    <2>1. value' \in [Params -> Values]
        BY <1>7 DEF NotifyFailed, TypeOK
    <2>2. Failed(r)
        BY <1>7 DEF NotifyFailed
    <2>3. QED  BY <2>1, <2>2, FailedType DEF Failed, TypeOK, BreakerType, service
<1>8. CASE BreakerElapses
    BY <1>8 DEF BreakerElapses, TypeOK, service, reload, safety
<1>9. CASE EmergencyShutdown \/ EnableKillSwitch
    BY <1>9 DEF EmergencyShutdown, EnableKillSwitch, TypeOK, service, reload, circuit
<1>10. CASE DisableKillSwitch
    <2>1. /\ failures' \in 0 .. EmergencyAfter /\ failureCount' \in 0 .. FailureThreshold
          /\ halfOpenCalls' \in 0 .. HalfOpenMaxCalls - 1
        BY <1>10 DEF DisableKillSwitch
    <2>2. hidden' \subseteq {"swallowed", "cleared", "nothing"}
        BY <1>10 DEF DisableKillSwitch, TypeOK
    <2>3. QED  BY <1>10, <2>1, <2>2 DEF DisableKillSwitch, TypeOK, service, reload
<1>11. CASE UNCHANGED vars
    BY <1>11 DEF vars, TypeOK, service, reload, circuit, safety
<1>12. QED
    BY <1>1, <1>2, <1>3, <1>3a, <1>4, <1>5, <1>6, <1>7, <1>8, <1>9, <1>10, <1>11 DEF Next, Step

\* Every reachable state is well typed.
THEOREM TypeCorrect == Spec => []TypeOK
BY InitType, StepType, PTL DEF Spec

-------------------------------------------------------------------------------
(* The lock and the breaker.                                                   *)

\* A working reload that ends leaves nobody working.
LEMMA NobodyWorks ==
    ASSUME TypeOK, Alone, NEW r \in Reloads, Working(r), Goto(r, "idle"), param' = param
    PROVE  \A s \in Reloads : ~Working(s)'
BY DEF TypeOK, Alone, Working, Goto

\* A step of a reload of another parameter makes nobody work.
LEMMA OthersWork ==
    ASSUME TypeOK, NEW r \in Reloads, param[r] # Guarded, NEW ph \in Phases, Goto(r, ph),
           param' = param
    PROVE  \A s \in Reloads : Working(s)' <=> Working(s)
BY DEF TypeOK, Working, Goto

\* A failure is recorded by somebody who is working, or not at all.
LEMMA FailedKeeps ==
    ASSUME TypeOK, Control, NEW r \in Reloads, Failed(r), phase[r] \in {"reading", "notifying"}
    PROVE  Control'
<1>1. CASE param[r] = Guarded
    <2>1. \A s \in Reloads : ~Working(s)'
        BY <1>1, NobodyWorks DEF Failed, Control, Working
    <2>2. failureCount' > 0
        BY <1>1, FailureCounts DEF Failed, TypeOK, BreakerType
    <2>3. failures' = EmergencyAfter => ~listening'
        <3>1. listening' = (listening /\ failures' < EmergencyAfter)
            BY <1>1 DEF Failed
        <3>2. failures' = EmergencyAfter => ~(failures' < EmergencyAfter)
            OBVIOUS
        <3>3. QED  BY <3>1, <3>2, Zenon
    <2>4. QED  BY <2>1, <2>2, <2>3 DEF Control, Alone, WorkersAdmitted, OpenHasFailed, Deaf
<1>2. CASE param[r] # Guarded
    <2>1. \A s \in Reloads : Working(s)' <=> Working(s)
        BY <1>2, OthersWork DEF Failed, Phases
    <2>2. UNCHANGED <<breaker, failureCount, failures, listening>>
        BY <1>2 DEF Failed, circuit, safety
    <2>3. QED  BY <2>1, <2>2 DEF Control, Alone, WorkersAdmitted, OpenHasFailed, Deaf
<1>3. QED  BY <1>1, <1>2

\* Every step keeps the lock, and the breaker from opening under a reload.
LEMMA ControlStep == TypeOK /\ Control /\ [Next]_vars => Control'
<1> SUFFICES ASSUME TypeOK, Control, [Next]_vars PROVE Control'
    OBVIOUS
<1> USE DEF Alone, WorkersAdmitted, OpenHasFailed, Deaf
<1>0. BreakerType
    BY DEF TypeOK, BreakerType
<1>1. ASSUME NEW p \in Params, NEW v \in Values, NEW r \in Reloads, Publish(p, v, r)
      PROVE  Control'
    <2>1. \A s \in Reloads : Working(s)' => Working(s)
        BY <1>1 DEF Publish, Goto, TypeOK, Working
    <2>2. QED  BY <1>1, <2>1 DEF Publish, Control, circuit, safety
<1>2. ASSUME NEW r \in Reloads, Begin(r) PROVE Control'
    <2>1. /\ failureCount' = failureCount
          /\ breaker' # "closed" => breaker # "closed"
        BY <1>0, <1>2, AskedAdmits DEF Begin, circuit
    <2>2. UNCHANGED <<failures, listening>>
        BY <1>2 DEF Begin, safety
    <2>3. CASE param[r] # Guarded
        <3>1. \A s \in Reloads : Working(s)' <=> Working(s)
            BY <1>2, <2>3, OthersWork DEF Begin, Phases
        <3>2. UNCHANGED circuit
            BY <1>2, <2>3 DEF Begin
        <3>3. QED  BY <2>1, <2>2, <3>1, <3>2 DEF Control, circuit
    <2>4. CASE param[r] = Guarded
        <3>1. \A s \in Reloads : ~Working(s)
            BY <1>2, <2>4 DEF Begin, Locked, Working
        <3>2. \A s \in Reloads : Working(s)' => s = r
            BY <1>2, <3>1 DEF Begin, Goto, TypeOK, Working
        <3>3. Working(r)' => BreakerAdmits
            BY <1>2, <2>4 DEF Begin, Goto, TypeOK, Working
        <3>4. BreakerAdmits => breaker' # "open"
            BY <1>0, <1>2, <2>4, AskedAdmits DEF Begin
        <3>5. QED  BY <2>1, <2>2, <3>2, <3>3, <3>4 DEF Control
    <2>5. QED  BY <2>3, <2>4
<1>3. ASSUME NEW r \in Reloads, Read(r) PROVE Control'
    <2>1. \A s \in Reloads : Working(s)' <=> Working(s)
        BY <1>3 DEF Read, Goto, TypeOK, Working
    <2>2. QED  BY <1>3, <2>1 DEF Read, Control, circuit, safety
<1>3a. ASSUME NEW r \in Reloads, ReadNothing(r) PROVE Control'
    <2>1. \A s \in Reloads : Working(s)' => Working(s)
        BY <1>3a DEF ReadNothing, Goto, TypeOK, Working
    <2>2. QED  BY <1>3a, <2>1 DEF ReadNothing, Control, circuit, safety
<1>4. ASSUME NEW r \in Reloads, Apply(r) PROVE Control'
    <2>1. UNCHANGED <<failures, listening>>
        BY <1>4 DEF Apply, safety
    <2>2. CASE UNCHANGED circuit
        <3>1. \A s \in Reloads : Working(s)' => Working(s)
            BY <1>4 DEF Apply, Goto, TypeOK, Working
        <3>2. QED  BY <2>1, <2>2, <3>1 DEF Control, circuit
    <2>3. CASE param[r] = Guarded /\ BreakerFailure /\ Goto(r, "idle")
        <3>1. \A s \in Reloads : ~Working(s)'
            BY <1>4, <2>3, NobodyWorks DEF Apply, Control, Working
        <3>2. failureCount' > 0
            BY <1>0, <2>3, FailureCounts
        <3>3. QED  BY <2>1, <3>1, <3>2 DEF Control
    <2>4. QED  BY <1>4, <2>2, <2>3 DEF Apply
<1>5. ASSUME NEW r \in Reloads, Notified(r) PROVE Control'
    <2>1. CASE param[r] = Guarded
        <3>1. \A s \in Reloads : ~Working(s)'
            BY <1>5, <2>1, NobodyWorks DEF Notified, Control, Working
        <3>2. breaker' # "closed" => breaker = breaker' /\ failureCount' = failureCount
            BY <1>0, <1>5, <2>1, SuccessCloses DEF Notified
        <3>3. failures' = 0
            BY <1>5, <2>1 DEF Notified
        <3>4. QED  BY <3>1, <3>2, <3>3 DEF Control
    <2>2. CASE param[r] # Guarded
        <3>1. \A s \in Reloads : Working(s)' <=> Working(s)
            BY <1>5, <2>2, OthersWork DEF Notified, Phases
        <3>2. UNCHANGED <<breaker, failureCount, failures, listening>>
            BY <1>5, <2>2 DEF Notified, circuit
        <3>3. QED  BY <3>1, <3>2 DEF Control
    <2>3. QED  BY <2>1, <2>2
<1>6. ASSUME NEW r \in Reloads, ReadFailed(r) \/ NotifyFailed(r) PROVE Control'
    BY <1>6, FailedKeeps DEF ReadFailed, NotifyFailed
<1>7. CASE BreakerElapses \/ EmergencyShutdown \/ EnableKillSwitch
    BY <1>7 DEF BreakerElapses, EmergencyShutdown, EnableKillSwitch, Control, Working, reload,
                circuit, safety
<1>8. CASE DisableKillSwitch
    BY <1>8 DEF DisableKillSwitch, Control, Working, reload
<1>9. CASE UNCHANGED vars
    BY <1>9 DEF vars, Control, Working, reload, circuit, safety
<1>10. QED
    BY <1>1, <1>2, <1>3, <1>3a, <1>4, <1>5, <1>6, <1>7, <1>8, <1>9 DEF Next, Step

-------------------------------------------------------------------------------
(* The value of the guarded parameter and the one in use.                      *)

\* Whoever replaces the value is the one at work.
LEMMA OneReplaces ==
    ASSUME Alone, NEW r \in Reloads, Working(r), NEW s \in Reloads, Replacing(s)
    PROVE  s = r
BY DEF Alone, Working, Replacing

\* When nothing of the guarded parameter changes, nothing about it does.
LEMMA SoundStays ==
    ASSUME TypeOK, Sound,
           value'[Guarded] = value[Guarded], inUse'[Guarded] = inUse[Guarded],
           old' = old, "swallowed" \in hidden => "swallowed" \in hidden',
           \A s \in Reloads : /\ Replacing(s)' <=> Replacing(s)
                              /\ Replacing(s) => got'[s] = got[s]
    PROVE  Sound'
<1>1. GuardedIsValid' /\ GuardedIsInUse'
    <2>1. Reloading(Guarded)' <=> Reloading(Guarded)
        BY DEF Reloading, Replacing
    <2>2. QED  BY <2>1 DEF Sound, GuardedIsValid, GuardedIsInUse
<1>2. Returnable'
    BY DEF Sound, Returnable
<1>3. QED  BY <1>1, <1>2 DEF Sound

\* Every step keeps the value valid, in use, and able to go back.
LEMMA SoundStep == TypeOK /\ Control /\ Sound /\ [Next]_vars => Sound'
<1> SUFFICES ASSUME TypeOK, Control, Sound, [Next]_vars PROVE Sound'
    OBVIOUS
<1>1. ASSUME NEW p \in Params, NEW v \in Values, NEW r \in Reloads, Publish(p, v, r)
      PROVE  Sound'
    <2>1. \A s \in Reloads : Replacing(s)' <=> Replacing(s)
        BY <1>1 DEF Publish, Goto, TypeOK, Replacing
    <2>2. QED  BY <1>1, <2>1, SoundStays DEF Publish
<1>2. ASSUME NEW r \in Reloads, Begin(r) \/ Read(r) \/ ReadNothing(r) \/ ReadFailed(r)
      PROVE  Sound'
    <2>1. \A s \in Reloads : /\ Replacing(s)' <=> Replacing(s)
                             /\ Replacing(s) => got'[s] = got[s]
        BY <1>2 DEF Begin, Read, ReadNothing, ReadFailed, Failed, Goto, TypeOK, Replacing
    <2>2. /\ UNCHANGED <<value, inUse, old>>
          /\ "swallowed" \in hidden => "swallowed" \in hidden'
        BY <1>2 DEF Begin, Read, ReadNothing, ReadFailed, Failed
    <2>3. QED  BY <2>1, <2>2, SoundStays
<1>3. ASSUME NEW r \in Reloads, Apply(r) PROVE Sound'
    <2>1. CASE UNCHANGED value
        <3>1. \A s \in Reloads : Replacing(s)' <=> Replacing(s)
            BY <1>3, <2>1 DEF Apply, Goto, TypeOK, Replacing
        <3>2. UNCHANGED <<inUse, old, hidden, got>>
            BY <1>3, <2>1 DEF Apply, TypeOK
        <3>3. QED  BY <2>1, <3>1, <3>2, SoundStays
    <2>2. CASE /\ param[r] # Guarded
               /\ value' = [value EXCEPT ![param[r]] = got[r]]
               /\ old' = [old EXCEPT ![r] = value[param[r]]]
               /\ Goto(r, "notifying")
        <3>1. /\ value'[Guarded] = value[Guarded]
              /\ UNCHANGED <<inUse, hidden, got, param>>
            BY <1>3, <2>2 DEF Apply, TypeOK
        <3>2. \A s \in Reloads : /\ Replacing(s)' <=> Replacing(s)
                                 /\ Replacing(s) => old'[s] = old[s]
            BY <1>3, <2>2 DEF Apply, Goto, TypeOK, Replacing
        <3>3. Reloading(Guarded)' <=> Reloading(Guarded)
            BY <3>2 DEF Reloading, Replacing
        <3>4. QED  BY <3>1, <3>2, <3>3 DEF Sound, GuardedIsValid, GuardedIsInUse, Returnable
    <2>3. CASE /\ param[r] = Guarded /\ got[r] \in Valid
               /\ value' = [value EXCEPT ![param[r]] = got[r]]
               /\ old' = [old EXCEPT ![r] = value[param[r]]]
               /\ Goto(r, "notifying")
        <3>1. /\ value'[Guarded] = got[r] /\ old'[r] = value[Guarded]
              /\ UNCHANGED <<inUse, hidden, got, param>>
            BY <1>3, <2>3 DEF Apply, TypeOK
        <3>2. \A s \in Reloads : ~Replacing(s)
            BY <1>3, <2>3, OneReplaces DEF Apply, Control, Working, Replacing
        <3>3. \A s \in Reloads : Replacing(s)' => s = r
            BY <1>3, <2>3, <3>2 DEF Goto, TypeOK, Replacing, Apply
        <3>4. Replacing(r)'
            BY <1>3, <2>3 DEF Goto, TypeOK, Replacing, Apply
        <3>5. Reloading(Guarded)' /\ ~Reloading(Guarded)
            BY <3>2, <3>4 DEF Reloading, Replacing
        <3>6. "swallowed" \notin hidden => value[Guarded] = inUse[Guarded]
            BY <3>5 DEF Sound, GuardedIsInUse
        <3>7. GuardedIsValid' /\ GuardedIsInUse'
            BY <2>3, <3>1, <3>5 DEF GuardedIsValid, GuardedIsInUse
        <3>8. Returnable'
            BY <3>1, <3>3, <3>6 DEF Returnable, Sound, GuardedIsValid
        <3>9. QED  BY <3>7, <3>8 DEF Sound
    <2>4. QED  BY <1>3, <2>1, <2>2, <2>3 DEF Apply
<1>4. ASSUME NEW r \in Reloads, Notified(r) PROVE Sound'
    <2>1. CASE param[r] # Guarded
        <3>1. \A s \in Reloads : Replacing(s)' <=> Replacing(s)
            BY <1>4, <2>1 DEF Notified, Goto, TypeOK, Replacing
        <3>2. inUse'[Guarded] = inUse[Guarded] /\ UNCHANGED <<value, old, hidden, got>>
            BY <1>4, <2>1 DEF Notified, TypeOK
        <3>3. QED  BY <3>1, <3>2, SoundStays
    <2>2. CASE param[r] = Guarded
        <3>1. \A s \in Reloads : ~Replacing(s)'
            BY <1>4, <2>2, NobodyWorks DEF Notified, Control, Working, Replacing
        <3>2. value' = value /\ value[Guarded] = got[r]
            BY <1>4, <2>2 DEF Notified, Sound, Returnable, Replacing
        <3>3. "swallowed" \notin hidden' => inUse'[Guarded] = got[r]
            BY <1>4, <2>2 DEF Notified, TypeOK
        <3>4. QED
            BY <3>1, <3>2, <3>3 DEF Sound, GuardedIsValid, GuardedIsInUse, Returnable
    <2>3. QED  BY <2>1, <2>2
<1>5. ASSUME NEW r \in Reloads, NotifyFailed(r) PROVE Sound'
    <2>1. UNCHANGED <<inUse, old, hidden, got, param>> /\ Goto(r, "idle")
        BY <1>5 DEF NotifyFailed, Failed
    <2>2. CASE param[r] # Guarded
        <3>1. \A s \in Reloads : Replacing(s)' <=> Replacing(s)
            BY <2>1, <2>2 DEF Goto, TypeOK, Replacing
        <3>2. UNCHANGED value
            BY <1>5, <2>2 DEF NotifyFailed
        <3>3. QED  BY <2>1, <3>1, <3>2, SoundStays
    <2>3. CASE param[r] = Guarded
        <3>1. \A s \in Reloads : ~Replacing(s)'
            BY <1>5, <2>1, <2>3, NobodyWorks DEF NotifyFailed, Control, Working, Replacing
        <3>2. value'[Guarded] = old[r]
            BY <1>5, <2>3 DEF NotifyFailed, TypeOK
        <3>3. Replacing(r)
            BY <1>5, <2>3 DEF NotifyFailed, Replacing
        <3>4. QED
            BY <2>1, <3>1, <3>2, <3>3 DEF Sound, GuardedIsValid, GuardedIsInUse, Returnable
    <2>4. QED  BY <2>2, <2>3
<1>6. CASE BreakerElapses \/ EmergencyShutdown \/ EnableKillSwitch \/ DisableKillSwitch
    <2>1. UNCHANGED <<value, inUse, reload>> /\ hidden \subseteq hidden'
        BY <1>6 DEF BreakerElapses, EmergencyShutdown, EnableKillSwitch, DisableKillSwitch
    <2>2. QED  BY <2>1, SoundStays DEF reload, Replacing
<1>7. CASE UNCHANGED vars
    BY <1>7, SoundStays DEF vars, reload, Replacing
<1>8. QED
    BY <1>1, <1>2, <1>3, <1>4, <1>5, <1>6, <1>7 DEF Next, Step

-------------------------------------------------------------------------------
(* The latest value is on its way.                                             *)

\* An event that waits is not lost by a step of the reload that holds the lock.
LEMMA PendingStays ==
    ASSUME TypeOK, Alone, NEW r \in Reloads, Working(r), phase[r] # "reading",
           NEW ph \in Phases, Goto(r, ph), param' = param, Pending
    PROVE  Pending'
<1>1. PICK s \in Reloads : param[s] = Guarded /\ phase[s] \in {"waiting", "reading"}
    BY DEF Pending
<1>2. s # r
    BY <1>1 DEF Working
<1>3. param'[s] = Guarded /\ phase'[s] \in {"waiting", "reading"}
    BY <1>1, <1>2 DEF Goto, TypeOK
<1>4. QED  BY <1>3 DEF Pending

\* A reload of another parameter disturbs nothing of this.
LEMMA OthersFetch ==
    ASSUME TypeOK, Fetched, Coming, NEW r \in Reloads, param[r] # Guarded, NEW ph \in Phases,
           Goto(r, ph), param' = param, configured' = configured,
           listening' = listening, failureCount' = failureCount, hidden' = hidden,
           value'[Guarded] = value[Guarded], \A s \in Reloads \ {r} : got'[s] = got[s]
    PROVE  Fetched' /\ Coming'
<1>1. \A s \in Reloads : param[s] = Guarded =>
        s # r /\ phase'[s] = phase[s] /\ got'[s] = got[s]
    BY DEF Goto, TypeOK
<1>2. Pending' <=> Pending
    BY <1>1 DEF Pending
<1>3. \A s \in Reloads : Latest(s)' <=> Latest(s)
    BY <1>1 DEF Latest
<1>4. Fetched'
    BY <1>1, <1>2 DEF Fetched
<1>5. Coming'
    BY <1>2, <1>3 DEF Coming
<1>6. QED  BY <1>4, <1>5

\* The end of a working reload leaves no other that has fetched anything.
LEMMA NothingFetched ==
    ASSUME TypeOK, Alone, NEW r \in Reloads, Working(r), Goto(r, "idle"), param' = param
    PROVE  Fetched'
<1>1. \A s \in Reloads : ~Working(s)'
    BY NobodyWorks
<1>2. QED  BY <1>1 DEF Fetched, Working

\* Every step keeps it.
LEMMA ComingStep == TypeOK /\ Control /\ Sound /\ Fetched /\ Coming /\ [Next]_vars
                        => Fetched' /\ Coming'
<1> SUFFICES ASSUME TypeOK, Control, Sound, Fetched, Coming, [Next]_vars
             PROVE  Fetched' /\ Coming'
    OBVIOUS
<1>0. BreakerType /\ Alone
    BY DEF TypeOK, BreakerType, Control
<1>1. ASSUME NEW p \in Params, NEW v \in Values, NEW r \in Reloads, Publish(p, v, r)
      PROVE  Fetched' /\ Coming'
    <2>1. UNCHANGED <<value, got, listening, hidden, failureCount>>
        BY <1>1 DEF Publish, circuit, safety
    <2>2. SUFFICES ASSUME listening PROVE Fetched' /\ Coming'
        BY <2>1 DEF Fetched, Coming
    <2>3. phase'[r] = "waiting" /\ param'[r] = p
        BY <1>1, <2>2 DEF Publish, Goto, TypeOK
    <2>4. CASE p = Guarded
        <3>1. Pending'
            BY <2>3, <2>4 DEF Pending
        <3>2. QED  BY <3>1 DEF Fetched, Coming
    <2>5. CASE p # Guarded
        <3>1. configured'[Guarded] = configured[Guarded]
            BY <1>1, <2>5 DEF Publish, TypeOK
        <3>2. \A s \in Reloads \ {r} : phase'[s] = phase[s] /\ param'[s] = param[s]
            BY <1>1 DEF Publish, Goto, TypeOK
        <3>3. Pending => Pending'
            BY <1>1, <3>2 DEF Publish, Pending
        <3>4. \A s \in Reloads : param'[s] = Guarded /\ phase'[s] \in {"read", "notifying"}
                => param[s] = Guarded /\ phase[s] \in {"read", "notifying"}
            BY <2>3, <3>2
        <3>5. \A s \in Reloads : Latest(s) => Latest(s)'
            BY <1>1, <2>1, <3>1, <3>2 DEF Publish, Latest
        <3>6. Fetched'
            BY <2>1, <3>1, <3>3, <3>4 DEF Fetched
        <3>7. Coming'
            BY <2>1, <3>1, <3>3, <3>5 DEF Coming
        <3>8. QED  BY <3>6, <3>7
    <2>6. QED  BY <2>4, <2>5
<1>2. ASSUME NEW r \in Reloads, Begin(r) PROVE Fetched' /\ Coming'
    <2>1. UNCHANGED <<value, got, param, configured, listening, hidden>>
        BY <1>2 DEF Begin, service, safety
    <2>2. CASE param[r] # Guarded
        <3>1. failureCount' = failureCount /\ Goto(r, "reading")
            BY <1>2, <2>2 DEF Begin, circuit
        <3>2. QED  BY <2>1, <2>2, <3>1, OthersFetch DEF Phases
    <2>3. CASE param[r] = Guarded
        <3>1. \A s \in Reloads : ~Working(s)
            BY <1>2, <2>3 DEF Begin, Locked, Working
        <3>2. phase'[r] \in {"reading", "idle"} /\ \A s \in Reloads \ {r} : phase'[s] = phase[s]
            BY <1>2, <2>3 DEF Begin, Goto, TypeOK
        <3>3. Fetched'
            BY <2>1, <3>1, <3>2 DEF Fetched, Working
        <3>4. CASE phase'[r] = "reading"
            BY <2>1, <2>3, <3>4, <3>3 DEF Pending, Coming
        <3>5. CASE phase'[r] = "idle"
            <4>1. ~BreakerAdmits
                BY <1>2, <2>3, <3>5 DEF Begin, Goto, TypeOK
            <4>2. failureCount' = failureCount /\ failureCount > 0
                BY <1>0, <1>2, <2>3, <4>1, AskedAdmits
                DEF Begin, BreakerAdmits, Control, OpenHasFailed
            <4>3. QED  BY <3>3, <4>2 DEF Coming
        <3>6. QED  BY <3>2, <3>4, <3>5
    <2>4. QED  BY <2>2, <2>3
<1>3. ASSUME NEW r \in Reloads, Read(r) PROVE Fetched' /\ Coming'
    <2>1. /\ UNCHANGED <<value, param, configured, listening, failureCount>>
          /\ param[r] # Guarded => hidden' = hidden
          /\ Goto(r, "read") /\ got' = [got EXCEPT ![r] = configured[param[r]]]
        BY <1>3 DEF Read, service, safety, circuit
    <2>2. CASE param[r] # Guarded
        <3>1. \A s \in Reloads \ {r} : got'[s] = got[s]
            BY <2>1 DEF TypeOK
        <3>2. QED  BY <2>1, <2>2, <3>1, OthersFetch DEF Phases
    <2>3. CASE param[r] = Guarded
        <3>1. got'[r] = configured'[Guarded] /\ phase'[r] = "read" /\ param'[r] = Guarded
            BY <2>1, <2>3 DEF Goto, TypeOK
        <3>2. \A s \in Reloads : param'[s] = Guarded /\ phase'[s] \in {"read", "notifying"} => s = r
            BY <1>0, <1>3, <2>1, <2>3 DEF Read, Goto, TypeOK, Alone, Working
        <3>3. Latest(r)'
            BY <3>1 DEF Latest
        <3>4. QED  BY <3>1, <3>2, <3>3 DEF Fetched, Coming
    <2>4. QED  BY <2>2, <2>3
<1>3a. ASSUME NEW r \in Reloads, ReadNothing(r) PROVE Fetched' /\ Coming'
    <2>1. /\ UNCHANGED <<value, got, param, configured, listening, failureCount>>
          /\ Goto(r, "idle")
        BY <1>3a DEF ReadNothing, service, safety, circuit
    <2>2. CASE param[r] # Guarded
        <3>1. hidden' = hidden
            BY <1>3a, <2>2 DEF ReadNothing
        <3>2. QED  BY <2>1, <2>2, <3>1, OthersFetch DEF Phases
    <2>3. CASE param[r] = Guarded
        <3>1. "nothing" \in hidden'
            BY <1>3a, <2>3 DEF ReadNothing
        <3>2. Fetched'
            BY <1>0, <1>3a, <2>1, <2>3, NothingFetched DEF ReadNothing, Working
        <3>3. QED  BY <3>1, <3>2 DEF Coming
    <2>4. QED  BY <2>2, <2>3
<1>4. ASSUME NEW r \in Reloads, Apply(r) PROVE Fetched' /\ Coming'
    <2>1. UNCHANGED <<param, got, configured, listening, hidden>>
        BY <1>4 DEF Apply, service, safety
    <2>2. CASE param[r] # Guarded
        <3>1. /\ failureCount' = failureCount /\ value'[Guarded] = value[Guarded]
              /\ \E ph \in Phases : Goto(r, ph)
            BY <1>4, <2>2 DEF Apply, circuit, TypeOK, Phases
        <3>2. QED  BY <2>1, <2>2, <3>1, OthersFetch
    <2>3. CASE param[r] = Guarded
        <3>0. phase[r] = "read" /\ Working(r)
            BY <1>4, <2>3 DEF Apply, Working
        <3>1. listening => got[r] = configured[Guarded] \/ Pending
            BY <2>3, <3>0 DEF Fetched
        <3>2. \A ph \in Phases : Goto(r, ph) /\ Pending => Pending'
            BY <1>0, <2>1, <3>0, PendingStays
        <3>3. CASE got[r] = value[Guarded] /\ Goto(r, "idle") /\ UNCHANGED value
            <4>1. Fetched'
                BY <1>0, <2>1, <3>0, <3>3, NothingFetched
            <4>2. Coming'
                BY <2>1, <3>1, <3>2, <3>3 DEF Coming, Phases
            <4>3. QED  BY <4>1, <4>2
        <3>4. CASE BreakerFailure /\ Goto(r, "idle")
            <4>1. Fetched'
                BY <1>0, <2>1, <3>0, <3>4, NothingFetched
            <4>2. failureCount' > 0
                BY <1>0, <3>4, FailureCounts
            <4>3. QED  BY <4>1, <4>2 DEF Coming
        <3>5. CASE value' = [value EXCEPT ![param[r]] = got[r]] /\ Goto(r, "notifying")
            <4>1. value'[Guarded] = got[r]
                BY <2>3, <3>5 DEF TypeOK
            <4>2. \A s \in Reloads : param'[s] = Guarded /\ phase'[s] \in {"read", "notifying"}
                    => s = r
                BY <1>0, <2>1, <2>3, <3>0, <3>5 DEF Goto, TypeOK, Alone, Working
            <4>3. Fetched'
                BY <2>1, <3>1, <3>2, <3>5, <4>2 DEF Fetched, Phases
            <4>4. Coming'
                BY <2>1, <3>1, <3>2, <3>5, <4>1 DEF Coming, Phases
            <4>5. QED  BY <4>3, <4>4
        <3>6. QED  BY <1>4, <2>3, <3>3, <3>4, <3>5 DEF Apply
    <2>4. QED  BY <2>2, <2>3
<1>5. ASSUME NEW r \in Reloads, Notified(r) PROVE Fetched' /\ Coming'
    <2>1. UNCHANGED <<value, got, param, configured, listening>> /\ Goto(r, "idle")
        BY <1>5 DEF Notified, service
    <2>2. CASE param[r] # Guarded
        <3>1. failureCount' = failureCount /\ hidden' = hidden
            BY <1>5, <2>2 DEF Notified, circuit
        <3>2. QED  BY <2>1, <2>2, <3>1, OthersFetch DEF Phases
    <2>3. CASE param[r] = Guarded
        <3>0. Working(r) /\ phase[r] = "notifying"
            BY <1>5, <2>3 DEF Notified, Working
        <3>1. listening => got[r] = configured[Guarded] \/ Pending
            BY <2>3, <3>0 DEF Fetched
        <3>2. value[Guarded] = got[r]
            BY <2>3, <3>0 DEF Sound, Returnable, Replacing
        <3>3. Pending => Pending'
            BY <1>0, <2>1, <3>0, PendingStays DEF Phases
        <3>4. Fetched'
            BY <1>0, <2>1, <3>0, NothingFetched
        <3>5. Coming'
            BY <2>1, <3>1, <3>2, <3>3 DEF Coming
        <3>6. QED  BY <3>4, <3>5
    <2>4. QED  BY <2>2, <2>3
<1>6. ASSUME NEW r \in Reloads, ReadFailed(r) \/ NotifyFailed(r) PROVE Fetched' /\ Coming'
    <2>1. /\ Failed(r) /\ phase[r] \in {"reading", "notifying"}
          /\ UNCHANGED <<got, param, configured, hidden>> /\ Goto(r, "idle")
        BY <1>6 DEF ReadFailed, NotifyFailed, Failed, service
    <2>2. CASE param[r] # Guarded
        <3>1. UNCHANGED <<value, listening, failureCount>>
            BY <1>6, <2>1, <2>2 DEF ReadFailed, NotifyFailed, Failed, circuit, safety
        <3>2. QED  BY <2>1, <2>2, <3>1, OthersFetch DEF Phases
    <2>3. CASE param[r] = Guarded
        <3>1. failureCount' > 0
            BY <1>0, <2>1, <2>3, FailureCounts DEF Failed
        <3>2. Fetched'
            BY <1>0, <2>1, <2>3, NothingFetched DEF Working
        <3>3. QED  BY <3>1, <3>2 DEF Coming
    <2>4. QED  BY <2>2, <2>3
<1>7. CASE EmergencyShutdown
    BY <1>7 DEF EmergencyShutdown, Fetched, Coming
<1>8. CASE BreakerElapses \/ EnableKillSwitch
    <2>1. UNCHANGED <<value, reload, configured, listening, hidden, failureCount>>
        BY <1>8 DEF BreakerElapses, EnableKillSwitch, service, circuit, safety
    <2>2. QED  BY <2>1 DEF Fetched, Coming, Pending, Latest, reload
<1>9. CASE DisableKillSwitch
    <2>1. UNCHANGED <<reload, configured, listening>> /\ "cleared" \in hidden'
        BY <1>9 DEF DisableKillSwitch, service
    <2>2. QED  BY <2>1 DEF Fetched, Coming, Pending, reload
<1>10. CASE UNCHANGED vars
    <2>1. UNCHANGED <<value, reload, configured, listening, hidden, failureCount>>
        BY <1>10 DEF vars, service, circuit, safety
    <2>2. QED  BY <2>1 DEF Fetched, Coming, Pending, Latest, reload
<1>11. QED
    BY <1>1, <1>2, <1>3, <1>3a, <1>4, <1>5, <1>6, <1>7, <1>8, <1>9, <1>10 DEF Next, Step

-------------------------------------------------------------------------------
(* The theorems.                                                               *)

\* The invariant holds at first.
LEMMA InitInv == Init => Inv
<1> SUFFICES ASSUME Init PROVE Inv
    OBVIOUS
<1>1. \A r \in Reloads : phase[r] = "idle"
    BY DEF Init
<1>2. Control
    BY <1>1 DEF Init, Control, Alone, WorkersAdmitted, OpenHasFailed, Deaf, Working
<1>3. value[Guarded] \in Valid /\ inUse = value /\ configured = value
    BY DEF Init
<1>4. Sound
    BY <1>1, <1>3 DEF Sound, GuardedIsValid, GuardedIsInUse, Returnable, Replacing
<1>5. Fetched /\ Coming
    BY <1>1, <1>3 DEF Fetched, Coming
<1>6. QED  BY InitType, <1>2, <1>4, <1>5 DEF Inv

\* The invariant is inductive.
THEOREM Inductive == Spec => []Inv
<1>1. Inv /\ [Next]_vars => Inv'
    BY StepType, ControlStep, SoundStep, ComingStep DEF Inv
<1>2. QED  BY InitInv, <1>1, PTL DEF Spec

\* However reloads overlap, fail and go back, DATABASE_URL is valid, and the one in use
\* unless a handler hid its failure.
THEOREM TheGuardedIsSound == Spec => []GuardedIsSound
<1>1. Inv => GuardedIsSound
    BY DEF Inv, Sound, GuardedIsSound
<1>2. QED  BY Inductive, <1>1, PTL

\* From the failure that is one too many on, no change starts a reload.
THEOREM NoneStartsAfterwards == Spec => FailuresStop
<1>1. Inv /\ [Next]_vars =>
        [failures = EmergencyAfter =>
            \A r \in Reloads : phase[r] = "idle" => phase'[r] = "idle"]_vars
    <2> SUFFICES ASSUME Inv, Next, failures = EmergencyAfter,
                        NEW q \in Reloads, phase[q] = "idle"
                 PROVE  phase'[q] = "idle"
        BY DEF vars
    <2>0. ~listening /\ TypeOK
        BY DEF Inv, Control, Deaf
    <2>1. ASSUME NEW p \in Params, NEW v \in Values, NEW r \in Reloads, Publish(p, v, r)
          PROVE  phase'[q] = "idle"
        BY <2>0, <2>1 DEF Publish
    <2>2. ASSUME NEW r \in Reloads, Step(r) PROVE phase'[q] = "idle"
        <3>1. r # q
            BY <2>2 DEF Step, Begin, Read, ReadNothing, Apply, Notified, ReadFailed, NotifyFailed
        <3>2. \E ph \in Phases : Goto(r, ph)
            BY <2>2 DEF Step, Begin, Read, ReadNothing, Apply, Notified, ReadFailed,
                        NotifyFailed, Failed, Phases
        <3>3. QED  BY <2>0, <3>1, <3>2 DEF Goto, TypeOK
    <2>3. CASE BreakerElapses \/ EmergencyShutdown \/ EnableKillSwitch \/ DisableKillSwitch
        BY <2>3 DEF BreakerElapses, EmergencyShutdown, EnableKillSwitch, DisableKillSwitch,
                    reload
    <2>4. QED  BY <2>1, <2>2, <2>3 DEF Next
<1>2. QED  BY Inductive, <1>1, PTL DEF Spec, FailuresStop

\* Nothing is lost for good while failures are not hidden from the breaker and the
\* last refresh has given a value.
THEOREM QuietHasCaughtUp == Spec => []QuietIsLatest
<1>1. Inv => QuietIsLatest
    BY DEF Inv, Coming, Pending, Latest, QuietIsLatest
<1>2. QED  BY Inductive, <1>1, PTL

\* The lock keeps the breaker from opening between the question and the change.
THEOREM OpenMeansUnchanged == Spec => NoReloadWhileOpen
<1>1. Inv /\ [Next]_vars => [breaker = "open" => value'[Guarded] = value[Guarded]]_vars
    <2> SUFFICES ASSUME Inv, Next, breaker = "open" PROVE value'[Guarded] = value[Guarded]
        BY DEF vars
    <2>1. ASSUME NEW r \in Reloads, Apply(r) \/ NotifyFailed(r)
          PROVE  value'[Guarded] = value[Guarded]
        <3>1. param[r] # Guarded
            BY <2>1 DEF Inv, Control, WorkersAdmitted, Working, Apply, NotifyFailed
        <3>2. QED  BY <2>1, <3>1 DEF Apply, NotifyFailed, Inv, TypeOK
    <2>2. ASSUME NEW r \in Reloads,
                 Begin(r) \/ Read(r) \/ ReadNothing(r) \/ Notified(r) \/ ReadFailed(r)
          PROVE  UNCHANGED value
        BY <2>2 DEF Begin, Read, ReadNothing, Notified, ReadFailed
    <2>3. ASSUME NEW p \in Params, NEW v \in Values, NEW r \in Reloads, Publish(p, v, r)
          PROVE  UNCHANGED value
        BY <2>3 DEF Publish
    <2>4. CASE BreakerElapses \/ EmergencyShutdown \/ EnableKillSwitch \/ DisableKillSwitch
        BY <2>4 DEF BreakerElapses, EmergencyShutdown, EnableKillSwitch, DisableKillSwitch
    <2>5. QED  BY <2>1, <2>2, <2>3, <2>4 DEF Next, Step
<1>2. QED  BY Inductive, <1>1, PTL DEF Spec, NoReloadWhileOpen

================================================================================
