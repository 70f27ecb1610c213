-------------------------------- MODULE HotConfig --------------------------------
(* Hot reload of configuration parameters (app/core/hot_config.py) and the       *)
(* handlers the application registers for it (app/main.py).  A change event      *)
(* starts a coroutine that takes the parameter's lock, reads the current value   *)
(* from the config service, stores it in the configuration and awaits the        *)
(* application's handler.  DATABASE_URL is guarded: validated, rolled back on    *)
(* failure, behind a circuit breaker; every other parameter has none of these.   *)
EXTENDS Integers, FiniteSets

CONSTANTS Params, Guarded,     \* the parameters; Guarded is DATABASE_URL
          Values, Valid,       \* values, and those the schema accepts
          Reloads,             \* bound: events handled at the same time
          MaxPublish,          \* bound: changes in the config service
          FailureThreshold, HalfOpenMaxCalls,  \* of the breaker
          EmergencyAfter,      \* the literal 3: consecutive failures tolerated
          Outcomes,            \* what a handler may do: done, swallowed, raised
          Answers,             \* what a refresh may give: value, nothing, raised
          Operator             \* whether kill switch and delete events are used

ASSUME HotConfigAssumption ==
    /\ Guarded \in Params
    /\ Valid \subseteq Values
    /\ IsFiniteSet(Reloads)
    /\ MaxPublish \in Nat
    /\ FailureThreshold \in Nat \ {0}
    /\ HalfOpenMaxCalls \in Nat \ {0}
    /\ EmergencyAfter \in Nat \ {0}
    /\ Outcomes \subseteq {"done", "swallowed", "raised"}
    /\ Answers \subseteq {"value", "nothing", "raised"}
    /\ Operator \in BOOLEAN

VARIABLES
    configured,   \* the config service's values
    published,    \* changes made so far
    value,        \* the attributes of the configuration object
    inUse,        \* what the application's connections were built with
    phase,        \* of each reload
    param,        \* the parameter of its event
    got,          \* the value it has read
    old,          \* the value it has replaced
    breaker,      \* _circuit_breaker._state
    elapsed,      \* the recovery timeout of an open breaker is over
    failureCount, \* _failure_count, up to the threshold
    halfOpenCalls,\* _half_open_calls
    failures,     \* consecutive_failures, up to EmergencyAfter
    killed,       \* _kill_switch_enabled
    listening,    \* the notification client delivers events
    hidden        \* history: what went wrong with the guarded parameter uncounted

service == <<configured, published>>
reload == <<phase, param, got, old>>
circuit == <<breaker, elapsed, failureCount, halfOpenCalls>>
safety == <<failures, killed, listening>>
vars == <<service, value, inUse, reload, circuit, safety, hidden>>

Phases == {"idle", "waiting", "reading", "read", "notifying"}

TypeOK ==
    /\ configured \in [Params -> Values]
    /\ published \in 0 .. MaxPublish
    /\ value \in [Params -> Values]
    /\ inUse \in [Params -> Values]
    /\ phase \in [Reloads -> Phases]
    /\ param \in [Reloads -> Params]
    /\ got \in [Reloads -> Values]
    /\ old \in [Reloads -> Values]
    /\ breaker \in {"closed", "open", "half_open"}
    /\ elapsed \in BOOLEAN
    /\ failureCount \in 0 .. FailureThreshold
    /\ halfOpenCalls \in 0 .. HalfOpenMaxCalls - 1
    /\ failures \in 0 .. EmergencyAfter
    /\ killed \in BOOLEAN
    /\ listening \in BOOLEAN
    /\ hidden \subseteq {"swallowed", "cleared", "nothing"}

Init ==
    /\ \E v \in Valid :
        /\ configured = [p \in Params |-> v]
        /\ value = configured
        /\ inUse = configured
        /\ got = [r \in Reloads |-> v]
        /\ old = got
    /\ published = 0
    /\ phase = [r \in Reloads |-> "idle"]
    /\ param = [r \in Reloads |-> Guarded]
    /\ breaker = "closed" /\ elapsed = FALSE
    /\ failureCount = 0 /\ halfOpenCalls = 0
    /\ failures = 0 /\ killed = FALSE /\ listening = TRUE
    /\ hidden = {}
-------------------------------------------------------------------------------
(* The circuit breaker.                                                          *)

\* Mutant: one success more than half_open_max_calls is waited for.
BreakerSuccessLate ==
    \/ /\ breaker = "half_open"
       /\ halfOpenCalls + 1 > HalfOpenMaxCalls
       /\ breaker' = "closed" /\ failureCount' = 0 /\ halfOpenCalls' = 0
       /\ UNCHANGED elapsed
    \/ /\ breaker = "half_open"
       /\ halfOpenCalls + 1 <= HalfOpenMaxCalls
       /\ halfOpenCalls' = halfOpenCalls + 1
       /\ UNCHANGED <<breaker, elapsed, failureCount>>
    \/ /\ breaker = "closed"
       /\ failureCount' = 0
       /\ UNCHANGED <<breaker, elapsed, halfOpenCalls>>
    \/ breaker = "open" /\ UNCHANGED circuit

BreakerSuccess ==
    \/ /\ breaker = "half_open"
       /\ halfOpenCalls + 1 >= HalfOpenMaxCalls
       /\ breaker' = "closed" /\ failureCount' = 0 /\ halfOpenCalls' = 0
       /\ UNCHANGED elapsed
    \/ /\ breaker = "half_open"
       /\ halfOpenCalls + 1 < HalfOpenMaxCalls
       /\ halfOpenCalls' = halfOpenCalls + 1
       /\ UNCHANGED <<breaker, elapsed, failureCount>>
    \/ /\ breaker = "closed"
       /\ failureCount' = 0
       /\ UNCHANGED <<breaker, elapsed, halfOpenCalls>>
    \/ breaker = "open" /\ UNCHANGED circuit

\* A trip starts the recovery timeout.
BreakerFailure ==
    /\ failureCount' = IF failureCount < FailureThreshold THEN failureCount + 1
                       ELSE failureCount
    /\ \/ /\ \/ breaker = "half_open"
             \/ breaker = "closed" /\ failureCount' = FailureThreshold
          /\ breaker' = "open" /\ elapsed' = FALSE
       \/ /\ breaker = "open" \/ (breaker = "closed" /\ failureCount' < FailureThreshold)
          /\ UNCHANGED <<breaker, elapsed>>
    /\ UNCHANGED halfOpenCalls

BreakerElapses ==
    /\ breaker = "open" /\ ~elapsed
    /\ elapsed' = TRUE
    /\ UNCHANGED <<service, value, inUse, reload, breaker, failureCount,
                   halfOpenCalls, safety, hidden>>

\* is_open: an open breaker whose timeout is over becomes half open.
BreakerAdmits == breaker = "open" => elapsed
BreakerAsked ==
    IF breaker = "open" /\ elapsed
    THEN breaker' = "half_open" /\ halfOpenCalls' = 0 /\ UNCHANGED <<elapsed, failureCount>>
    ELSE UNCHANGED circuit
-------------------------------------------------------------------------------
Goto(r, p) == phase' = [phase EXCEPT ![r] = p]
Locked(p) == \E r \in Reloads : param[r] = p /\ phase[r] \notin {"idle", "waiting"}

\* A change in the config service; its event starts a coroutine.
Publish(p, v, r) ==
    /\ published < MaxPublish
    /\ v # configured[p]
    /\ phase[r] = "idle"
    /\ published' = published + 1
    /\ configured' = [configured EXCEPT ![p] = v]
    /\ \/ listening /\ Goto(r, "waiting") /\ param' = [param EXCEPT ![r] = p]
       \/ ~listening /\ UNCHANGED <<phase, param>>
    /\ UNCHANGED <<value, inUse, got, old, circuit, safety, hidden>>

\* Mutant: the coroutine does not take the lock.
BeginUnlocked(r) ==
    /\ phase[r] = "waiting"
    /\ \/ param[r] # Guarded /\ Goto(r, "reading") /\ UNCHANGED circuit
       \/ /\ param[r] = Guarded
          /\ Goto(r, IF BreakerAdmits THEN "reading" ELSE "idle")
          /\ BreakerAsked
    /\ UNCHANGED <<service, value, inUse, param, got, old, safety, hidden>>

\* With the lock taken the guarded parameter asks the breaker; a change that it
\* turns away is not looked at again.
Begin(r) ==
    /\ phase[r] = "waiting"
    /\ ~Locked(param[r])
    /\ \/ param[r] # Guarded /\ Goto(r, "reading") /\ UNCHANGED circuit
       \/ /\ param[r] = Guarded
          /\ Goto(r, IF BreakerAdmits THEN "reading" ELSE "idle")
          /\ BreakerAsked
    /\ UNCHANGED <<service, value, inUse, param, got, old, safety, hidden>>

\* The config service answers with the value it has by then.
Read(r) ==
    /\ "value" \in Answers
    /\ phase[r] = "reading"
    /\ got' = [got EXCEPT ![r] = configured[param[r]]]
    /\ Goto(r, "read")
    /\ hidden' = IF param[r] = Guarded THEN hidden \ {"nothing"} ELSE hidden
    /\ UNCHANGED <<service, value, inUse, param, old, circuit, safety>>

\* It gives None or an empty value: the event is over, and nobody counts it.
ReadNothing(r) ==
    /\ "nothing" \in Answers
    /\ phase[r] = "reading"
    /\ Goto(r, "idle")
    /\ hidden' = IF param[r] = Guarded THEN hidden \cup {"nothing"} ELSE hidden
    /\ UNCHANGED <<service, value, inUse, param, got, old, circuit, safety>>

\* Mutant: the new value is applied without asking the schema.
ApplyUnvalidated(r) ==
    /\ phase[r] = "read"
    /\ LET p == param[r] v == got[r] IN
        \/ v = value[p] /\ Goto(r, "idle") /\ UNCHANGED <<value, old, circuit>>
        \/ /\ v # value[p]
           /\ value' = [value EXCEPT ![p] = v]
           /\ old' = [old EXCEPT ![r] = value[p]]
           /\ Goto(r, "notifying")
           /\ UNCHANGED circuit
    /\ UNCHANGED <<service, inUse, param, got, safety, hidden>>

\* Only the guarded parameter is validated.
Apply(r) ==
    /\ phase[r] = "read"
    /\ LET p == param[r] v == got[r] IN
        \/ v = value[p] /\ Goto(r, "idle") /\ UNCHANGED <<value, old, circuit>>
        \/ /\ v # value[p]
           /\ p = Guarded /\ v \notin Valid
           /\ BreakerFailure
           /\ Goto(r, "idle")
           /\ UNCHANGED <<value, old>>
        \/ /\ v # value[p]
           /\ p = Guarded => v \in Valid
           /\ value' = [value EXCEPT ![p] = v]
           /\ old' = [old EXCEPT ![r] = value[p]]
           /\ Goto(r, "notifying")
           /\ UNCHANGED circuit
    /\ UNCHANGED <<service, inUse, param, got, safety, hidden>>

\* The handler returned; one of the application's may have caught its own error.
Notified(r) ==
    /\ phase[r] = "notifying"
    /\ \/ /\ "done" \in Outcomes
          /\ inUse' = [inUse EXCEPT ![param[r]] = got[r]]
          /\ hidden' = IF param[r] = Guarded THEN {} ELSE hidden
       \/ /\ "swallowed" \in Outcomes
          /\ hidden' = IF param[r] = Guarded THEN {"swallowed"} ELSE hidden
          /\ UNCHANGED inUse
    /\ Goto(r, "idle")
    /\ IF param[r] = Guarded THEN BreakerSuccess /\ failures' = 0
       ELSE UNCHANGED <<circuit, failures>>
    /\ UNCHANGED <<service, value, param, got, old, killed, listening>>

\* Mutant: the third failure enables the kill switch, no more.
FailedKilling(r) ==
    /\ Goto(r, "idle")
    /\ IF param[r] = Guarded
       THEN /\ BreakerFailure
            /\ failures' = IF failures < EmergencyAfter THEN failures + 1 ELSE failures
            /\ killed' = (killed \/ failures' = EmergencyAfter)
            /\ UNCHANGED listening
       ELSE UNCHANGED <<circuit, safety>>
    /\ UNCHANGED <<service, inUse, param, got, old, hidden>>

\* Reading or notifying raised.  The guarded parameter counts the failure, and
\* the third in a row enables the kill switch and stops the notifications.
Failed(r) ==
    /\ Goto(r, "idle")
    /\ IF param[r] = Guarded
       THEN /\ BreakerFailure
            /\ failures' = IF failures < EmergencyAfter THEN failures + 1 ELSE failures
            /\ killed' = (killed \/ failures' = EmergencyAfter)
            /\ listening' = (listening /\ failures' < EmergencyAfter)
       ELSE UNCHANGED <<circuit, safety>>
    /\ UNCHANGED <<service, inUse, param, got, old, hidden>>

ReadFailed(r) ==
    /\ "raised" \in Answers
    /\ phase[r] = "reading"
    /\ Failed(r)
    /\ UNCHANGED value

\* Mutant: a failed reload of the guarded parameter keeps the new value.
NotifyFailedKeeping(r) ==
    /\ "raised" \in Outcomes
    /\ phase[r] = "notifying"
    /\ Failed(r)
    /\ UNCHANGED value

NotifyFailed(r) ==
    /\ "raised" \in Outcomes
    /\ phase[r] = "notifying"
    /\ value' = IF param[r] = Guarded THEN [value EXCEPT ![Guarded] = old[r]] ELSE value
    /\ Failed(r)
-------------------------------------------------------------------------------
(* The operator.                                                                 *)

\* A deleted DATABASE_URL, or POST .../hot-reload/emergency-shutdown.
EmergencyShutdown ==
    /\ Operator
    /\ killed' = TRUE
    /\ listening' = FALSE
    /\ UNCHANGED <<service, value, inUse, reload, circuit, failures, hidden>>

EnableKillSwitch ==
    /\ Operator
    /\ killed' = TRUE
    /\ UNCHANGED <<service, value, inUse, reload, circuit, failures, listening, hidden>>

DisableKillSwitch ==
    /\ Operator
    /\ killed
    /\ killed' = FALSE
    /\ failures' = 0
    /\ breaker' = "closed" /\ failureCount' = 0 /\ halfOpenCalls' = 0
    /\ hidden' = hidden \cup {"cleared"}
    /\ UNCHANGED <<service, value, inUse, reload, elapsed, listening>>

Step(r) ==
    Begin(r) \/ Read(r) \/ ReadNothing(r) \/ Apply(r) \/ Notified(r) \/ ReadFailed(r) \/ NotifyFailed(r)

Next ==
    \/ \E p \in Params, v \in Values, r \in Reloads : Publish(p, v, r)
    \/ \E r \in Reloads : Step(r)
    \/ BreakerElapses
    \/ EmergencyShutdown \/ EnableKillSwitch \/ DisableKillSwitch

Spec == Init /\ [][Next]_vars
-------------------------------------------------------------------------------
(* Properties.                                                                   *)

\* DATABASE_URL always holds a value that passed its schema: invalid values,
\* failed handlers and rollbacks in any order leave no other one behind.
GuardedIsValid == value[Guarded] \in Valid

\* "Rollback on handler failure": whenever no reload of DATABASE_URL is under
\* way, the configuration names the database the connections were built with,
\* unless the last handler to return had caught its error itself.
Reloading(p) == \E r \in Reloads : param[r] = p /\ phase[r] = "notifying"
GuardedIsInUse ==
    ~Reloading(Guarded) /\ "swallowed" \notin hidden => value[Guarded] = inUse[Guarded]

\* "Too many consecutive failures, triggering emergency shutdown": from the third
\* failure in a row on no change of any parameter starts a reload, since the
\* notifications have stopped.  Those that wait for a lock already are not stopped:
\* the handlers do not ask the kill switch.
FailuresStop ==
    [][failures = EmergencyAfter =>
        \A r \in Reloads : phase[r] = "idle" => phase'[r] = "idle"]_vars

\* A new DATABASE_URL is never applied while the breaker is open: the lock keeps
\* a failing reload from tripping it between another one's check and its apply.
NoReloadWhileOpen ==
    [][breaker = "open" => value'[Guarded] = value[Guarded]]_vars

\* When all events are handled and the breaker counts no failure, DATABASE_URL is
\* the last published value, though events wait for the lock in any order and the
\* breaker drops some: a success that clears the count has caught up.  (An operator
\* who clears the count by hand, or stops the notifications, has not; and a refresh
\* that gave nothing lost its change without a failure, until another one gives a value.)
QuietIsLatest ==
    (/\ \A r \in Reloads : phase[r] = "idle"
     /\ breaker = "closed" /\ failureCount = 0
     /\ listening /\ hidden \cap {"cleared", "nothing"} = {})
        => value[Guarded] = configured[Guarded]

\* What the guard promises: the configured database is a valid one and the one in use.
GuardedIsSound ==
    /\ GuardedIsValid
    /\ GuardedIsInUse
===============================================================================
