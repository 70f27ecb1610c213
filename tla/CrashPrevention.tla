------------------------------ MODULE CrashPrevention ------------------------------
(***************************************************************************)
(* The executions of external functions (app/security/crash_prevention.py):*)
(* a call of execute_with_crash_prevention enters its name in a table,     *)
(* starts a thread that watches the limits, lets a pool run the function   *)
(* and waits for it.  The calls are coroutines of the main thread, which   *)
(* also runs the handler of SIGTERM and SIGINT, between any two of their   *)
(* steps.  A test of the table and the access that follows it are one step:*)
(* the interpreter (3.11 and later) switches threads only at calls and     *)
(* backward jumps.                                                         *)
(***************************************************************************)
EXTENDS Naturals, FiniteSets

CONSTANTS Executions,     \* calls of execute_with_crash_prevention
          Names,          \* execution_id: the user, the function and the second
          MaxConcurrent,  \* max_concurrent_executions
          NoExecution

ASSUME CrashAssumption ==
    /\ MaxConcurrent \in Nat \ {0}
    /\ NoExecution \notin Executions

VARIABLES
    exec,       \* what each call is doing
    nameOf,     \* its name, once it has begun
    active,     \* active_executions: the call entered under each name
    halted,     \* the calls whose stop_event is set
    monitor,    \* what the thread that watches each call is doing
    emergency,  \* emergency_stop
    signalled,  \* a signal has come that the main thread has not handled
    late        \* history: calls that were entered during an emergency

crashVars == <<exec, nameOf, active, halted, monitor, emergency, signalled, late>>

Entered == {x \in Names : active[x] # NoExecution}
Waiting == {e \in Executions : exec[e] = "inside"}

\* One of the calls keeps the main thread: between its tests, or at the end of its watcher.
MainFree == \A e \in Executions : exec[e] \notin {"admitted", "leaving"}

CrashTypeOK ==
    /\ exec \in [Executions -> {"new", "admitted", "inside", "leaving", "ended", "refused"}]
    /\ nameOf \in [Executions -> Names]
    /\ active \in [Names -> Executions \cup {NoExecution}]
    /\ halted \subseteq Executions
    /\ monitor \in [Executions -> {"off", "watching", "signalling", "removing"}]
    /\ emergency \in BOOLEAN /\ signalled \in BOOLEAN
    /\ late \subseteq Executions

\* The names of the calls are part of the initial state.
CrashInit ==
    /\ exec = [e \in Executions |-> "new"]
    /\ nameOf \in [Executions -> Names]
    /\ active = [x \in Names |-> NoExecution]
    /\ halted = {}
    /\ monitor = [e \in Executions |-> "off"]
    /\ emergency = FALSE /\ signalled = FALSE
    /\ late = {}
-----------------------------------------------------------------------------
\* Mutant: only the stability of the system is asked for.
AdmitsAnyway == TRUE

Admits == ~emergency

\* An unstable system refuses as well.
Admit(e) ==
    /\ exec[e] = "new" /\ MainFree
    /\ \/ Admits /\ exec' = [exec EXCEPT ![e] = "admitted"]
       \/ exec' = [exec EXCEPT ![e] = "refused"]
    /\ UNCHANGED <<nameOf, active, halted, monitor, emergency, signalled, late>>

\* Mutant: the limit itself may be passed.
RoomBeyond == Cardinality(Entered) <= MaxConcurrent

Room == Cardinality(Entered) < MaxConcurrent

NoRoom(e) ==
    /\ exec[e] = "admitted" /\ ~Room
    /\ exec' = [exec EXCEPT ![e] = "refused"]
    /\ UNCHANGED <<nameOf, active, halted, monitor, emergency, signalled, late>>

\* A call of the same name is overwritten.  The limits that are set are those of the
\* whole process, so the watcher may fail when it looks for its process, and there may
\* be no thread for it: then the call ends at once.
EnterContext(e) ==
    /\ exec[e] = "admitted" /\ Room
    /\ active' = [active EXCEPT ![nameOf[e]] = e]
    /\ \/ /\ exec' = [exec EXCEPT ![e] = "inside"]
          /\ monitor' \in {[monitor EXCEPT ![e] = "watching"], monitor}
          /\ UNCHANGED halted
       \/ /\ exec' = [exec EXCEPT ![e] = "leaving"]
          /\ halted' = halted \cup {e}
          /\ UNCHANGED monitor
    /\ late' = IF emergency THEN late \cup {e} ELSE late
    /\ UNCHANGED <<nameOf, emergency, signalled>>

\* The function has ended, the time is over or the call is cancelled.  A function that
\* has a thread by then keeps it.
Return(e) ==
    /\ exec[e] = "inside" /\ MainFree
    /\ exec' = [exec EXCEPT ![e] = "leaving"]
    /\ halted' = halted \cup {e}
    /\ UNCHANGED <<nameOf, active, monitor, emergency, signalled, late>>

\* Mutant: the table is cleared only of what has an own watcher still.
KeptEntry(e) == IF monitor[e] = "off" THEN active ELSE [active EXCEPT ![nameOf[e]] = NoExecution]

\* The name is removed, whoever has it.
RemoveEntry(e) == [active EXCEPT ![nameOf[e]] = NoExecution]

\* The watcher has ended, or was waited for long enough.
Leave(e) ==
    /\ exec[e] = "leaving"
    /\ exec' = [exec EXCEPT ![e] = "ended"]
    /\ active' = RemoveEntry(e)
    /\ UNCHANGED <<nameOf, halted, monitor, emergency, signalled, late>>
-----------------------------------------------------------------------------
\* A limit is passed when the watcher looks, which it may still do when it need not any
\* more, and whoever has the name is told to stop.
TerminateExecution(e) ==
    /\ monitor[e] = "watching"
    /\ IF active[nameOf[e]] = NoExecution
         THEN monitor' = [monitor EXCEPT ![e] = "off"] /\ UNCHANGED halted
         ELSE /\ monitor' = [monitor EXCEPT ![e] = "signalling"]
              /\ halted' = halted \cup {active[nameOf[e]]}
    /\ UNCHANGED <<exec, nameOf, active, emergency, signalled, late>>

\* Mutant: the watcher only stops the execution it watches.
NoSignal == UNCHANGED signalled

\* The process signals itself.
Kill == signalled' = TRUE

SignalProcess(e) ==
    /\ monitor[e] = "signalling"
    /\ monitor' = [monitor EXCEPT ![e] = "removing"]
    /\ Kill
    /\ UNCHANGED <<exec, nameOf, active, halted, emergency, late>>

RemoveTerminated(e) ==
    /\ monitor[e] = "removing"
    /\ monitor' = [monitor EXCEPT ![e] = "off"]
    /\ active' = RemoveEntry(e)
    /\ UNCHANGED <<exec, nameOf, halted, emergency, signalled, late>>

\* The watcher sees that it is not needed any more.
MonitorEnds(e) ==
    /\ monitor[e] = "watching" /\ (e \in halted \/ emergency)
    /\ monitor' = [monitor EXCEPT ![e] = "off"]
    /\ UNCHANGED <<exec, nameOf, active, halted, emergency, signalled,
                   late>>

\* What the main thread does with a call that it has admitted.
CallStep(e) == NoRoom(e) \/ EnterContext(e) \/ Return(e) \/ Leave(e)

MonitorStep(e) == SignalProcess(e) \/ RemoveTerminated(e) \/ MonitorEnds(e)
-----------------------------------------------------------------------------
\* Terminating one execution signals the process again, and the handler runs within
\* itself until the table is empty.
EmergencyHandler ==
    /\ signalled
    /\ signalled' = FALSE
    /\ emergency' = TRUE
    /\ halted' = halted \cup {active[x] : x \in Entered}
    /\ active' = [x \in Names |-> NoExecution]
    /\ UNCHANGED <<exec, nameOf, monitor, late>>

\* A signal from outside, or shutdown.  The bound: none during the emergency.
Signalled ==
    /\ ~signalled /\ ~emergency
    /\ signalled' = TRUE
    /\ UNCHANGED <<exec, nameOf, active, halted, monitor, emergency,
                   late>>

CrashNext ==
    \/ \E e \in Executions :
          \/ Admit(e) \/ CallStep(e)
          \/ TerminateExecution(e) \/ MonitorStep(e)
    \/ EmergencyHandler \/ Signalled

\* The main thread and the watchers run, and wait_for ends every call.
CrashSpec ==
    /\ CrashInit /\ [][CrashNext]_crashVars
    /\ WF_crashVars(EmergencyHandler)
    /\ \A e \in Executions :
          /\ WF_crashVars(CallStep(e))
          /\ WF_crashVars(MonitorStep(e))
-----------------------------------------------------------------------------
(* Properties.                                                             *)

\* No other call was entered under the name of e.
Alone(e) ==
    \A d \in Executions \ {e} :
        exec[d] \in {"new", "admitted", "refused"} \/ nameOf[d] # nameOf[e]

\* A call that waits is in the table, so that it counts and can be terminated, unless
\* it was terminated or its name is that of another.
WaitingIsEntered ==
    \A e \in Waiting : active[nameOf[e]] = e \/ e \in halted \/ ~Alone(e)

\* No more calls than MaxConcurrent wait but for those that were told to stop or have
\* the name of another: what is counted are names.
ConcurrencyBounded ==
    Cardinality({e \in Waiting : e \notin halted /\ Alone(e)}) <= MaxConcurrent

\* The handler may run after a call has found no emergency: that one call is still
\* entered, and no other ever again.
OneIsLate == Cardinality(late) <= 1

\* What is left in the table when no call waits is nothing.
NothingIsLeft ==
    (\A e \in Executions : exec[e] \in {"new", "ended", "refused"}) => Entered = {}

\* A limit that is passed ends the execution of functions for good, whatever the call
\* that passed it does meanwhile.
ViolationStopsAll == (\E e \in Executions : monitor[e] = "signalling") ~> emergency

\* Every call is answered, whether its function ends or not.
CallsAreAnswered == <>[](Waiting = {} /\ MainFree)

\* The table and those who wait agree, up to what has an ambiguous name.
CrashSafe ==
    /\ CrashTypeOK
    /\ WaitingIsEntered
    /\ ConcurrencyBounded
    /\ OneIsLate
    /\ NothingIsLeft

\* What the executions of external functions promise.
CrashPromise ==
    /\ []CrashSafe
    /\ ViolationStopsAll
    /\ CallsAreAnswered
===================================================================================
