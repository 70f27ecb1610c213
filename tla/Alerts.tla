---------------------------------- MODULE Alerts ----------------------------------
(***************************************************************************)
(* The price alerts of app/services/alert_service.py and the loop that     *)
(* checks them.  The loop looks at the monitored instruments, checks them  *)
(* in tasks of one gather, and forgets the instruments nobody watches.     *)
(* Requests come in before the checks and before the forgetting, and a     *)
(* cancellation waits for the registry with the alert half removed.        *)
(*                                                                         *)
(* The checks of a gather run one after the other without a wait, so they  *)
(* are one step.  A price is whatever triggers the alerts it triggers.     *)
(***************************************************************************)
EXTENDS Integers, FiniteSets

CONSTANTS AlertIds, Watchables,   \* alerts and instruments
          MaxCheckFailures        \* max_check_failures

ASSUME AlertAssumption == MaxCheckFailures \in Nat \ {0}

\* What becomes of an alert when it is checked: it may be triggered, its message cannot
\* be formatted, its value cannot be compared, or no price triggers it (an alert of a
\* trailing stop).
AlertKinds == {"price", "badMessage", "badValue", "other"}

VARIABLES
    alert,       \* _active_alerts: the record of each alert
    listed,      \* the alerts that are in it
    pastDue,     \* alerts past their expires_at
    monitored,   \* _price_subscriptions
    monitoring,  \* _monitoring_task: where the loop is
    visiting,    \* the instruments it found
    withdrawing, \* cancellations that wait for the registry
    notified     \* history: the notifications sent

alertVars == <<alert, listed, pastDue, monitored, monitoring, visiting, withdrawing,
               notified>>

Statuses == {"new", "active", "triggered", "expired", "cancelled", "error"}

AlertTypeOK ==
    /\ alert \in [AlertIds -> [status : Statuses, instrument : Watchables, kind : AlertKinds,
                               failures : 0 .. MaxCheckFailures]]
    /\ {listed, pastDue, withdrawing} \subseteq SUBSET AlertIds
    /\ \A a \in AlertIds : alert[a].status = "new" => a \notin listed \cup withdrawing
    /\ {monitored, visiting} \subseteq SUBSET Watchables
    /\ visiting \subseteq monitored
    /\ monitoring \in {"off", "asleep", "checking", "cleaning", "cancelled"}
    /\ notified \in [AlertIds -> Nat]

AlertsInit ==
    /\ alert \in [AlertIds -> [status : {"new"}, instrument : Watchables, kind : AlertKinds,
                               failures : {0}]]
    /\ listed = {}
    /\ pastDue = {}
    /\ monitored = {}
    /\ monitoring = "off"
    /\ visiting = {}
    /\ withdrawing = {}
    /\ notified = [a \in AlertIds |-> 0]

Active == {a \in listed : alert[a].status = "active"}

-----------------------------------------------------------------------------
(* Requests.                                                               *)

\* A task that is done is replaced; one that is cancelled is not done yet.
CreateAlert(a) ==
    /\ alert[a].status = "new"
    /\ alert' = [alert EXCEPT ![a].status = "active"]
    /\ listed' = listed \cup {a}
    /\ monitored' = monitored \cup {alert[a].instrument}
    /\ monitoring' = IF monitoring = "off" THEN "asleep" ELSE monitoring
    /\ UNCHANGED <<pastDue, visiting, withdrawing, notified>>

AlertExpires(a) ==
    /\ alert[a].status = "active"
    /\ a \notin pastDue
    /\ pastDue' = pastDue \cup {a}
    /\ UNCHANGED <<alert, listed, monitored, monitoring, visiting, withdrawing, notified>>

\* Mutant: the alert is cancelled when it has been removed.
CancelLater(a) ==
    /\ a \in listed \ withdrawing
    /\ withdrawing' = withdrawing \cup {a}
    /\ UNCHANGED <<alert, listed, pastDue, monitored, monitoring, visiting, notified>>

\* Whatever its status is, a listed alert can be cancelled.  (A second cancellation that
\* comes while the first one waits changes nothing more: the later one raises.)
CancelAlert(a) ==
    /\ a \in listed \ withdrawing
    /\ alert' = [alert EXCEPT ![a].status = "cancelled"]
    /\ withdrawing' = withdrawing \cup {a}
    /\ UNCHANGED <<listed, pastDue, monitored, monitoring, visiting, notified>>

\* Without metadata the stand-in for it raises, and the alert stays listed.
CancelAnswered(a) ==
    /\ a \in withdrawing
    /\ withdrawing' = withdrawing \ {a}
    /\ \/ listed' = listed \ {a}
       \/ UNCHANGED listed
    /\ UNCHANGED <<alert, pastDue, monitored, monitoring, visiting, notified>>

ShutdownAlerts ==
    /\ monitoring \in {"asleep", "checking", "cleaning"}
    /\ monitoring' = "cancelled"
    /\ visiting' = {}
    /\ UNCHANGED <<alert, listed, pastDue, monitored, withdrawing, notified>>

-----------------------------------------------------------------------------
(* The loop.                                                               *)

LoopEnds ==
    /\ monitoring = "cancelled"
    /\ monitoring' = "off"
    /\ UNCHANGED <<alert, listed, pastDue, monitored, visiting, withdrawing, notified>>

LoopLooks ==
    /\ monitoring = "asleep"
    /\ monitored # {}
    /\ monitoring' = "checking"
    /\ visiting' = monitored
    /\ UNCHANGED <<alert, listed, pastDue, monitored, withdrawing, notified>>

\* Mutant: one failure more than the limit is let pass.
CheckFailsBeyond(record) ==
    LET count == record.failures + 1
    IN  [record EXCEPT !.failures = count,
                       !.status = IF count > MaxCheckFailures THEN "error" ELSE @]

CheckFails(record) ==
    LET count == record.failures + 1
    IN  [record EXCEPT !.failures = count,
                       !.status = IF count >= MaxCheckFailures THEN "error" ELSE @]

\* Mutant: an alert that no price triggers is skipped before its time is looked at.
EvaluatedSkipping(a, triggers) ==
    LET record == alert[a]
    IN  CASE record.kind = "other" -> record
          [] a \in pastDue -> [record EXCEPT !.status = "expired"]
          [] a \notin pastDue /\ record.kind = "badValue" -> CheckFails(record)
          [] OTHER -> IF triggers THEN [record EXCEPT !.status = "triggered"] ELSE record

\* An alert whose message cannot be formatted is triggered already when that fails.
Evaluated(a, triggers) ==
    LET record == alert[a]
        done == [record EXCEPT !.status = "triggered"]
    IN  CASE a \in pastDue -> [record EXCEPT !.status = "expired"]
          [] a \notin pastDue /\ record.kind = "badValue" -> CheckFails(record)
          [] a \notin pastDue /\ record.kind = "badMessage" ->
                IF triggers THEN CheckFails(done) ELSE record
          [] a \notin pastDue /\ record.kind = "price" -> IF triggers THEN done ELSE record
          [] OTHER -> record

\* Mutant: every alert of the instrument that is listed.
CheckedAnyway == {a \in listed : alert[a].instrument \in visiting}

Checked == {a \in Active : alert[a].instrument \in visiting}

CheckInstruments ==
    /\ monitoring = "checking"
    /\ \E triggers \in SUBSET Checked :
          LET sent == {a \in triggers : alert[a].kind = "price" /\ a \notin pastDue}
          IN  /\ alert' = [a \in AlertIds |->
                              IF a \in Checked THEN Evaluated(a, a \in triggers) ELSE alert[a]]
              /\ listed' = listed \ sent
              /\ notified' = [a \in AlertIds |-> notified[a] + IF a \in sent THEN 1 ELSE 0]
    /\ monitoring' = "cleaning"
    /\ UNCHANGED <<pastDue, monitored, visiting, withdrawing>>

\* Mutant: the instruments are those the checks left without an active alert.
UnwatchedOfRound == {i \in visiting : \E a \in listed \ Active : alert[a].instrument = i}

Unwatched == {i \in monitored : \A a \in Active : alert[a].instrument # i}

CleanupPriceSubscriptions ==
    /\ monitoring = "cleaning"
    /\ monitored' = monitored \ Unwatched
    /\ visiting' = {}
    /\ monitoring' = "asleep"
    /\ UNCHANGED <<alert, listed, pastDue, withdrawing, notified>>

MonitoringStep == LoopLooks \/ CheckInstruments \/ CleanupPriceSubscriptions

AlertsNext ==
    \/ \E a \in AlertIds :
          CreateAlert(a) \/ AlertExpires(a) \/ CancelAlert(a) \/ CancelAnswered(a)
    \/ ShutdownAlerts \/ LoopEnds \/ MonitoringStep

\* The loop sleeps check_interval and its checks do not wait for anybody.
AlertsSpec == AlertsInit /\ [][AlertsNext]_alertVars /\ WF_alertVars(MonitoringStep)

-----------------------------------------------------------------------------
(* Properties.                                                             *)

\* As long as an alert is active its instrument is monitored, whatever came and went
\* while the loop was in the middle of a round.
WatchedWhileActive == \A a \in Active : alert[a].instrument \in monitored

\* Nobody is notified twice, nor of an alert that was cancelled, expired or given up
\* before: also when the cancellation failed half way and the alert is listed still.
SettledIsSilent ==
    [][\A a \in AlertIds :
          notified'[a] # notified[a] => notified[a] = 0 /\ alert[a].status = "active"]_alertVars

\* A cancelled alert stays cancelled, though checks go on while the cancellation waits.
CancelledStays ==
    [][\A a \in AlertIds : a \in withdrawing => alert'[a].status = "cancelled"]_alertVars

\* An alert past its time is settled in one way or another, unless the loop was shut
\* down and no new alert has started it again.
OverdueIsSettled ==
    \A a \in AlertIds :
        a \in pastDue /\ alert[a].status = "active"
            ~> \/ alert[a].status # "active"
               \/ monitoring \in {"cancelled", "off"}

\* What an alert promises its user: it is watched until it is settled, it is settled in
\* the end, and it tells nothing after that.
AlertPromise ==
    /\ [](AlertTypeOK /\ WatchedWhileActive)
    /\ SettledIsSilent
    /\ CancelledStays
    /\ OverdueIsSettled
=============================================================================
