-------------------------- MODULE AlertLifecycle --------------------------
(***************************************************************************)
(* What Signals promises of an alert: it is created once, and from then on *)
(* every operation (an evaluation that observes its condition or no longer *)
(* does, an acknowledgment, an assignment) acts at once on the alert as it *)
(* is, counts one revision and leaves one entry in its history.  Only an   *)
(* observation acts on a resolved alert, and it reopens it.                *)
(*                                                                         *)
(* signals/service.go reads an alert in one step and stores the changed    *)
(* copy in another; SignalsAlerts models that and implements this module.  *)
(***************************************************************************)
EXTENDS AlertRecord

CONSTANT Alerts   \* the ids of alerts, each the digest of a rule and a target

VARIABLES
    alert,    \* the stored row of each id
    history   \* the stored history of each id, oldest entry first

lifeVars == <<alert, history>>

Init ==
    /\ alert = [a \in Alerts |-> AbsentAlert]
    /\ history = [a \in Alerts |-> <<>>]

Store(a, row, action) ==
    /\ alert' = [alert EXCEPT ![a] = row]
    /\ history' = [history EXCEPT ![a] = Append(@, HistoryEntry(row, action))]

Create(a) ==
    /\ alert[a].status = "absent"
    /\ Store(a, NewAlert, "created")

(* The evaluation of the alert's rule finds its condition to hold.         *)
Observe(a) ==
    /\ alert[a].status # "absent"
    /\ Store(a, Observed(alert[a]), ObservedAction(alert[a]))

Acknowledge(a) ==
    /\ alert[a].status \in OpenStatus
    /\ Store(a, Acknowledged(alert[a]), "acknowledged")

Assign(a, who) ==
    /\ alert[a].status \in OpenStatus
    /\ Store(a, AssignedTo(alert[a], who), "assigned")

(* The evaluation of the alert's rule no longer finds its condition.       *)
Resolve(a) ==
    /\ alert[a].status \in OpenStatus
    /\ Store(a, Resolved(alert[a]), "resolved")

Next ==
    \E a \in Alerts :
        \/ Create(a)
        \/ Observe(a)
        \/ Acknowledge(a)
        \/ \E who \in Assignees : Assign(a, who)
        \/ Resolve(a)

Spec == Init /\ [][Next]_lifeVars
=============================================================================
