---------------------------- MODULE AlertRecord ----------------------------
(* The stored form of a Signals alert and of its history, and what each     *)
(* operation of signals/service.go makes of a row it has read.              *)
EXTENDS Naturals, Sequences

CONSTANTS
    Assignees,   \* the identities and groups an alert may be assigned to
    NoOne        \* the absent assignee

ASSUME AlertAssumption == NoOne \notin Assignees

OpenStatus == {"active", "acknowledged"}

(* acked: AcknowledgedBy and AcknowledgedAt are set.                        *)
Alert ==
    [status: OpenStatus \cup {"absent", "resolved"}, acked: BOOLEAN,
     assignee: Assignees \cup {NoOne}, revision: Nat]

AbsentAlert ==
    [status |-> "absent", acked |-> FALSE, assignee |-> NoOne, revision |-> 0]

NewAlert == [AbsentAlert EXCEPT !.status = "active", !.revision = 1]

(* An alert that was resolved is reopened and must be acknowledged again;   *)
(* its assignment stays.                                                    *)
Observed(row) ==
    IF row.status = "resolved"
    THEN [row EXCEPT !.status = "active", !.acked = FALSE, !.revision = @ + 1]
    ELSE [row EXCEPT !.revision = @ + 1]

ObservedAction(row) == IF row.status = "resolved" THEN "reopened" ELSE "refreshed"

Acknowledged(row) ==
    [row EXCEPT !.status = "acknowledged", !.acked = TRUE, !.revision = @ + 1]

AssignedTo(row, who) == [row EXCEPT !.assignee = who, !.revision = @ + 1]

Resolved(row) == [row EXCEPT !.status = "resolved", !.revision = @ + 1]

Actions ==
    {"created", "refreshed", "reopened", "acknowledged", "assigned", "resolved"}

HistoryEntry(row, action) == [action |-> action, revision |-> row.revision]

Entry == [action: Actions, revision: Nat]
=============================================================================
