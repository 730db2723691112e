--------------------------- MODULE SignalsAlerts ---------------------------
(***************************************************************************)
(* Signals turns conditions of the organization's data into alerts.  This  *)
(* module models signals/service.go over repository/memory_signals.go and  *)
(* repository/postgres/signals.go: rules, the evaluation of all enabled    *)
(* rules, acknowledgment and assignment, subscriptions, and the deliveries *)
(* that a new alert is announced with (ReachDelivery takes them from       *)
(* there).                                                                 *)
(*                                                                         *)
(* A call is a sequence of steps, one per access to the store, and calls   *)
(* interleave: nothing in the service excludes two evaluations, and an     *)
(* operator may act between any two steps of one.  The store compares the  *)
(* revision of the row a call has read with the stored one and refuses the *)
(* write when they differ; the call then ends.  A call that ends early for *)
(* any other reason is the action Abort.                                   *)
(***************************************************************************)
EXTENDS AlertRecord, FiniteSets

CONSTANTS
    Rules,          \* ids of rules
    Targets,        \* the resources a rule looks at
    Subscriptions,  \* ids of subscriptions
    AnyRule,        \* the scope of a subscription to every rule
    Evaluators,     \* concurrent Evaluate calls
    Operators,      \* concurrent Acknowledge and Assign calls
    ForeignKeys,    \* the store refuses a delivery of a missing subscription
    MaxCalls,       \* bound on the calls of evaluators and operators
    MaxChanges,     \* bound on changes of data, rules and subscriptions
    MaxFaults       \* bound on the calls that end early

ASSUME SignalsAssumption ==
    /\ AnyRule \notin Rules
    /\ "absent" \notin Rules \cup {AnyRule}
    /\ Evaluators \cap Operators = {}
    /\ ForeignKeys \in BOOLEAN
    /\ {MaxCalls, MaxChanges, MaxFaults} \subseteq Nat

(* The deduplication key of an alert: its rule and its target.             *)
Alerts == Rules \X Targets

Callers == Evaluators \cup Operators

NoAlert == <<>>

VARIABLES
    rule,          \* the stored rule of each id
    holds,         \* the alerts whose condition the data meets
    alert,         \* the stored row of each alert
    history,       \* the stored history of each alert
    subscription,  \* the scope of each stored subscription
    deliveries,    \* the stored deliveries: pairs of an alert and a subscription
    call,          \* the private state of each call
    owed,          \* history: the deliveries due since their alert was created
    cut,           \* history: the alerts whose announcement ended early
    calls,         \* how many calls began
    changes,       \* how many changes of data, rules and subscriptions were made
    faults         \* how many calls ended early

vars == <<rule, holds, alert, history, subscription, deliveries, call, owed, cut,
          calls, changes, faults>>

Rule == {"absent", "enabled", "disabled"}

Scope == Rules \cup {AnyRule, "absent"}

Snapshot == [id: Alerts, row: Alert]

Steps == {"idle", "rule", "active", "acknowledged", "work", "write", "subscriptions",
          "acknowledge", "assign"}

(* rules: still to evaluate; rule: the one under evaluation; seen: what it  *)
(* observed; todo: of that, still to be stored; open: the alerts to resolve *)
(* unless observed; id, row: the alert at hand as it was read; subs: still  *)
(* to be given a delivery; alone: auxiliary, no other evaluation has been   *)
(* under way since this one began.                                         *)
Call ==
    [step: Steps, rules: SUBSET Rules, rule: Rules \cup {AnyRule}, seen: SUBSET Alerts,
     todo: SUBSET Alerts, open: SUBSET Snapshot, id: Alerts \cup {NoAlert}, row: Alert,
     who: Assignees \cup {NoOne}, subs: SUBSET Subscriptions, alone: BOOLEAN]

IdleCall ==
    [step |-> "idle", rules |-> {}, rule |-> AnyRule, seen |-> {}, todo |-> {},
     open |-> {}, id |-> NoAlert, row |-> AbsentAlert, who |-> NoOne, subs |-> {},
     alone |-> FALSE]

Init ==
    /\ rule = [r \in Rules |-> "absent"]
    /\ holds = {}
    /\ alert = [a \in Alerts |-> AbsentAlert]
    /\ history = [a \in Alerts |-> <<>>]
    /\ subscription = [s \in Subscriptions |-> "absent"]
    /\ deliveries = {}
    /\ call = [c \in Callers |-> IdleCall]
    /\ owed = {}
    /\ cut = {}
    /\ calls = 0
    /\ changes = 0
    /\ faults = 0

-----------------------------------------------------------------------------
(* The store.                                                              *)

(* Mutant: the store does not compare revisions.                           *)
AnyRevision(a, row) == alert[a].status # "absent"

(* The stored alert still has the revision that was read.                  *)
SameRevision(a, row) == alert[a].revision = row.revision

Store(a, row, action) ==
    /\ alert' = [alert EXCEPT ![a] = row]
    /\ history' = [history EXCEPT ![a] = Append(@, HistoryEntry(row, action))]

(* The subscriptions an alert of rule r is announced to.                   *)
Matching(r) == {s \in Subscriptions : subscription[s] \in {r, AnyRule}}

-----------------------------------------------------------------------------
(* Data, rules and subscriptions change.                                   *)

Change ==
    /\ changes < MaxChanges
    /\ changes' = changes + 1
    /\ UNCHANGED <<alert, history, call, cut, calls, faults>>

(* The data the evaluator looks at begins or ceases to meet a condition.   *)
ConditionChanges(a) ==
    /\ holds' = IF a \in holds THEN holds \ {a} ELSE holds \cup {a}
    /\ Change
    /\ UNCHANGED <<rule, subscription, deliveries, owed>>

CreateRule(r, enabled) ==
    /\ rule[r] = "absent"
    /\ rule' = [rule EXCEPT ![r] = IF enabled THEN "enabled" ELSE "disabled"]
    /\ Change
    /\ UNCHANGED <<holds, subscription, deliveries, owed>>

UpdateRule(r, enabled) ==
    /\ rule[r] # "absent"
    /\ rule' = [rule EXCEPT ![r] = IF enabled THEN "enabled" ELSE "disabled"]
    /\ Change
    /\ UNCHANGED <<holds, subscription, deliveries, owed>>

CreateSubscription(s, scope) ==
    /\ subscription[s] = "absent"
    /\ scope \in Rules => rule[scope] # "absent"
    /\ subscription' = [subscription EXCEPT ![s] = scope]
    /\ Change
    /\ UNCHANGED <<rule, holds, deliveries, owed>>

DeleteSubscription(s) ==
    /\ subscription[s] # "absent"
    /\ subscription' = [subscription EXCEPT ![s] = "absent"]
    /\ deliveries' = {d \in deliveries : d[2] # s}
    /\ owed' = {d \in owed : d[2] # s}
    /\ Change
    /\ UNCHANGED <<rule, holds>>

-----------------------------------------------------------------------------
(* Evaluate.                                                               *)

Goto(c, cl) == call' = [call EXCEPT ![c] = cl]

Kept == <<rule, holds, subscription, calls, changes, faults>>

(* The rules and which of them are enabled are read once.                  *)
BeginEvaluation(e) ==
    /\ call[e].step = "idle"
    /\ calls < MaxCalls
    /\ calls' = calls + 1
    /\ call' = [c \in Callers |->
                  IF c = e
                  THEN [IdleCall EXCEPT
                          !.step = "rule",
                          !.rules = {r \in Rules : rule[r] = "enabled"},
                          !.alone = \A d \in Evaluators : call[d].step = "idle"]
                  ELSE [call[c] EXCEPT !.alone = FALSE]]
    /\ UNCHANGED <<rule, holds, alert, history, subscription, deliveries, owed, cut,
                   changes, faults>>

(* The evaluator lists the candidates of the next rule.                    *)
ObserveCandidates(e, r) ==
    LET observed == {a \in holds : a[1] = r}
    IN  /\ call[e].step = "rule"
        /\ r \in call[e].rules
        /\ Goto(e, [call[e] EXCEPT
                      !.step = "active", !.rules = @ \ {r}, !.rule = r,
                      !.seen = observed, !.todo = observed, !.open = {}])
        /\ UNCHANGED <<Kept, alert, history, deliveries, owed, cut>>

Listed(r, status) ==
    {[id |-> a, row |-> alert[a]] :
        a \in {b \in Alerts : b[1] = r /\ alert[b].status = status}}

(* Open alerts are listed in two reads, one for each of their statuses.    *)
ListActive(e) ==
    /\ call[e].step = "active"
    /\ Goto(e, [call[e] EXCEPT
                  !.step = "acknowledged", !.open = Listed(call[e].rule, "active")])
    /\ UNCHANGED <<Kept, alert, history, deliveries, owed, cut>>

(* Mutant: the second read replaces the first.                             *)
ListAcknowledgedOnly(e) ==
    /\ call[e].step = "acknowledged"
    /\ Goto(e, [call[e] EXCEPT
                  !.step = "work", !.open = Listed(call[e].rule, "acknowledged")])
    /\ UNCHANGED <<Kept, alert, history, deliveries, owed, cut>>

ListAcknowledged(e) ==
    /\ call[e].step = "acknowledged"
    /\ Goto(e, [call[e] EXCEPT
                  !.step = "work",
                  !.open = @ \cup Listed(call[e].rule, "acknowledged")])
    /\ UNCHANGED <<Kept, alert, history, deliveries, owed, cut>>

(* upsertCandidate looks the candidate up by its deduplication key.        *)
GetCandidate(e, a) ==
    /\ call[e].step = "work"
    /\ call[e].subs = {}
    /\ a \in call[e].todo
    /\ Goto(e, [call[e] EXCEPT
                  !.step = "write", !.todo = @ \ {a}, !.id = a, !.row = alert[a]])
    /\ UNCHANGED <<Kept, alert, history, deliveries, owed, cut>>

(* The store refused a write: the call returns the error.                  *)
Refuse(c) ==
    /\ Goto(c, IdleCall)
    /\ UNCHANGED <<alert, history>>

(* A new alert is stored, unless another call has just stored it.          *)
CreateAlert(e) ==
    LET a == call[e].id
    IN  /\ call[e].step = "write"
        /\ call[e].row.status = "absent"
        /\ \/ /\ alert[a].status = "absent"
              /\ Store(a, NewAlert, "created")
              /\ Goto(e, [call[e] EXCEPT !.step = "subscriptions"])
              /\ owed' = owed \cup ({a} \X Matching(a[1]))
           \/ /\ alert[a].status # "absent"
              /\ Refuse(e)
              /\ UNCHANGED owed
        /\ UNCHANGED <<Kept, deliveries, cut>>

(* Mutant: the row is built anew from the candidate and loses its assignee. *)
RefreshUnassigned(e) ==
    LET a == call[e].id
        row == [call[e].row EXCEPT !.assignee = NoOne]
    IN  /\ call[e].step = "write"
        /\ row.status # "absent"
        /\ \/ /\ SameRevision(a, row)
              /\ Store(a, Observed(row), ObservedAction(row))
              /\ Goto(e, [call[e] EXCEPT !.step = "work"])
           \/ /\ ~SameRevision(a, row)
              /\ Refuse(e)
        /\ UNCHANGED <<Kept, deliveries, owed, cut>>

(* A known alert is refreshed, or reopened when it was resolved.           *)
RefreshAlert(e) ==
    LET a == call[e].id
        row == call[e].row
    IN  /\ call[e].step = "write"
        /\ row.status # "absent"
        /\ \/ /\ SameRevision(a, row)
              /\ Store(a, Observed(row), ObservedAction(row))
              /\ Goto(e, [call[e] EXCEPT !.step = "work"])
           \/ /\ ~SameRevision(a, row)
              /\ Refuse(e)
        /\ UNCHANGED <<Kept, deliveries, owed, cut>>

(* enqueueDeliveries, for a new alert only.                                *)
ListSubscriptions(e) ==
    /\ call[e].step = "subscriptions"
    /\ Goto(e, [call[e] EXCEPT !.step = "work", !.subs = Matching(call[e].rule)])
    /\ UNCHANGED <<Kept, alert, history, deliveries, owed, cut>>

(* Mutant: the loop is left after the first delivery.                      *)
CreateFirstDelivery(e, s) ==
    /\ call[e].step = "work"
    /\ s \in call[e].subs
    /\ subscription[s] # "absent" \/ ~ForeignKeys
    /\ deliveries' = deliveries \cup {<<call[e].id, s>>}
    /\ Goto(e, [call[e] EXCEPT !.subs = {}])
    /\ UNCHANGED <<Kept, alert, history, owed, cut>>

(* A delivery of a subscription that was deleted meanwhile is refused where *)
(* the store has foreign keys; the evaluation ends and the subscriptions    *)
(* not reached yet get none.                                               *)
CreateDelivery(e, s) ==
    /\ call[e].step = "work"
    /\ s \in call[e].subs
    /\ \/ /\ subscription[s] # "absent" \/ ~ForeignKeys
          /\ deliveries' = deliveries \cup {<<call[e].id, s>>}
          /\ Goto(e, [call[e] EXCEPT !.subs = @ \ {s}])
          /\ UNCHANGED cut
       \/ /\ subscription[s] = "absent" /\ ForeignKeys
          /\ cut' = cut \cup {call[e].id}
          /\ Goto(e, IdleCall)
          /\ UNCHANGED deliveries
    /\ UNCHANGED <<Kept, alert, history, owed>>

(* The listed alerts that the rule did not observe.                        *)
Unobserved(cl) == {o \in cl.open : o.id \notin cl.seen}

(* An unobserved alert is resolved, from the row that was listed; the ones *)
(* listed as active come first.                                            *)
ResolveAlert(e, o) ==
    /\ call[e].step = "work"
    /\ call[e].subs = {}
    /\ call[e].todo = {}
    /\ o \in Unobserved(call[e])
    /\ o.row.status = "acknowledged" =>
           \A p \in Unobserved(call[e]) : p.row.status = "acknowledged"
    /\ \/ /\ SameRevision(o.id, o.row)
          /\ Store(o.id, Resolved(o.row), "resolved")
          /\ Goto(e, [call[e] EXCEPT !.open = @ \ {o}])
       \/ /\ ~SameRevision(o.id, o.row)
          /\ Refuse(e)
    /\ UNCHANGED <<Kept, deliveries, owed, cut>>

(* Everything the rule asked for is stored.                                *)
RuleIsDone(cl) ==
    /\ cl.step = "work"
    /\ cl.subs = {}
    /\ cl.todo = {}
    /\ Unobserved(cl) = {}

FinishRule(e) ==
    /\ RuleIsDone(call[e])
    /\ Goto(e, [call[e] EXCEPT !.step = "rule"])
    /\ UNCHANGED <<Kept, alert, history, deliveries, owed, cut>>

(* No rule is left: the evaluation is audited and returns.                 *)
FinishEvaluation(e) ==
    /\ call[e].step = "rule"
    /\ call[e].rules = {}
    /\ Goto(e, IdleCall)
    /\ UNCHANGED <<Kept, alert, history, deliveries, owed, cut>>

-----------------------------------------------------------------------------
(* Acknowledge and Assign.  The caller names the revision it acts on; any   *)
(* other than the stored one is refused by the first step, which changes    *)
(* nothing, so only calls that name the stored revision are modelled.       *)

Begin(o, cl) ==
    /\ call[o].step = "idle"
    /\ calls < MaxCalls
    /\ calls' = calls + 1
    /\ Goto(o, cl)
    /\ UNCHANGED <<rule, holds, alert, history, subscription, deliveries, owed, cut,
                   changes, faults>>

MayActOn(row) == row.status \in OpenStatus

BeginAcknowledge(o, a) ==
    /\ MayActOn(alert[a])
    /\ Begin(o, [IdleCall EXCEPT !.step = "acknowledge", !.id = a, !.row = alert[a]])

BeginAssign(o, a, who) ==
    /\ MayActOn(alert[a])
    /\ Begin(o, [IdleCall EXCEPT !.step = "assign", !.id = a, !.row = alert[a],
                                 !.who = who])

(* The changed copy is stored when the revision is still the one read.     *)
Write(o, row, action) ==
    /\ \/ /\ SameRevision(call[o].id, call[o].row)
          /\ Store(call[o].id, row, action)
          /\ Goto(o, IdleCall)
       \/ /\ ~SameRevision(call[o].id, call[o].row)
          /\ Refuse(o)
    /\ UNCHANGED <<Kept, deliveries, owed, cut>>

Acknowledge(o) ==
    /\ call[o].step = "acknowledge"
    /\ Write(o, Acknowledged(call[o].row), "acknowledged")

Assign(o) ==
    /\ call[o].step = "assign"
    /\ Write(o, AssignedTo(call[o].row, call[o].who), "assigned")

-----------------------------------------------------------------------------

(* A new alert of this call has not been announced to everyone yet.        *)
Announcing(cl) == cl.step = "subscriptions" \/ cl.subs # {}

(* The process stops, the store or the audit fails, or the request is      *)
(* cancelled, between two steps of a call.                                 *)
Abort(c) ==
    /\ call[c].step # "idle"
    /\ faults < MaxFaults
    /\ faults' = faults + 1
    /\ Goto(c, IdleCall)
    /\ cut' = IF Announcing(call[c]) THEN cut \cup {call[c].id} ELSE cut
    /\ UNCHANGED <<rule, holds, alert, history, subscription, deliveries, owed, calls,
                   changes>>

Next ==
    \/ \E a \in Alerts : ConditionChanges(a)
    \/ \E r \in Rules, enabled \in BOOLEAN :
           CreateRule(r, enabled) \/ UpdateRule(r, enabled)
    \/ \E s \in Subscriptions :
           \/ \E scope \in Rules \cup {AnyRule} : CreateSubscription(s, scope)
           \/ DeleteSubscription(s)
    \/ \E e \in Evaluators :
           \/ BeginEvaluation(e)
           \/ \E r \in Rules : ObserveCandidates(e, r)
           \/ ListActive(e)
           \/ ListAcknowledged(e)
           \/ \E a \in Alerts : GetCandidate(e, a)
           \/ CreateAlert(e)
           \/ RefreshAlert(e)
           \/ ListSubscriptions(e)
           \/ \E s \in Subscriptions : CreateDelivery(e, s)
           \/ \E o \in call[e].open : ResolveAlert(e, o)
           \/ FinishRule(e)
           \/ FinishEvaluation(e)
    \/ \E o \in Operators, a \in Alerts :
           \/ BeginAcknowledge(o, a)
           \/ \E who \in Assignees : BeginAssign(o, a, who)
    \/ \E o \in Operators : Acknowledge(o) \/ Assign(o)
    \/ \E c \in Callers : Abort(c)

Spec == Init /\ [][Next]_vars

-----------------------------------------------------------------------------

TypeOK ==
    /\ rule \in [Rules -> Rule]
    /\ holds \subseteq Alerts
    /\ alert \in [Alerts -> Alert]
    /\ history \in [Alerts -> Seq(Entry)]
    /\ subscription \in [Subscriptions -> Scope]
    /\ deliveries \subseteq Alerts \X Subscriptions
    /\ call \in [Callers -> Call]
    /\ owed \subseteq Alerts \X Subscriptions
    /\ cut \subseteq Alerts
    /\ {calls, changes, faults} \subseteq Nat

(* The status an entry of the history leaves the alert in; refreshing and  *)
(* assigning leave it alone.                                               *)
StatusOf ==
    [created |-> "active", reopened |-> "active", acknowledged |-> "acknowledged",
     resolved |-> "resolved"]

(* What the operators read in the history is what happened to the row:      *)
(* entry n is the one of revision n and none is missing, the last one that  *)
(* tells a status tells the alert's, the alert is acknowledged by someone   *)
(* exactly if it was since it was last reopened, and on a resolved alert    *)
(* nothing happens but its reopening.                                      *)
HistoryAgrees ==
    \A a \in Alerts :
        LET h == history[a]
        IN  /\ Len(h) = alert[a].revision
            /\ \A i \in DOMAIN h :
                   /\ h[i].revision = i
                   /\ h[i].action = "created" <=> i = 1
                   /\ i > 1 => (h[i].action = "reopened" <=> h[i - 1].action = "resolved")
                   /\ (/\ h[i].action \in DOMAIN StatusOf
                       /\ \A j \in DOMAIN h : j > i => h[j].action \notin DOMAIN StatusOf)
                      => alert[a].status = StatusOf[h[i].action]
            /\ alert[a].acked =
                   \E i \in DOMAIN h :
                       /\ h[i].action = "acknowledged"
                       /\ \A j \in DOMAIN h : j > i => h[j].action # "reopened"

(* Although every call reads an alert in one step and stores a changed copy *)
(* in another, and calls interleave, each write acts on the alert as it is: *)
(* no acknowledgment, assignment or observation is lost, and none is made   *)
(* of an alert that was resolved meanwhile.                                 *)
Life == INSTANCE AlertLifecycle WITH alert <- alert, history <- history

ImplementsLifecycle == Life!Spec

(* An evaluation during which no other one ran leaves exactly the alerts    *)
(* open that its rule observed, whatever operators acknowledged and         *)
(* assigned meanwhile.                                                     *)
EvaluationIsExact ==
    \A e \in Evaluators :
        call[e].alone /\ RuleIsDone(call[e]) =>
            \A a \in Alerts :
                a[1] = call[e].rule =>
                    (alert[a].status \in OpenStatus <=> a \in call[e].seen)

(* Every subscription that matched a new alert has its delivery, or will   *)
(* get it from the call that created the alert, unless that call ended in  *)
(* between.                                                                *)
AnnouncedUnlessCut ==
    \A d \in owed :
        \/ d \in deliveries
        \/ d[1] \in cut
        \/ \E e \in Evaluators :
               /\ call[e].id = d[1]
               /\ call[e].step = "subscriptions" \/ d[2] \in call[e].subs
=============================================================================
