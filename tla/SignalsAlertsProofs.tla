------------------------ MODULE SignalsAlertsProofs ------------------------
(***************************************************************************)
(* Proofs about SignalsAlerts, for any rules, resources, subscriptions and *)
(* assignees, and any number of evaluations and operators at work at the   *)
(* same time.  SignalsInv is the inductive invariant: one condition on the *)
(* stored alerts, one on the private state of a call.                      *)
(***************************************************************************)
EXTENDS SignalsAlerts, TLAPS

USE SignalsAssumption, AlertAssumption

(* A row that was read is not newer than the stored one, and of the same    *)
(* revision only if it is the same.                                         *)
RowOK(row, stored) ==
    /\ row.revision <= stored.revision
    /\ row.revision = stored.revision => row = stored

(* The rows that the state s of a call has read from the alerts rows.       *)
RowsOK(s, rows) ==
    /\ s.step \in {"write", "acknowledge", "assign"} =>
           s.id \in Alerts /\ RowOK(s.row, rows[s.id])
    /\ s.step \in {"acknowledge", "assign"} => s.row.status \in OpenStatus
    /\ s.step = "assign" => s.who \in Assignees
    /\ \A o \in s.open : RowOK(o.row, rows[o.id]) /\ o.row.status \in OpenStatus

(* Where a call is in the evaluation of its rule. *)
PlaceOK(s) ==
    /\ s.step \notin {"work"} => s.subs = {}
    /\ s.step = "idle" => ~s.alone
    /\ s.step \in {"write", "subscriptions"} \/ s.subs # {} =>
           s.id \in Alerts /\ s.id[1] = s.rule
    /\ s.step \notin {"idle", "rule", "acknowledge", "assign"} =>
           s.seen \subseteq {a \in Alerts : a[1] = s.rule} /\ s.todo \subseteq s.seen
    /\ s.step \in {"active", "acknowledged"} => s.todo = s.seen
    /\ s.step = "write" => s.id \in s.seen

(* While no other evaluation runs: the observed alerts that were dealt with *)
(* are open, and the open alerts that were not observed are listed.         *)
ExactOK(s, rows) ==
    s.alone =>
        /\ s.step = "acknowledged" =>
               \A a \in Alerts :
                   a[1] = s.rule /\ rows[a].status = "active" =>
                       \E o \in s.open : o.id = a
        /\ s.step \in {"work", "write", "subscriptions"} =>
               \A a \in Alerts :
                   a[1] = s.rule =>
                       /\ a \in s.seen /\ a \notin s.todo /\ ~(s.step = "write" /\ s.id = a) =>
                              rows[a].status \in OpenStatus
                       /\ a \notin s.seen /\ rows[a].status \in OpenStatus =>
                              \E o \in s.open : o.id = a

CallOK(c, s, rows) ==
    /\ c \in Operators => ~s.alone /\ s.step \in {"idle", "acknowledge", "assign"}
    /\ c \in Evaluators => s.step \notin {"acknowledge", "assign"}
    /\ RowsOK(s, rows)
    /\ PlaceOK(s)
    /\ ExactOK(s, rows)

AloneOK ==
    \A e, d \in Evaluators : e # d /\ call[e].alone => call[d].step = "idle"

AbsentOK == \A a \in Alerts : alert[a].status = "absent" <=> alert[a].revision = 0

SignalsInv ==
    /\ TypeOK
    /\ AbsentOK
    /\ AloneOK
    /\ \A c \in Callers : CallOK(c, call[c], alert)

(* What is stored of an alert keeps its shape, and counts its revisions. *)
LEMMA RecordsTyped ==
    /\ AbsentAlert \in Alert /\ AbsentAlert.status = "absent" /\ AbsentAlert.revision = 0
    /\ NewAlert \in Alert /\ NewAlert.status = "active" /\ NewAlert.revision = 1
    /\ \A row \in Alert :
           /\ Observed(row) \in Alert /\ Observed(row).revision = row.revision + 1
           /\ row.status # "absent" => Observed(row).status \in OpenStatus
           /\ Resolved(row) \in Alert /\ Resolved(row).revision = row.revision + 1
           /\ Resolved(row).status = "resolved"
           /\ Acknowledged(row) \in Alert /\ Acknowledged(row).revision = row.revision + 1
           /\ Acknowledged(row).status = "acknowledged"
           /\ \A who \in Assignees :
                  /\ AssignedTo(row, who) \in Alert
                  /\ AssignedTo(row, who).revision = row.revision + 1
                  /\ AssignedTo(row, who).status = row.status
<1>1. /\ AbsentAlert \in Alert /\ AbsentAlert.status = "absent" /\ AbsentAlert.revision = 0
      /\ NewAlert \in Alert /\ NewAlert.status = "active" /\ NewAlert.revision = 1
  BY DEF AbsentAlert, NewAlert, Alert, OpenStatus
<1>2. ASSUME NEW row \in Alert
      PROVE  /\ Observed(row) \in Alert /\ Observed(row).revision = row.revision + 1
             /\ row.status # "absent" => Observed(row).status \in OpenStatus
             /\ Resolved(row) \in Alert /\ Resolved(row).revision = row.revision + 1
             /\ Resolved(row).status = "resolved"
             /\ Acknowledged(row) \in Alert /\ Acknowledged(row).revision = row.revision + 1
             /\ Acknowledged(row).status = "acknowledged"
  <2>1. row.revision + 1 \in Nat
    BY DEF Alert
  <2>2. /\ Observed(row) \in Alert /\ Observed(row).revision = row.revision + 1
        /\ row.status # "absent" => Observed(row).status \in OpenStatus
    BY <2>1 DEF Observed, Alert, OpenStatus
  <2>3. /\ Resolved(row) \in Alert /\ Resolved(row).revision = row.revision + 1
        /\ Resolved(row).status = "resolved"
    BY <2>1 DEF Resolved, Alert
  <2>4. /\ Acknowledged(row) \in Alert /\ Acknowledged(row).revision = row.revision + 1
        /\ Acknowledged(row).status = "acknowledged"
    BY <2>1 DEF Acknowledged, Alert, OpenStatus
  <2> QED BY <2>2, <2>3, <2>4
<1>3. ASSUME NEW row \in Alert, NEW who \in Assignees
      PROVE  /\ AssignedTo(row, who) \in Alert
             /\ AssignedTo(row, who).revision = row.revision + 1
             /\ AssignedTo(row, who).status = row.status
  <2>1. row.revision + 1 \in Nat
    BY DEF Alert
  <2> QED BY <2>1 DEF AssignedTo, Alert
<1> QED
  BY <1>1, <1>2, <1>3

(* The entries of the history have their type. *)
LEMMA EntriesTyped ==
    ASSUME NEW row \in Alert
    PROVE  /\ \A action \in Actions : HistoryEntry(row, action) \in Entry
           /\ ObservedAction(row) \in Actions
BY DEF HistoryEntry, Entry, Alert, ObservedAction, Actions

(* The private state of an evaluation keeps its shape. *)
LEMMA CallTyped ==
    ASSUME NEW s \in Call
    PROVE  /\ IdleCall \in Call
           /\ \A step \in Steps : [s EXCEPT !.step = step] \in Call
           /\ [s EXCEPT !.alone = FALSE] \in Call
           /\ \A rs \in SUBSET Rules, b \in BOOLEAN :
                  [IdleCall EXCEPT !.step = "rule", !.rules = rs, !.alone = b] \in Call
           /\ \A r \in Rules, as \in SUBSET Alerts :
                  [s EXCEPT !.step = "active", !.rules = @ \ {r}, !.rule = r,
                            !.seen = as, !.todo = as, !.open = {}] \in Call
           /\ \A os \in SUBSET Snapshot :
                  /\ [s EXCEPT !.step = "acknowledged", !.open = os] \in Call
                  /\ [s EXCEPT !.step = "work", !.open = os] \in Call
                  /\ [s EXCEPT !.open = os] \in Call
           /\ \A a \in Alerts, row \in Alert :
                  [s EXCEPT !.step = "write", !.todo = @ \ {a}, !.id = a, !.row = row] \in Call
           /\ \A ss \in SUBSET Subscriptions :
                  /\ [s EXCEPT !.step = "work", !.subs = ss] \in Call
                  /\ [s EXCEPT !.subs = ss] \in Call
           /\ \A a \in Alerts, row \in Alert, who \in Assignees :
                  /\ [IdleCall EXCEPT !.step = "acknowledge", !.id = a, !.row = row] \in Call
                  /\ [IdleCall EXCEPT !.step = "assign", !.id = a, !.row = row,
                                      !.who = who] \in Call
<1>1. IdleCall \in Call
  BY RecordsTyped DEF IdleCall, Call, Steps
<1>2. \A step \in Steps : [s EXCEPT !.step = step] \in Call
  BY DEF Call
<1>3. [s EXCEPT !.alone = FALSE] \in Call
  BY DEF Call
<1>4. \A rs \in SUBSET Rules, b \in BOOLEAN :
          [IdleCall EXCEPT !.step = "rule", !.rules = rs, !.alone = b] \in Call
  BY <1>1 DEF Call, Steps
<1>5. \A r \in Rules, as \in SUBSET Alerts :
          [s EXCEPT !.step = "active", !.rules = @ \ {r}, !.rule = r,
                    !.seen = as, !.todo = as, !.open = {}] \in Call
  BY DEF Call, Steps
<1>6. \A os \in SUBSET Snapshot :
          /\ [s EXCEPT !.step = "acknowledged", !.open = os] \in Call
          /\ [s EXCEPT !.step = "work", !.open = os] \in Call
          /\ [s EXCEPT !.open = os] \in Call
  BY DEF Call, Steps
<1>7. \A a \in Alerts, row \in Alert :
          [s EXCEPT !.step = "write", !.todo = @ \ {a}, !.id = a, !.row = row] \in Call
  BY DEF Call, Steps
<1>8. \A ss \in SUBSET Subscriptions :
          /\ [s EXCEPT !.step = "work", !.subs = ss] \in Call
          /\ [s EXCEPT !.subs = ss] \in Call
  BY DEF Call, Steps
<1>9. \A a \in Alerts, row \in Alert, who \in Assignees :
          /\ [IdleCall EXCEPT !.step = "acknowledge", !.id = a, !.row = row] \in Call
          /\ [IdleCall EXCEPT !.step = "assign", !.id = a, !.row = row, !.who = who] \in Call
  BY <1>1 DEF Call, Steps
<1> QED
  BY <1>1, <1>2, <1>3, <1>4, <1>5, <1>6, <1>7, <1>8, <1>9
(* The variables other than the alerts and the calls have their types. *)
OthersTyped ==
    /\ rule \in [Rules -> Rule]
    /\ holds \subseteq Alerts
    /\ subscription \in [Subscriptions -> Scope]
    /\ deliveries \subseteq Alerts \X Subscriptions
    /\ owed \subseteq Alerts \X Subscriptions
    /\ cut \subseteq Alerts
    /\ {calls, changes, faults} \subseteq Nat

LEMMA TypeParts ==
    TypeOK <=> /\ OthersTyped
               /\ alert \in [Alerts -> Alert]
               /\ history \in [Alerts -> Seq(Entry)]
               /\ call \in [Callers -> Call]
BY DEF TypeOK, OthersTyped

(* A step that no call takes. *)
LEMMA DataStep ==
    ASSUME SignalsInv, UNCHANGED <<alert, history, call>>, OthersTyped'
    PROVE  SignalsInv'
<1>1. TypeOK'
  BY TypeParts DEF SignalsInv, TypeOK, OthersTyped
<1> QED
  BY <1>1 DEF SignalsInv, AbsentOK, AloneOK

(* No call is wakened, and none becomes alone. *)
LEMMA StaysAlone ==
    ASSUME SignalsInv, NEW c \in Callers, NEW s \in Call,
           call' = [call EXCEPT ![c] = s],
           s.alone => call[c].alone,
           c \in Evaluators /\ call[c].step = "idle" => s.step = "idle"
    PROVE  AloneOK'
BY DEF SignalsInv, AloneOK, TypeOK, Callers

(* A step of one call that stores no alert. *)
LEMMA CallStep ==
    ASSUME SignalsInv, NEW c \in Callers, NEW s \in Call,
           call' = [call EXCEPT ![c] = s], UNCHANGED <<alert, history>>, OthersTyped',
           CallOK(c, s, alert),
           s.alone => call[c].alone,
           c \in Evaluators /\ call[c].step = "idle" => s.step = "idle"
    PROVE  SignalsInv'
<1>1. TypeOK'
  <2>1. call' \in [Callers -> Call]
    BY DEF SignalsInv, TypeOK
  <2> QED BY <2>1 DEF SignalsInv, TypeOK, OthersTyped
<1>2. AloneOK'
  BY StaysAlone
<1>3. \A d \in Callers : CallOK(d, call'[d], alert')
  BY DEF SignalsInv, TypeOK
<1> QED
  BY <1>1, <1>2, <1>3 DEF SignalsInv, AbsentOK

(* What a call has read stays an older row when a revision is added. *)
LEMMA RowsAge ==
    ASSUME SignalsInv, NEW d \in Callers, NEW a \in Alerts, NEW new \in Alert,
           new.revision = alert[a].revision + 1,
           alert' = [alert EXCEPT ![a] = new]
    PROVE  RowsOK(call[d], alert')
<1>1. RowsOK(call[d], alert) /\ call[d] \in Call /\ alert \in [Alerts -> Alert]
  BY DEF SignalsInv, CallOK, TypeOK
<1>2. ASSUME NEW row \in Alert, NEW b \in Alerts, RowOK(row, alert[b])
      PROVE  RowOK(row, alert'[b])
  <2>1. CASE b # a
    BY <1>1, <1>2, <2>1
  <2>2. CASE b = a
    <3>1. row.revision \in Nat /\ alert[a].revision \in Nat /\ alert'[b] = new
      BY <1>1, <2>2 DEF Alert
    <3> QED BY <1>2, <2>2, <3>1 DEF RowOK
  <2> QED BY <2>1, <2>2
<1>3. \A o \in call[d].open : o.id \in Alerts /\ o.row \in Alert
  BY <1>1 DEF Call, Snapshot
<1>4. call[d].row \in Alert
  BY <1>1 DEF Call
<1> QED
  BY <1>1, <1>2, <1>3, <1>4 DEF RowsOK

(* A step of call c that stores a revision of alert a: every other call     *)
(* knows as much as it did.                                                 *)
LEMMA OthersKeep ==
    ASSUME SignalsInv, NEW c \in Callers, NEW a \in Alerts, NEW new \in Alert,
           new.revision = alert[a].revision + 1,
           alert' = [alert EXCEPT ![a] = new],
           \/ c \in Evaluators /\ call[c].step # "idle"
           \/ /\ alert[a].status \in OpenStatus /\ new.status \in OpenStatus
              /\ new.status = "active" => alert[a].status = "active"
    PROVE  \A d \in Callers \ {c} : CallOK(d, call[d], alert')
<1> SUFFICES ASSUME NEW d \in Callers \ {c}
             PROVE  CallOK(d, call[d], alert')
  OBVIOUS
<1>1. CallOK(d, call[d], alert) /\ alert \in [Alerts -> Alert]
  BY DEF SignalsInv, TypeOK
<1>2. RowsOK(call[d], alert')
  BY RowsAge
<1>3. ExactOK(call[d], alert')
  <2>1. CASE c \in Evaluators /\ call[c].step # "idle"
    <3>1. ~call[d].alone
      BY <1>1, <2>1 DEF SignalsInv, AloneOK, CallOK, Callers
    <3> QED BY <3>1 DEF ExactOK
  <2>2. CASE /\ alert[a].status \in OpenStatus /\ new.status \in OpenStatus
             /\ new.status = "active" => alert[a].status = "active"
    <3>1. \A b \in Alerts : /\ alert'[b].status \in OpenStatus <=> alert[b].status \in OpenStatus
                            /\ alert'[b].status = "active" => alert[b].status = "active"
      BY <1>1, <2>2
    <3>2. ExactOK(call[d], alert)
      BY <1>1 DEF CallOK
    <3> QED BY <3>1, <3>2 DEF ExactOK
  <2> QED BY <2>1, <2>2
<1> QED
  BY <1>1, <1>2, <1>3 DEF CallOK

(* A step of one call that stores a revision of an alert. *)
LEMMA WriteStep ==
    ASSUME SignalsInv, NEW c \in Callers, NEW s \in Call, NEW a \in Alerts,
           NEW new \in Alert, NEW entry \in Entry,
           call' = [call EXCEPT ![c] = s],
           new.revision = alert[a].revision + 1, new.status # "absent",
           alert' = [alert EXCEPT ![a] = new],
           history' = [history EXCEPT ![a] = Append(@, entry)], OthersTyped',
           \/ c \in Evaluators /\ call[c].step # "idle"
           \/ /\ alert[a].status \in OpenStatus /\ new.status \in OpenStatus
              /\ new.status = "active" => alert[a].status = "active",
           CallOK(c, s, alert'),
           s.alone => call[c].alone,
           c \in Evaluators /\ call[c].step = "idle" => s.step = "idle"
    PROVE  SignalsInv'
<1>1. TypeOK'
  <2>1. call' \in [Callers -> Call]
    BY DEF SignalsInv, TypeOK
  <2>2. alert' \in [Alerts -> Alert]
    BY DEF SignalsInv, TypeOK
  <2>3. history' \in [Alerts -> Seq(Entry)]
    BY DEF SignalsInv, TypeOK
  <2> QED BY <2>1, <2>2, <2>3 DEF TypeOK, OthersTyped
<1>2. AloneOK'
  BY StaysAlone
<1>3. \A d \in Callers : CallOK(d, call'[d], alert')
  <2>1. \A d \in Callers \ {c} : CallOK(d, call[d], alert')
    BY OthersKeep
  <2> QED BY <2>1 DEF SignalsInv, TypeOK
<1>4. AbsentOK'
  <2>1. new.revision # 0
    BY DEF SignalsInv, TypeOK, Alert
  <2> QED BY <2>1 DEF SignalsInv, TypeOK, AbsentOK
<1> QED
  BY <1>1, <1>2, <1>3, <1>4 DEF SignalsInv
-----------------------------------------------------------------------------
(* One lemma per action.                                                   *)

LEMMA IdleOK ==
    ASSUME NEW c, NEW rows
    PROVE  IdleCall.step = "idle" /\ ~IdleCall.alone /\ CallOK(c, IdleCall, rows)
BY DEF IdleCall, CallOK, RowsOK, PlaceOK, ExactOK

(* A call that ends, whatever it leaves behind. *)
LEMMA IdleStep ==
    ASSUME SignalsInv, NEW c \in Callers, Goto(c, IdleCall),
           UNCHANGED <<alert, history>>, OthersTyped'
    PROVE  SignalsInv'
<1>1. IdleCall \in Call
  BY CallTyped DEF SignalsInv, TypeOK
<1> QED
  BY <1>1, IdleOK, CallStep DEF Goto

LEMMA ChangesStep ==
    ASSUME SignalsInv,
           \/ \E a \in Alerts : ConditionChanges(a)
           \/ \E r \in Rules, enabled \in BOOLEAN :
                  CreateRule(r, enabled) \/ UpdateRule(r, enabled)
           \/ \E sub \in Subscriptions :
                  \/ \E scope \in Rules \cup {AnyRule} : CreateSubscription(sub, scope)
                  \/ DeleteSubscription(sub)
    PROVE  SignalsInv'
<1>1. UNCHANGED <<alert, history, call>>
  BY DEF ConditionChanges, CreateRule, UpdateRule, CreateSubscription,
         DeleteSubscription, Change
<1>2. {calls, changes, faults}' \subseteq Nat
  <2>1. changes \in Nat /\ calls \in Nat /\ faults \in Nat
    BY DEF SignalsInv, TypeOK
  <2>2. changes' = changes + 1 /\ UNCHANGED <<calls, faults>>
    BY DEF ConditionChanges, CreateRule, UpdateRule, CreateSubscription,
           DeleteSubscription, Change
  <2> QED BY <2>1, <2>2
<1>3. OthersTyped'
  <2>1. ASSUME NEW a \in Alerts, ConditionChanges(a) PROVE OthersTyped'
    BY <1>2, <2>1 DEF ConditionChanges, Change, SignalsInv, TypeOK, OthersTyped
  <2>2. ASSUME NEW r \in Rules, NEW enabled \in BOOLEAN,
               CreateRule(r, enabled) \/ UpdateRule(r, enabled)
        PROVE  OthersTyped'
    BY <1>2, <2>2
    DEF CreateRule, UpdateRule, Change, SignalsInv, TypeOK, OthersTyped, Rule
  <2>3. ASSUME NEW sub \in Subscriptions, NEW scope \in Rules \cup {AnyRule},
               CreateSubscription(sub, scope)
        PROVE  OthersTyped'
    BY <1>2, <2>3 DEF CreateSubscription, Change, SignalsInv, TypeOK, OthersTyped, Scope
  <2>4. ASSUME NEW sub \in Subscriptions, DeleteSubscription(sub) PROVE OthersTyped'
    BY <1>2, <2>4 DEF DeleteSubscription, Change, SignalsInv, TypeOK, OthersTyped, Scope
  <2> QED BY <2>1, <2>2, <2>3, <2>4
<1> QED
  BY <1>1, <1>3, DataStep

LEMMA BeginEvaluationStep ==
    ASSUME SignalsInv, NEW e \in Evaluators, BeginEvaluation(e)
    PROVE  SignalsInv'
<1> DEFINE b == \A d \in Evaluators : call[d].step = "idle"
           s == [IdleCall EXCEPT !.step = "rule",
                                 !.rules = {r \in Rules : rule[r] = "enabled"},
                                 !.alone = b]
           t(d) == [call[d] EXCEPT !.alone = FALSE]
<1>1. /\ call' = [d \in Callers |-> IF d = e THEN s ELSE t(d)]
      /\ UNCHANGED <<alert, history>> /\ e \in Callers /\ e \notin Operators
  BY DEF BeginEvaluation, Callers
<1>2. OthersTyped'
  <2>1. changes \in Nat /\ calls \in Nat /\ faults \in Nat
    BY DEF SignalsInv, TypeOK
  <2>2. calls' = calls + 1 /\ UNCHANGED <<changes, faults>>
    BY DEF BeginEvaluation
  <2>3. {calls, changes, faults}' \subseteq Nat
    BY <2>1, <2>2
  <2> QED BY <2>3 DEF BeginEvaluation, SignalsInv, TypeOK, OthersTyped
<1>3. /\ s \in Call /\ s.step = "rule" /\ s.alone = b /\ s.open = {} /\ s.subs = {}
  <2>1. b \in BOOLEAN /\ {r \in Rules : rule[r] = "enabled"} \in SUBSET Rules
    OBVIOUS
  <2>2. s \in Call
    BY <1>1, <2>1, CallTyped DEF SignalsInv, TypeOK
  <2> QED BY <2>2 DEF IdleCall
<1>4. ASSUME NEW d \in Callers
      PROVE  /\ t(d) \in Call /\ t(d).step = call[d].step /\ t(d).alone = FALSE
             /\ CallOK(d, t(d), alert)
  <2>1. call[d] \in Call /\ CallOK(d, call[d], alert)
    BY DEF SignalsInv, TypeOK
  <2>2. t(d) \in Call
    BY <2>1, CallTyped
  <2>3. /\ t(d).alone = FALSE /\ t(d).step = call[d].step
        /\ t(d).open = call[d].open /\ t(d).id = call[d].id /\ t(d).row = call[d].row
        /\ t(d).who = call[d].who /\ t(d).subs = call[d].subs /\ t(d).rule = call[d].rule
        /\ t(d).seen = call[d].seen /\ t(d).todo = call[d].todo
    BY <2>1 DEF Call
  <2> HIDE DEF t
  <2> QED BY <2>1, <2>2, <2>3 DEF CallOK, RowsOK, PlaceOK, ExactOK
<1> HIDE DEF s, t
<1>5. CallOK(e, s, alert)
  BY <1>1, <1>3 DEF CallOK, RowsOK, PlaceOK, ExactOK
<1>6. TypeOK'
  <2>1. call' \in [Callers -> Call]
    BY <1>1, <1>3, <1>4
  <2> QED BY <1>1, <1>2, <2>1, TypeParts DEF SignalsInv, TypeOK, OthersTyped
<1>7. AloneOK'
  <2> SUFFICES ASSUME NEW f \in Evaluators, NEW d \in Evaluators, f # d, call'[f].alone
               PROVE  call'[d].step = "idle"
    BY DEF AloneOK
  <2>1. f \in Callers /\ d \in Callers
    BY DEF Callers
  <2>2. f = e
    BY <1>1, <1>4, <2>1
  <2> QED BY <1>1, <1>3, <1>4, <2>1, <2>2
<1>8. \A d \in Callers : CallOK(d, call'[d], alert')
  BY <1>1, <1>4, <1>5
<1> QED
  BY <1>1, <1>6, <1>7, <1>8 DEF SignalsInv, AbsentOK

LEMMA ObserveCandidatesStep ==
    ASSUME SignalsInv, NEW e \in Evaluators, NEW r \in Rules, ObserveCandidates(e, r)
    PROVE  SignalsInv'
<1> DEFINE observed == {a \in holds : a[1] = r}
           s == [call[e] EXCEPT !.step = "active", !.rules = @ \ {r}, !.rule = r,
                                !.seen = observed, !.todo = observed, !.open = {}]
<1>1. /\ call' = [call EXCEPT ![e] = s] /\ UNCHANGED <<alert, history>> /\ e \in Callers
      /\ call[e].step = "rule" /\ OthersTyped' /\ e \notin Operators
  BY DEF ObserveCandidates, Goto, Kept, Callers, SignalsInv, TypeOK, OthersTyped
<1>2. /\ observed \in SUBSET Alerts /\ call[e] \in Call /\ CallOK(e, call[e], alert)
  BY <1>1 DEF SignalsInv, TypeOK
<1>3. s \in Call
  BY <1>2, CallTyped
<1>4. /\ s.step = "active" /\ s.rule = r /\ s.seen = observed /\ s.todo = observed
      /\ s.open = {} /\ s.subs = call[e].subs /\ s.alone = call[e].alone
  BY <1>2 DEF Call
<1> HIDE DEF s
<1>5. CallOK(e, s, alert)
  BY <1>1, <1>2, <1>4 DEF CallOK, RowsOK, PlaceOK, ExactOK
<1> QED
  BY <1>1, <1>3, <1>4, <1>5, CallStep

(* A listing reads the rows as they are. *)
LEMMA ListingOK ==
    ASSUME SignalsInv, NEW r, NEW status \in OpenStatus
    PROVE  /\ Listed(r, status) \in SUBSET Snapshot
           /\ \A o \in Listed(r, status) :
                  RowOK(o.row, alert[o.id]) /\ o.row.status \in OpenStatus
           /\ \A a \in Alerts :
                  a[1] = r /\ alert[a].status = status =>
                      \E o \in Listed(r, status) : o.id = a
<1>1. \A a \in Alerts : alert[a] \in Alert /\ alert[a].revision \in Nat
  BY DEF SignalsInv, TypeOK, Alert
<1>2. \A o \in Listed(r, status) :
          \E a \in Alerts : /\ o = [id |-> a, row |-> alert[a]] /\ a[1] = r
                            /\ alert[a].status = status
  BY DEF Listed
<1>3. \A a \in Alerts : a[1] = r /\ alert[a].status = status =>
                            [id |-> a, row |-> alert[a]] \in Listed(r, status)
  BY DEF Listed
<1>4. Listed(r, status) \in SUBSET Snapshot
  BY <1>1, <1>2 DEF Snapshot
<1>5. \A o \in Listed(r, status) :
          RowOK(o.row, alert[o.id]) /\ o.row.status \in OpenStatus
  BY <1>1, <1>2 DEF RowOK
<1> QED
  BY <1>3, <1>4, <1>5

LEMMA ListActiveStep ==
    ASSUME SignalsInv, NEW e \in Evaluators, ListActive(e)
    PROVE  SignalsInv'
<1> DEFINE listed == Listed(call[e].rule, "active")
           s == [call[e] EXCEPT !.step = "acknowledged", !.open = listed]
<1>1. /\ call' = [call EXCEPT ![e] = s] /\ UNCHANGED <<alert, history>> /\ e \in Callers
      /\ call[e].step = "active" /\ OthersTyped' /\ e \notin Operators
  BY DEF ListActive, Goto, Kept, Callers, SignalsInv, TypeOK, OthersTyped
<1>2. call[e] \in Call /\ CallOK(e, call[e], alert)
  BY <1>1 DEF SignalsInv, TypeOK
<1>3. /\ listed \in SUBSET Snapshot
      /\ \A o \in listed : RowOK(o.row, alert[o.id]) /\ o.row.status \in OpenStatus
      /\ \A a \in Alerts :
             a[1] = call[e].rule /\ alert[a].status = "active" => \E o \in listed : o.id = a
  BY ListingOK DEF OpenStatus
<1>4. s \in Call
  BY <1>2, <1>3, CallTyped
<1>5. /\ s.step = "acknowledged" /\ s.rule = call[e].rule /\ s.seen = call[e].seen
      /\ s.todo = call[e].todo /\ s.open = listed /\ s.subs = call[e].subs
      /\ s.alone = call[e].alone
  BY <1>2 DEF Call
<1> HIDE DEF s, listed
<1>6. CallOK(e, s, alert)
  BY <1>1, <1>2, <1>3, <1>5 DEF CallOK, RowsOK, PlaceOK, ExactOK
<1> QED
  BY <1>1, <1>4, <1>5, <1>6, CallStep

LEMMA ListAcknowledgedStep ==
    ASSUME SignalsInv, NEW e \in Evaluators, ListAcknowledged(e)
    PROVE  SignalsInv'
<1> DEFINE listed == Listed(call[e].rule, "acknowledged")
           open == call[e].open \cup listed
           s == [call[e] EXCEPT !.step = "work", !.open = open]
<1>1. /\ call' = [call EXCEPT ![e] = s] /\ UNCHANGED <<alert, history>> /\ e \in Callers
      /\ call[e].step = "acknowledged" /\ OthersTyped' /\ e \notin Operators
  BY DEF ListAcknowledged, Goto, Kept, Callers, SignalsInv, TypeOK, OthersTyped
<1>2. call[e] \in Call /\ CallOK(e, call[e], alert)
  BY <1>1 DEF SignalsInv, TypeOK
<1>3. /\ listed \in SUBSET Snapshot
      /\ \A o \in listed : RowOK(o.row, alert[o.id]) /\ o.row.status \in OpenStatus
      /\ \A a \in Alerts :
             a[1] = call[e].rule /\ alert[a].status = "acknowledged" =>
                 \E o \in listed : o.id = a
  BY ListingOK DEF OpenStatus
<1>4. call[e].open \in SUBSET Snapshot /\ open \in SUBSET Snapshot
  BY <1>2, <1>3 DEF Call
<1>5. s \in Call
  BY <1>2, <1>4, CallTyped
<1>6. /\ s.step = "work" /\ s.rule = call[e].rule /\ s.seen = call[e].seen
      /\ s.todo = call[e].todo /\ s.open = open /\ s.subs = call[e].subs
      /\ s.alone = call[e].alone
  BY <1>2 DEF Call
<1> HIDE DEF s, listed
<1>7. RowsOK(s, alert) /\ PlaceOK(s)
  BY <1>1, <1>2, <1>3, <1>6 DEF CallOK, RowsOK, PlaceOK
<1>8. ExactOK(s, alert)
  BY <1>1, <1>2, <1>3, <1>6 DEF CallOK, PlaceOK, ExactOK, OpenStatus
<1> QED
  BY <1>1, <1>5, <1>6, <1>7, <1>8, CallStep DEF CallOK
LEMMA GetCandidateStep ==
    ASSUME SignalsInv, NEW e \in Evaluators, NEW a \in Alerts, GetCandidate(e, a)
    PROVE  SignalsInv'
<1> DEFINE s == [call[e] EXCEPT !.step = "write", !.todo = @ \ {a}, !.id = a,
                                !.row = alert[a]]
<1>1. /\ call' = [call EXCEPT ![e] = s] /\ UNCHANGED <<alert, history>> /\ e \in Callers
      /\ call[e].step = "work" /\ call[e].subs = {} /\ a \in call[e].todo
      /\ OthersTyped' /\ e \notin Operators
  BY DEF GetCandidate, Goto, Kept, Callers, SignalsInv, TypeOK, OthersTyped
<1>2. /\ call[e] \in Call /\ CallOK(e, call[e], alert)
      /\ alert[a] \in Alert /\ alert[a].revision \in Nat
  BY <1>1 DEF SignalsInv, TypeOK, Alert
<1>3. s \in Call
  BY <1>2, CallTyped
<1>4. /\ s.step = "write" /\ s.rule = call[e].rule /\ s.seen = call[e].seen
      /\ s.todo = call[e].todo \ {a} /\ s.open = call[e].open /\ s.subs = call[e].subs
      /\ s.alone = call[e].alone /\ s.id = a /\ s.row = alert[a]
  BY <1>2 DEF Call
<1> HIDE DEF s
<1>5. RowsOK(s, alert) /\ PlaceOK(s)
  BY <1>1, <1>2, <1>4 DEF CallOK, RowsOK, RowOK, PlaceOK
<1>6. ExactOK(s, alert)
  BY <1>1, <1>2, <1>4 DEF CallOK, ExactOK
<1> QED
  BY <1>1, <1>3, <1>4, <1>5, <1>6, CallStep DEF CallOK

LEMMA ListSubscriptionsStep ==
    ASSUME SignalsInv, NEW e \in Evaluators, ListSubscriptions(e)
    PROVE  SignalsInv'
<1> DEFINE s == [call[e] EXCEPT !.step = "work", !.subs = Matching(call[e].rule)]
<1>1. /\ call' = [call EXCEPT ![e] = s] /\ UNCHANGED <<alert, history>> /\ e \in Callers
      /\ call[e].step = "subscriptions" /\ OthersTyped' /\ e \notin Operators
  BY DEF ListSubscriptions, Goto, Kept, Callers, SignalsInv, TypeOK, OthersTyped
<1>2. /\ call[e] \in Call /\ CallOK(e, call[e], alert)
      /\ Matching(call[e].rule) \in SUBSET Subscriptions
  BY <1>1 DEF SignalsInv, TypeOK, Matching
<1>3. s \in Call
  BY <1>2, CallTyped
<1>4. /\ s.step = "work" /\ s.rule = call[e].rule /\ s.seen = call[e].seen
      /\ s.todo = call[e].todo /\ s.open = call[e].open /\ s.id = call[e].id
      /\ s.alone = call[e].alone
  BY <1>2 DEF Call
<1> HIDE DEF s
<1>5. RowsOK(s, alert) /\ PlaceOK(s)
  BY <1>1, <1>2, <1>4 DEF CallOK, RowsOK, PlaceOK
<1>6. ExactOK(s, alert)
  BY <1>1, <1>2, <1>4 DEF CallOK, ExactOK
<1> QED
  BY <1>1, <1>3, <1>4, <1>5, <1>6, CallStep DEF CallOK

LEMMA CreateDeliveryStep ==
    ASSUME SignalsInv, NEW e \in Evaluators, NEW sub \in Subscriptions,
           CreateDelivery(e, sub)
    PROVE  SignalsInv'
<1> DEFINE s == [call[e] EXCEPT !.subs = @ \ {sub}]
<1>1. /\ UNCHANGED <<alert, history>> /\ e \in Callers /\ e \notin Operators
      /\ call[e].step = "work" /\ sub \in call[e].subs
      /\ call[e] \in Call /\ CallOK(e, call[e], alert)
  BY DEF CreateDelivery, Callers, SignalsInv, TypeOK
<1>2. call[e].id \in Alerts
  BY <1>1 DEF CallOK, PlaceOK
<1>3. OthersTyped'
  BY <1>2 DEF CreateDelivery, Kept, SignalsInv, TypeOK, OthersTyped
<1>4. CASE Goto(e, IdleCall)
  BY <1>1, <1>3, <1>4, IdleStep
<1>5. CASE Goto(e, s)
  <2>1. call[e].subs \ {sub} \in SUBSET Subscriptions
    BY <1>1 DEF Call
  <2>2. s \in Call
    BY <1>1, <2>1, CallTyped
  <2>3. /\ s.step = "work" /\ s.rule = call[e].rule /\ s.seen = call[e].seen
        /\ s.todo = call[e].todo /\ s.open = call[e].open /\ s.id = call[e].id
        /\ s.alone = call[e].alone /\ s.subs = call[e].subs \ {sub}
    BY <1>1 DEF Call
  <2> HIDE DEF s
  <2>4. RowsOK(s, alert) /\ PlaceOK(s)
    BY <1>1, <2>3 DEF CallOK, RowsOK, PlaceOK
  <2>5. ExactOK(s, alert)
    BY <1>1, <2>3 DEF CallOK, ExactOK
  <2> QED BY <1>1, <1>3, <1>5, <2>2, <2>3, <2>4, <2>5, CallStep DEF CallOK, Goto
<1> QED
  BY <1>4, <1>5 DEF CreateDelivery

LEMMA FinishStep ==
    ASSUME SignalsInv, NEW e \in Evaluators, FinishRule(e) \/ FinishEvaluation(e)
    PROVE  SignalsInv'
<1> DEFINE s == [call[e] EXCEPT !.step = "rule"]
<1>1. /\ UNCHANGED <<alert, history>> /\ e \in Callers /\ e \notin Operators /\ OthersTyped'
      /\ call[e].step # "idle" /\ call[e] \in Call /\ CallOK(e, call[e], alert)
  BY DEF FinishRule, FinishEvaluation, RuleIsDone, Kept, Callers, SignalsInv, TypeOK,
         OthersTyped
<1>2. CASE FinishEvaluation(e)
  BY <1>1, <1>2, IdleStep DEF FinishEvaluation
<1>3. CASE FinishRule(e)
  <2>1. s \in Call
    BY <1>1, CallTyped DEF Steps
  <2>2. /\ s.step = "rule" /\ s.open = call[e].open /\ s.id = call[e].id
        /\ s.alone = call[e].alone /\ s.subs = call[e].subs /\ call[e].subs = {}
    BY <1>1, <1>3 DEF Call, FinishRule, RuleIsDone
  <2> HIDE DEF s
  <2>3. CallOK(e, s, alert)
    BY <1>1, <2>2 DEF CallOK, RowsOK, PlaceOK, ExactOK
  <2>4. call' = [call EXCEPT ![e] = s]
    BY <1>3 DEF FinishRule, Goto, s
  <2> QED BY <1>1, <2>1, <2>2, <2>3, <2>4, CallStep
<1> QED
  BY <1>2, <1>3
LEMMA CreateAlertStep ==
    ASSUME SignalsInv, NEW e \in Evaluators, CreateAlert(e)
    PROVE  SignalsInv'
<1> DEFINE a == call[e].id
           s == [call[e] EXCEPT !.step = "subscriptions"]
<1>1. /\ e \in Callers /\ e \notin Operators /\ call[e].step = "write"
      /\ call[e] \in Call /\ CallOK(e, call[e], alert)
  BY DEF CreateAlert, Callers, SignalsInv, TypeOK
<1>2. a \in Alerts /\ a[1] = call[e].rule /\ a \in call[e].seen
  BY <1>1 DEF CallOK, PlaceOK
<1>3. OthersTyped'
  <2>1. Matching(a[1]) \subseteq Subscriptions
    BY DEF Matching
  <2> QED BY <1>2, <2>1 DEF CreateAlert, Kept, SignalsInv, TypeOK, OthersTyped
<1>4. CASE Refuse(e)
  BY <1>1, <1>3, <1>4, IdleStep DEF Refuse
<1>5. CASE alert[a].status = "absent" /\ Store(a, NewAlert, "created") /\ Goto(e, s)
  <2>1. /\ NewAlert \in Alert /\ NewAlert.status = "active" /\ NewAlert.revision = 1
        /\ HistoryEntry(NewAlert, "created") \in Entry
    BY RecordsTyped, EntriesTyped DEF Actions
  <2>2. /\ alert \in [Alerts -> Alert] /\ NewAlert.status # "absent"
        /\ NewAlert.revision = alert[a].revision + 1
    BY <1>2, <1>5, <2>1 DEF SignalsInv, AbsentOK, TypeOK
  <2>3. s \in Call
    BY <1>1, CallTyped DEF Steps
  <2>4. /\ s.step = "subscriptions" /\ s.rule = call[e].rule /\ s.seen = call[e].seen
        /\ s.todo = call[e].todo /\ s.open = call[e].open /\ s.id = a
        /\ s.alone = call[e].alone /\ s.subs = call[e].subs
    BY <1>1 DEF Call
  <2>5. /\ alert' = [alert EXCEPT ![a] = NewAlert]
        /\ history' = [history EXCEPT ![a] = Append(@, HistoryEntry(NewAlert, "created"))]
        /\ call' = [call EXCEPT ![e] = s]
    BY <1>5 DEF Store, Goto
  <2> HIDE DEF s
  <2>6. RowsOK(call[e], alert')
    BY <1>1, <1>2, <2>1, <2>2, <2>5, RowsAge
  <2>7. RowsOK(s, alert') /\ PlaceOK(s)
    BY <1>1, <1>2, <2>4, <2>6 DEF CallOK, RowsOK, PlaceOK
  <2>8. ExactOK(s, alert')
    <3>1. alert'[a] = NewAlert /\ \A b \in Alerts : b # a => alert'[b] = alert[b]
      BY <1>2, <2>2, <2>5
    <3> QED BY <1>1, <1>2, <2>1, <2>4, <3>1 DEF CallOK, ExactOK, OpenStatus
  <2>9. CallOK(e, s, alert')
    BY <1>1, <2>4, <2>7, <2>8 DEF CallOK
  <2> QED
    BY <1>1, <1>2, <1>3, <2>1, <2>2, <2>3, <2>4, <2>5, <2>9, WriteStep
<1> QED
  BY <1>4, <1>5 DEF CreateAlert

LEMMA RefreshAlertStep ==
    ASSUME SignalsInv, NEW e \in Evaluators, RefreshAlert(e)
    PROVE  SignalsInv'
<1> DEFINE a == call[e].id
           row == call[e].row
           s == [call[e] EXCEPT !.step = "work"]
<1>1. /\ e \in Callers /\ e \notin Operators /\ call[e].step = "write" /\ OthersTyped'
      /\ call[e] \in Call /\ CallOK(e, call[e], alert) /\ row.status # "absent"
  BY DEF RefreshAlert, Kept, Callers, SignalsInv, TypeOK, OthersTyped
<1>2. a \in Alerts /\ a[1] = call[e].rule /\ a \in call[e].seen /\ call[e].subs = {}
  BY <1>1 DEF CallOK, PlaceOK
<1>4. CASE Refuse(e)
  BY <1>1, <1>4, IdleStep DEF Refuse
<1>5. CASE /\ SameRevision(a, row) /\ Store(a, Observed(row), ObservedAction(row))
           /\ Goto(e, s)
  <2>1. row = alert[a] /\ row \in Alert /\ alert \in [Alerts -> Alert]
    BY <1>1, <1>2, <1>5 DEF CallOK, RowsOK, RowOK, SameRevision, SignalsInv, TypeOK
  <2> DEFINE new == Observed(row)
             entry == HistoryEntry(new, ObservedAction(row))
  <2>2. /\ new \in Alert /\ new.status \in OpenStatus
        /\ new.revision = alert[a].revision + 1 /\ entry \in Entry
    BY <1>1, <2>1, RecordsTyped, EntriesTyped
  <2>3. s \in Call
    BY <1>1, CallTyped DEF Steps
  <2>4. /\ s.step = "work" /\ s.rule = call[e].rule /\ s.seen = call[e].seen
        /\ s.todo = call[e].todo /\ s.open = call[e].open
        /\ s.alone = call[e].alone /\ s.subs = call[e].subs
    BY <1>1 DEF Call
  <2>5. /\ alert' = [alert EXCEPT ![a] = new]
        /\ history' = [history EXCEPT ![a] = Append(@, entry)]
        /\ call' = [call EXCEPT ![e] = s]
    BY <1>5 DEF Store, Goto
  <2> HIDE DEF s, new, entry
  <2>6. RowsOK(call[e], alert')
    BY <1>1, <1>2, <2>1, <2>2, <2>5, RowsAge
  <2>7. RowsOK(s, alert') /\ PlaceOK(s)
    BY <1>1, <1>2, <2>4, <2>6 DEF CallOK, RowsOK, PlaceOK
  <2>8. ExactOK(s, alert')
    <3>1. alert'[a] = new /\ \A b \in Alerts : b # a => alert'[b] = alert[b]
      BY <1>2, <2>1, <2>5
    <3> QED BY <1>1, <1>2, <2>2, <2>4, <3>1 DEF CallOK, ExactOK
  <2>9. CallOK(e, s, alert') /\ new.status # "absent"
    BY <1>1, <2>2, <2>4, <2>7, <2>8 DEF CallOK, OpenStatus
  <2> QED
    BY <1>1, <1>2, <2>2, <2>3, <2>4, <2>5, <2>9, WriteStep
<1> QED
  BY <1>4, <1>5 DEF RefreshAlert

LEMMA ResolveAlertStep ==
    ASSUME SignalsInv, NEW e \in Evaluators, NEW o \in call[e].open, ResolveAlert(e, o)
    PROVE  SignalsInv'
<1> DEFINE a == o.id
           s == [call[e] EXCEPT !.open = @ \ {o}]
<1>1. /\ e \in Callers /\ e \notin Operators /\ call[e].step = "work" /\ OthersTyped'
      /\ call[e] \in Call /\ CallOK(e, call[e], alert) /\ o.id \notin call[e].seen
  BY DEF ResolveAlert, Unobserved, Kept, Callers, SignalsInv, TypeOK, OthersTyped
<1>2. a \in Alerts /\ o.row \in Alert
  BY <1>1 DEF Call, Snapshot
<1>4. CASE Refuse(e)
  BY <1>1, <1>4, IdleStep DEF Refuse
<1>5. CASE /\ SameRevision(o.id, o.row) /\ Store(o.id, Resolved(o.row), "resolved")
           /\ Goto(e, s)
  <2>1. o.row = alert[a] /\ alert \in [Alerts -> Alert]
    BY <1>1, <1>2, <1>5 DEF CallOK, RowsOK, RowOK, SameRevision, SignalsInv, TypeOK
  <2> DEFINE new == Resolved(o.row)
             entry == HistoryEntry(new, "resolved")
  <2>2. /\ new \in Alert /\ new.status = "resolved"
        /\ new.revision = alert[a].revision + 1 /\ entry \in Entry
    BY <1>2, <2>1, RecordsTyped, EntriesTyped DEF Actions
  <2>3. s \in Call
    <3>1. call[e].open \ {o} \in SUBSET Snapshot
      BY <1>1 DEF Call
    <3> QED BY <1>1, <3>1, CallTyped
  <2>4. /\ s.step = "work" /\ s.rule = call[e].rule /\ s.seen = call[e].seen
        /\ s.todo = call[e].todo /\ s.open = call[e].open \ {o} /\ s.id = call[e].id
        /\ s.alone = call[e].alone /\ s.subs = call[e].subs
    BY <1>1 DEF Call
  <2>5. /\ alert' = [alert EXCEPT ![a] = new]
        /\ history' = [history EXCEPT ![a] = Append(@, entry)]
        /\ call' = [call EXCEPT ![e] = s]
    BY <1>5 DEF Store, Goto
  <2> HIDE DEF s, new, entry
  <2>6. RowsOK(call[e], alert')
    BY <1>1, <1>2, <2>1, <2>2, <2>5, RowsAge
  <2>7. RowsOK(s, alert') /\ PlaceOK(s)
    BY <1>1, <1>2, <2>4, <2>6 DEF CallOK, RowsOK, PlaceOK
  <2>8. ExactOK(s, alert')
    <3>1. alert'[a] = new /\ \A b \in Alerts : b # a => alert'[b] = alert[b]
      BY <1>2, <2>1, <2>5
    <3> QED BY <1>1, <1>2, <2>2, <2>4, <3>1 DEF CallOK, ExactOK, OpenStatus
  <2>9. CallOK(e, s, alert')
    BY <1>1, <2>4, <2>7, <2>8 DEF CallOK
  <2> QED
    BY <1>1, <1>2, <2>2, <2>3, <2>4, <2>5, <2>9, WriteStep
<1> QED
  BY <1>4, <1>5 DEF ResolveAlert
LEMMA BeginOperationStep ==
    ASSUME SignalsInv, NEW o \in Operators, NEW a \in Alerts,
           \/ BeginAcknowledge(o, a)
           \/ \E who \in Assignees : BeginAssign(o, a, who)
    PROVE  SignalsInv'
<1>1. /\ o \in Callers /\ o \notin Evaluators
      /\ alert[a] \in Alert /\ alert[a].revision \in Nat
  BY DEF Callers, SignalsInv, TypeOK, Alert
<1>2. ASSUME NEW s \in Call, Begin(o, s), alert[a].status \in OpenStatus,
             s.step = "acknowledge" \/ (s.step = "assign" /\ s.who \in Assignees),
             s.id = a, s.row = alert[a], s.open = {}, s.subs = {}, ~s.alone
      PROVE  SignalsInv'
  <2>1. OthersTyped'
    <3>1. changes \in Nat /\ calls \in Nat /\ faults \in Nat
      BY DEF SignalsInv, TypeOK
    <3>2. calls' = calls + 1 /\ UNCHANGED <<changes, faults>>
      BY <1>2 DEF Begin
    <3>3. {calls, changes, faults}' \subseteq Nat
      BY <3>1, <3>2
    <3> QED BY <1>2, <3>3 DEF Begin, SignalsInv, TypeOK, OthersTyped
  <2>2. CallOK(o, s, alert)
    BY <1>1, <1>2 DEF CallOK, RowsOK, RowOK, PlaceOK, ExactOK
  <2>3. call' = [call EXCEPT ![o] = s] /\ UNCHANGED <<alert, history>>
    BY <1>2 DEF Begin, Goto
  <2> QED BY <1>1, <1>2, <2>1, <2>2, <2>3, CallStep
<1>3. CASE BeginAcknowledge(o, a)
  <2> DEFINE s == [IdleCall EXCEPT !.step = "acknowledge", !.id = a, !.row = alert[a]]
  <2>1. Begin(o, s) /\ alert[a].status \in OpenStatus
    BY <1>3 DEF BeginAcknowledge, MayActOn
  <2>2. /\ s.step = "acknowledge" /\ s.id = a /\ s.row = alert[a] /\ s.open = {}
        /\ s.subs = {} /\ ~s.alone
    BY DEF IdleCall
  <2>3. s \in Call
    BY <1>1 DEF IdleCall, Call, Steps
  <2> HIDE DEF s
  <2> QED BY <1>2, <2>1, <2>2, <2>3
<1>4. ASSUME NEW who \in Assignees, BeginAssign(o, a, who) PROVE SignalsInv'
  <2> DEFINE s == [IdleCall EXCEPT !.step = "assign", !.id = a, !.row = alert[a],
                                   !.who = who]
  <2>1. Begin(o, s) /\ alert[a].status \in OpenStatus
    BY <1>4 DEF BeginAssign, MayActOn
  <2>2. /\ s.step = "assign" /\ s.who = who /\ s.id = a /\ s.row = alert[a]
        /\ s.open = {} /\ s.subs = {} /\ ~s.alone
    BY DEF IdleCall
  <2>3. s \in Call
    BY <1>1 DEF IdleCall, Call, Steps
  <2> HIDE DEF s
  <2> QED BY <1>2, <2>1, <2>2, <2>3
<1> QED
  BY <1>3, <1>4

(* An operator's write, to an alert that is still as it was read. *)
LEMMA OperatorWrites ==
    ASSUME SignalsInv, NEW o \in Operators, NEW new \in Alert, NEW action \in Actions,
           Write(o, new, action), call[o].id \in Alerts,
           call[o].step \in {"acknowledge", "assign"},
           new.revision = call[o].row.revision + 1, new.status \in OpenStatus,
           new.status = "active" => call[o].row.status = "active"
    PROVE  SignalsInv'
<1> DEFINE a == call[o].id
           entry == HistoryEntry(new, action)
<1>1. /\ o \in Callers /\ o \notin Evaluators /\ OthersTyped' /\ IdleCall \in Call
      /\ CallOK(o, call[o], alert) /\ alert \in [Alerts -> Alert]
  BY CallTyped DEF Write, Kept, Callers, SignalsInv, TypeOK, OthersTyped
<1>2. CASE Refuse(o)
  BY <1>1, <1>2, IdleStep DEF Refuse
<1>3. CASE SameRevision(a, call[o].row) /\ Store(a, new, action) /\ Goto(o, IdleCall)
  <2>1. call[o].row = alert[a] /\ alert[a].status \in OpenStatus
    BY <1>1, <1>3 DEF CallOK, RowsOK, RowOK, SameRevision
  <2>2. /\ alert' = [alert EXCEPT ![a] = new]
        /\ history' = [history EXCEPT ![a] = Append(@, entry)]
        /\ call' = [call EXCEPT ![o] = IdleCall] /\ entry \in Entry
    BY <1>3, EntriesTyped DEF Store, Goto
  <2>3. new.status # "absent" /\ ~IdleCall.alone /\ CallOK(o, IdleCall, alert')
    BY IdleOK DEF OpenStatus
  <2> HIDE DEF entry
  <2> QED BY <1>1, <2>1, <2>2, <2>3, WriteStep
<1> QED
  BY <1>2, <1>3 DEF Write

LEMMA OperationStep ==
    ASSUME SignalsInv, NEW o \in Operators, Acknowledge(o) \/ Assign(o)
    PROVE  SignalsInv'
<1>1. /\ call[o].step \in {"acknowledge", "assign"} /\ o \in Callers
      /\ CallOK(o, call[o], alert) /\ call[o] \in Call
  BY DEF Acknowledge, Assign, Callers, SignalsInv, TypeOK
<1>2. /\ call[o].id \in Alerts /\ call[o].row \in Alert /\ call[o].row.status \in OpenStatus
      /\ call[o].step = "assign" => call[o].who \in Assignees
  BY <1>1 DEF CallOK, RowsOK, Call
<1>3. CASE Acknowledge(o)
  <2> DEFINE new == Acknowledged(call[o].row)
  <2>1. /\ new \in Alert /\ new.revision = call[o].row.revision + 1
        /\ new.status = "acknowledged" /\ new.status \in OpenStatus
        /\ "acknowledged" \in Actions /\ new.status # "active"
    BY <1>2, RecordsTyped DEF OpenStatus, Actions
  <2>2. Write(o, new, "acknowledged")
    BY <1>3 DEF Acknowledge
  <2> HIDE DEF new
  <2> QED BY <1>1, <1>2, <2>1, <2>2, OperatorWrites
<1>4. CASE Assign(o)
  <2> DEFINE new == AssignedTo(call[o].row, call[o].who)
  <2>1. /\ new \in Alert /\ new.revision = call[o].row.revision + 1
        /\ new.status = call[o].row.status /\ "assigned" \in Actions
    BY <1>2, <1>4, RecordsTyped DEF Assign, Actions
  <2>2. Write(o, new, "assigned")
    BY <1>4 DEF Assign
  <2> HIDE DEF new
  <2> QED BY <1>1, <1>2, <2>1, <2>2, OperatorWrites
<1> QED
  BY <1>3, <1>4

LEMMA AbortStep ==
    ASSUME SignalsInv, NEW c \in Callers, Abort(c)
    PROVE  SignalsInv'
<1>1. OthersTyped'
  <2>1. changes \in Nat /\ calls \in Nat /\ faults \in Nat
    BY DEF SignalsInv, TypeOK
  <2>2. faults' = faults + 1 /\ UNCHANGED <<changes, calls>>
    BY DEF Abort
  <2>3. {calls, changes, faults}' \subseteq Nat
    BY <2>1, <2>2
  <2>4. Announcing(call[c]) => call[c].id \in Alerts
    BY DEF Announcing, SignalsInv, CallOK, PlaceOK
  <2>5. cut' \subseteq Alerts
    BY <2>4 DEF Abort, SignalsInv, TypeOK
  <2> QED BY <2>3, <2>5 DEF Abort, SignalsInv, TypeOK, OthersTyped
<1> QED
  BY <1>1, IdleStep DEF Abort

LEMMA InitEstablishes ==
    ASSUME Init
    PROVE  SignalsInv
<1>1. TypeOK
  <2>1. IdleCall \in Call
    BY RecordsTyped DEF IdleCall, Call, Steps
  <2>2. OthersTyped
    BY DEF Init, OthersTyped, Rule, Scope
  <2>3. <<>> \in Seq(Entry)
    OBVIOUS
  <2> QED BY <2>1, <2>2, <2>3, RecordsTyped DEF Init, TypeOK, OthersTyped
<1> QED
  BY <1>1, IdleOK, RecordsTyped DEF SignalsInv, Init, AbsentOK, AloneOK, Callers

LEMMA StepPreserves ==
    ASSUME SignalsInv, [Next]_vars
    PROVE  SignalsInv'
<1>1. CASE UNCHANGED vars
  BY <1>1, DataStep DEF vars, SignalsInv, TypeOK, OthersTyped
<1>2. ASSUME NEW e \in Evaluators,
             \/ BeginEvaluation(e)
             \/ \E r \in Rules : ObserveCandidates(e, r)
             \/ ListActive(e)
             \/ ListAcknowledged(e)
             \/ \E a \in Alerts : GetCandidate(e, a)
             \/ CreateAlert(e)
             \/ RefreshAlert(e)
             \/ ListSubscriptions(e)
             \/ \E s \in Subscriptions : CreateDelivery(e, s)
             \/ \E o \in call[e].open : ResolveAlert(e, o)
             \/ FinishRule(e)
             \/ FinishEvaluation(e)
      PROVE  SignalsInv'
  BY <1>2, BeginEvaluationStep, ObserveCandidatesStep, ListActiveStep,
     ListAcknowledgedStep, GetCandidateStep, CreateAlertStep, RefreshAlertStep,
     ListSubscriptionsStep, CreateDeliveryStep, ResolveAlertStep, FinishStep
<1> QED
  BY <1>1, <1>2, ChangesStep, BeginOperationStep, OperationStep, AbortStep DEF Next

(* Every reachable state satisfies the inductive invariant. *)
LEMMA Invariance == Spec => []SignalsInv
BY InitEstablishes, StepPreserves, PTL DEF Spec

(* Rules, alerts, histories, subscriptions, deliveries and the private      *)
(* state of every call of signals/service.go keep their shapes.             *)
THEOREM SignalsTypeCorrect == Spec => []TypeOK
<1>1. SignalsInv => TypeOK
  BY DEF SignalsInv
<1> QED
  BY <1>1, Invariance, PTL

(* An evaluation during which no other one ran leaves exactly the alerts of *)
(* its rules open that it observed, however many operators acknowledge and  *)
(* assign alerts between its reads and its writes.                          *)
THEOREM EvaluationsAreExact == Spec => []EvaluationIsExact
<1>1. SignalsInv => EvaluationIsExact
  <2> SUFFICES ASSUME SignalsInv, NEW e \in Evaluators, call[e].alone, RuleIsDone(call[e]),
                      NEW a \in Alerts, a[1] = call[e].rule
               PROVE  alert[a].status \in OpenStatus <=> a \in call[e].seen
    BY DEF EvaluationIsExact
  <2>1. ExactOK(call[e], alert) /\ call[e].step = "work" /\ call[e].todo = {}
    BY DEF SignalsInv, CallOK, Callers, RuleIsDone
  <2>2. \A o \in call[e].open : o.id \in call[e].seen
    BY DEF RuleIsDone, Unobserved
  <2> QED BY <2>1, <2>2 DEF ExactOK
<1> QED
  BY <1>1, Invariance, PTL

-----------------------------------------------------------------------------
(***************************************************************************)
(* That SignalsAlerts implements AlertLifecycle, and what follows for the  *)
(* history of an alert and for its deliveries.  The refinement rests on    *)
(* one part of SignalsInv: a row whose revision is the stored one IS the   *)
(* stored row, so a write that the store accepts acts on the alert as it   *)
(* is.                                                                     *)
(***************************************************************************)

(* What a step of a call may do to the stored alerts. *)
AlertStep ==
    \/ UNCHANGED <<alert, history>>
    \/ \E a \in Alerts :
           \/ alert[a].status = "absent" /\ Store(a, NewAlert, "created")
           \/ /\ alert[a].status # "absent"
              /\ Store(a, Observed(alert[a]), ObservedAction(alert[a]))
           \/ /\ alert[a].status \in OpenStatus
              /\ \/ Store(a, Acknowledged(alert[a]), "acknowledged")
                 \/ \E who \in Assignees : Store(a, AssignedTo(alert[a], who), "assigned")
                 \/ Store(a, Resolved(alert[a]), "resolved")

(* Every step of the service is a step of the lifecycle or leaves the       *)
(* alerts alone.                                                            *)
LEMMA EveryStep ==
    ASSUME SignalsInv, [Next]_vars
    PROVE  AlertStep
<1>1. CASE UNCHANGED vars
  BY <1>1 DEF vars, AlertStep
<1>2. ASSUME NEW a \in Alerts, ConditionChanges(a) PROVE AlertStep
  BY <1>2 DEF ConditionChanges, Change, AlertStep
<1>3. ASSUME NEW r \in Rules, NEW b \in BOOLEAN, CreateRule(r, b) \/ UpdateRule(r, b)
      PROVE  AlertStep
  BY <1>3 DEF CreateRule, UpdateRule, Change, AlertStep
<1>4. ASSUME NEW s \in Subscriptions,
             \/ \E scope \in Rules \cup {AnyRule} : CreateSubscription(s, scope)
             \/ DeleteSubscription(s)
      PROVE  AlertStep
  BY <1>4 DEF CreateSubscription, DeleteSubscription, Change, AlertStep
<1>5. ASSUME NEW e \in Evaluators, CreateAlert(e) PROVE AlertStep
  <2>1. call[e].id \in Alerts
    BY <1>5 DEF CreateAlert, SignalsInv, Callers, CallOK, PlaceOK
  <2> QED BY <1>5, <2>1 DEF CreateAlert, Refuse, AlertStep
<1>6. ASSUME NEW e \in Evaluators, RefreshAlert(e) PROVE AlertStep
  <2>1. call[e].id \in Alerts /\ RowOK(call[e].row, alert[call[e].id])
    BY <1>6 DEF RefreshAlert, SignalsInv, Callers, CallOK, RowsOK
  <2>2. CASE Refuse(e)
    BY <2>2 DEF Refuse, AlertStep
  <2>3. CASE /\ SameRevision(call[e].id, call[e].row)
             /\ Store(call[e].id, Observed(call[e].row), ObservedAction(call[e].row))
    <3>1. call[e].row = alert[call[e].id] /\ call[e].row.status # "absent"
      BY <1>6, <2>1, <2>3 DEF RowOK, SameRevision, RefreshAlert
    <3> QED BY <2>1, <2>3, <3>1 DEF AlertStep
  <2> QED BY <1>6, <2>2, <2>3 DEF RefreshAlert
<1>7. ASSUME NEW e \in Evaluators, NEW o \in call[e].open, ResolveAlert(e, o)
      PROVE  AlertStep
  <2>1. /\ o.id \in Alerts /\ RowOK(o.row, alert[o.id])
        /\ o.row.status \in OpenStatus
    <3>1. call[e] \in Call /\ RowsOK(call[e], alert)
      BY DEF SignalsInv, TypeOK, Callers, CallOK
    <3> QED BY <3>1 DEF Call, Snapshot, RowsOK
  <2>2. CASE Refuse(e)
    BY <2>2 DEF Refuse, AlertStep
  <2>3. CASE SameRevision(o.id, o.row) /\ Store(o.id, Resolved(o.row), "resolved")
    <3>1. o.row = alert[o.id]
      BY <2>1, <2>3 DEF RowOK, SameRevision
    <3> QED BY <2>1, <2>3, <3>1 DEF AlertStep
  <2> QED BY <1>7, <2>2, <2>3 DEF ResolveAlert
<1>8. ASSUME NEW e \in Evaluators,
             \/ BeginEvaluation(e)
             \/ \E r \in Rules : ObserveCandidates(e, r)
             \/ ListActive(e)
             \/ ListAcknowledged(e)
             \/ \E a \in Alerts : GetCandidate(e, a)
             \/ ListSubscriptions(e)
             \/ \E s \in Subscriptions : CreateDelivery(e, s)
             \/ FinishRule(e)
             \/ FinishEvaluation(e)
      PROVE  AlertStep
  BY <1>8 DEF BeginEvaluation, ObserveCandidates, ListActive, ListAcknowledged,
              GetCandidate, ListSubscriptions, CreateDelivery, FinishRule,
              FinishEvaluation, AlertStep
<1>9. ASSUME NEW o \in Operators, NEW a \in Alerts,
             \/ BeginAcknowledge(o, a)
             \/ \E who \in Assignees : BeginAssign(o, a, who)
      PROVE  AlertStep
  BY <1>9 DEF BeginAcknowledge, BeginAssign, Begin, AlertStep
<1>10. ASSUME NEW o \in Operators, Acknowledge(o) \/ Assign(o) PROVE AlertStep
  <2>1. /\ call[o].id \in Alerts /\ RowOK(call[o].row, alert[call[o].id])
        /\ call[o].row.status \in OpenStatus
        /\ call[o].step = "assign" => call[o].who \in Assignees
    BY <1>10 DEF Acknowledge, Assign, SignalsInv, Callers, CallOK, RowsOK
  <2>2. CASE Refuse(o)
    BY <2>2 DEF Refuse, AlertStep
  <2>3. CASE SameRevision(call[o].id, call[o].row)
    <3>1. call[o].row = alert[call[o].id]
      BY <2>1, <2>3 DEF RowOK, SameRevision
    <3>2. CASE Acknowledge(o)
      BY <2>1, <2>3, <3>1, <3>2 DEF Acknowledge, Write, AlertStep
    <3>3. CASE Assign(o)
      BY <2>1, <2>3, <3>1, <3>3 DEF Assign, Write, AlertStep
    <3> QED BY <1>10, <3>2, <3>3
  <2> QED BY <1>10, <2>2, <2>3 DEF Acknowledge, Assign, Write
<1>11. ASSUME NEW c \in Callers, Abort(c) PROVE AlertStep
  BY <1>11 DEF Abort, AlertStep
<1> QED
  BY <1>1, <1>2, <1>3, <1>4, <1>5, <1>6, <1>7, <1>8, <1>9, <1>10, <1>11 DEF Next

(* Evaluations, acknowledgments and assignments of signals/service.go, each *)
(* read in one step and written in another, and interleaved, act as if each *)
(* were one step on the stored alert.                                       *)
THEOREM LifecycleImplemented == Spec => ImplementsLifecycle
<1>1. Init => Life!Init
  BY DEF Init, Life!Init, AbsentAlert, Life!AbsentAlert
<1>2. ASSUME SignalsInv, [Next]_vars
      PROVE  [Life!Next]_(Life!lifeVars)
  <2>1. AlertStep
    BY <1>2, EveryStep
  <2>2. CASE UNCHANGED <<alert, history>>
    BY <2>2 DEF Life!lifeVars
  <2>3. ASSUME NEW a \in Alerts, alert[a].status = "absent", Store(a, NewAlert, "created")
        PROVE  Life!Next
    <3>1. Life!Create(a)
      BY <2>3 DEF Life!Create, Store, Life!Store, HistoryEntry, Life!HistoryEntry,
                  NewAlert, Life!NewAlert, AbsentAlert, Life!AbsentAlert
    <3> QED BY <3>1 DEF Life!Next
  <2>4. ASSUME NEW a \in Alerts, alert[a].status # "absent",
               Store(a, Observed(alert[a]), ObservedAction(alert[a]))
        PROVE  Life!Next
    <3>1. Life!Observe(a)
      BY <2>4 DEF Life!Observe, Store, Life!Store, HistoryEntry, Life!HistoryEntry,
                  Observed, Life!Observed, ObservedAction, Life!ObservedAction
    <3> QED BY <3>1 DEF Life!Next
  <2>5. ASSUME NEW a \in Alerts, alert[a].status \in OpenStatus,
               Store(a, Acknowledged(alert[a]), "acknowledged")
        PROVE  Life!Next
    <3>1. Life!Acknowledge(a)
      BY <2>5 DEF Life!Acknowledge, Store, Life!Store, HistoryEntry, Life!HistoryEntry,
                  Acknowledged, Life!Acknowledged, OpenStatus, Life!OpenStatus
    <3> QED BY <3>1 DEF Life!Next
  <2>6. ASSUME NEW a \in Alerts, alert[a].status \in OpenStatus, NEW who \in Assignees,
               Store(a, AssignedTo(alert[a], who), "assigned")
        PROVE  Life!Next
    <3>1. Life!Assign(a, who)
      BY <2>6 DEF Life!Assign, Store, Life!Store, HistoryEntry, Life!HistoryEntry,
                  AssignedTo, Life!AssignedTo, OpenStatus, Life!OpenStatus
    <3> QED BY <3>1 DEF Life!Next
  <2>7. ASSUME NEW a \in Alerts, alert[a].status \in OpenStatus,
               Store(a, Resolved(alert[a]), "resolved")
        PROVE  Life!Next
    <3>1. Life!Resolve(a)
      BY <2>7 DEF Life!Resolve, Store, Life!Store, HistoryEntry, Life!HistoryEntry,
                  Resolved, Life!Resolved, OpenStatus, Life!OpenStatus
    <3> QED BY <3>1 DEF Life!Next
  <2> QED BY <2>1, <2>2, <2>3, <2>4, <2>5, <2>6, <2>7 DEF AlertStep
<1> QED
  BY <1>1, <1>2, Invariance, PTL DEF Spec, ImplementsLifecycle, Life!Spec

-----------------------------------------------------------------------------
(* The history of an alert.                                                *)

Numbered(h) ==
    \A i \in DOMAIN h :
        /\ h[i].revision = i
        /\ h[i].action = "created" <=> i = 1
        /\ i > 1 => (h[i].action = "reopened" <=> h[i - 1].action = "resolved")

StatusTold(status, h) ==
    \A i \in DOMAIN h :
        (/\ h[i].action \in DOMAIN StatusOf
         /\ \A j \in DOMAIN h : j > i => h[j].action \notin DOMAIN StatusOf)
        => status = StatusOf[h[i].action]

AckTold(acked, h) ==
    acked = \E i \in DOMAIN h :
                /\ h[i].action = "acknowledged"
                /\ \A j \in DOMAIN h : j > i => h[j].action # "reopened"

(* The strengthening: an alert is resolved exactly if its last entry says   *)
(* so, for nothing happens to it until it is reopened.                      *)
LastOK(status, h) ==
    status = "resolved" <=> Len(h) > 0 /\ h[Len(h)].action = "resolved"

HistoryOK(row, h) ==
    /\ Len(h) = row.revision
    /\ Numbered(h)
    /\ StatusTold(row.status, h)
    /\ AckTold(row.acked, h)
    /\ LastOK(row.status, h)

HistoryInv == \A a \in Alerts : HistoryOK(alert[a], history[a])

LEMMA StatusOfTable ==
    /\ DOMAIN StatusOf = {"created", "reopened", "acknowledged", "resolved"}
    /\ StatusOf["created"] = "active" /\ StatusOf["reopened"] = "active"
    /\ StatusOf["acknowledged"] = "acknowledged" /\ StatusOf["resolved"] = "resolved"
BY DEF StatusOf

(* One more entry, that agrees with what becomes of the row. *)
LEMMA EntryAppended ==
    ASSUME NEW row \in Alert, NEW new \in Alert, NEW action \in Actions,
           NEW h \in Seq(Entry), HistoryOK(row, h),
           new.revision = row.revision + 1,
           action = "created" <=> row.revision = 0,
           row.revision > 0 => (action = "reopened" <=> row.status = "resolved"),
           action \in DOMAIN StatusOf => new.status = StatusOf[action],
           action \notin DOMAIN StatusOf => new.status = row.status,
           new.status = "resolved" <=> action = "resolved",
           action = "acknowledged" => new.acked,
           action = "reopened" => ~new.acked,
           action \notin {"acknowledged", "reopened"} => new.acked = row.acked
    PROVE  HistoryOK(new, Append(h, HistoryEntry(new, action)))
<1> DEFINE n == Len(h)
           entry == HistoryEntry(new, action)
           g == Append(h, entry)
<1>1. /\ n \in Nat /\ row.revision = n /\ new.revision = n + 1 /\ DOMAIN h = 1..n
      /\ entry \in Entry /\ entry.revision = n + 1 /\ entry.action = action
      /\ \A i \in 1..n : h[i] \in Entry
  BY EntriesTyped DEF HistoryOK, HistoryEntry
<1>2. /\ Len(g) = n + 1 /\ DOMAIN g = 1..(n + 1) /\ g[n + 1] = entry
      /\ \A i \in 1..n : g[i] = h[i]
  BY <1>1
<1> HIDE DEF n, entry, g
<1>3. Numbered(g)
  <2> SUFFICES ASSUME NEW i \in 1..(n + 1)
               PROVE  /\ g[i].revision = i
                      /\ g[i].action = "created" <=> i = 1
                      /\ i > 1 => (g[i].action = "reopened" <=> g[i - 1].action = "resolved")
    BY <1>2 DEF Numbered
  <2>1. CASE i \in 1..n
    <3>1. g[i] = h[i] /\ (i > 1 => i - 1 \in 1..n /\ g[i - 1] = h[i - 1])
      BY <1>1, <1>2, <2>1
    <3> QED BY <1>1, <2>1, <3>1, SMTT(30) DEF HistoryOK, Numbered
  <2>2. CASE i = n + 1
    <3>1. g[i].revision = i /\ (g[i].action = "created" <=> i = 1)
      BY <1>1, <1>2, <2>2
    <3>2. ASSUME i > 1 PROVE g[i].action = "reopened" <=> g[i - 1].action = "resolved"
      <4>1. n > 0 /\ i - 1 = n /\ g[i - 1] = h[n]
        BY <1>1, <1>2, <2>2, <3>2
      <4>2. row.status = "resolved" <=> h[n].action = "resolved"
        BY <1>1, <4>1 DEF HistoryOK, LastOK, n
      <4> QED BY <1>1, <1>2, <2>2, <4>1, <4>2
    <3> QED BY <3>1, <3>2
  <2> QED BY <1>1, <2>1, <2>2
<1>4. StatusTold(new.status, g)
  <2> SUFFICES ASSUME NEW i \in 1..(n + 1), g[i].action \in DOMAIN StatusOf,
                      \A j \in 1..(n + 1) : j > i => g[j].action \notin DOMAIN StatusOf
               PROVE  new.status = StatusOf[g[i].action]
    BY <1>2 DEF StatusTold
  <2>1. CASE i = n + 1
    BY <1>1, <1>2, <2>1
  <2>2. CASE i \in 1..n
    <3>1. action \notin DOMAIN StatusOf
      BY <1>1, <1>2, <2>2
    <3>2. \A j \in 1..n : j > i => h[j].action \notin DOMAIN StatusOf
      BY <1>1, <1>2
    <3>3. row.status = StatusOf[h[i].action]
      BY <1>1, <1>2, <2>2, <3>2 DEF HistoryOK, StatusTold
    <3> QED BY <1>2, <2>2, <3>1, <3>3
  <2> QED BY <1>1, <2>1, <2>2
<1>5. AckTold(new.acked, g)
  <2> DEFINE Since(f, m) == \E i \in 1..m :
                                /\ f[i].action = "acknowledged"
                                /\ \A j \in 1..m : j > i => f[j].action # "reopened"
  <2>1. row.acked = Since(h, n)
    BY <1>1 DEF HistoryOK, AckTold
  <2>2. CASE action = "acknowledged"
    <3>1. n + 1 \in 1..(n + 1) /\ \A j \in 1..(n + 1) : ~(j > n + 1)
      BY <1>1
    <3>2. Since(g, n + 1)
      BY <1>1, <1>2, <2>2, <3>1
    <3>3. new.acked = TRUE
      BY <2>2 DEF Alert
    <3> QED BY <1>2, <3>2, <3>3 DEF AckTold
  <2>3. CASE action = "reopened"
    <3>1. ~Since(g, n + 1)
      <4> SUFFICES ASSUME NEW i \in 1..(n + 1), g[i].action = "acknowledged",
                          \A j \in 1..(n + 1) : j > i => g[j].action # "reopened"
                   PROVE  FALSE
        OBVIOUS
      <4>1. i # n + 1
        BY <1>1, <1>2, <2>3
      <4> QED BY <1>1, <1>2, <2>3, <4>1
    <3>2. new.acked = FALSE
      BY <2>3 DEF Alert
    <3> QED BY <1>2, <3>1, <3>2 DEF AckTold
  <2>4. CASE action \notin {"acknowledged", "reopened"}
    <3>1. Since(h, n) => Since(g, n + 1)
      <4> SUFFICES ASSUME NEW i \in 1..n, h[i].action = "acknowledged",
                          \A j \in 1..n : j > i => h[j].action # "reopened"
                   PROVE  Since(g, n + 1)
        OBVIOUS
      <4>1. i \in 1..(n + 1) /\ g[i].action = "acknowledged"
        BY <1>1, <1>2
      <4>2. ASSUME NEW j \in 1..(n + 1), j > i PROVE g[j].action # "reopened"
        <5>1. CASE j = n + 1
          BY <1>1, <1>2, <2>4, <5>1
        <5>2. CASE j \in 1..n
          BY <1>1, <1>2, <4>2, <5>2
        <5> QED BY <1>1, <5>1, <5>2
      <4> QED BY <4>1, <4>2
    <3>2. Since(g, n + 1) => Since(h, n)
      <4> SUFFICES ASSUME NEW i \in 1..(n + 1), g[i].action = "acknowledged",
                          \A j \in 1..(n + 1) : j > i => g[j].action # "reopened"
                   PROVE  Since(h, n)
        OBVIOUS
      <4>1. i \in 1..n /\ h[i].action = "acknowledged"
        BY <1>1, <1>2, <2>4
      <4>2. ASSUME NEW j \in 1..n, j > i PROVE h[j].action # "reopened"
        BY <1>1, <1>2, <4>2
      <4> QED BY <4>1, <4>2
    <3>3. new.acked = Since(h, n)
      BY <2>1, <2>4
    <3> HIDE DEF Since
    <3>4. new.acked = Since(g, n + 1)
      <4>1. Since(h, n) \in BOOLEAN /\ Since(g, n + 1) \in BOOLEAN
        BY DEF Since
      <4> QED BY <3>1, <3>2, <3>3, <4>1
    <3> QED BY <1>2, <3>4 DEF AckTold, Since
  <2> QED BY <2>2, <2>3, <2>4
<1>6. LastOK(new.status, g)
  BY <1>1, <1>2 DEF LastOK
<1> QED
  BY <1>1, <1>2, <1>3, <1>4, <1>5, <1>6 DEF HistoryOK, entry, g

(* What each operation makes of the acknowledgment. *)
LEMMA AckedAfter ==
    ASSUME NEW row \in Alert
    PROVE  /\ Acknowledged(row).acked
           /\ Resolved(row).acked = row.acked
           /\ \A who : AssignedTo(row, who).acked = row.acked
           /\ row.status = "resolved" => ~Observed(row).acked
           /\ row.status # "resolved" => Observed(row).acked = row.acked
<1>1. Acknowledged(row).acked = TRUE
  BY DEF Acknowledged, Alert
<1>2. Resolved(row).acked = row.acked
  BY DEF Resolved, Alert
<1>3. ASSUME NEW who PROVE AssignedTo(row, who).acked = row.acked
  BY DEF AssignedTo, Alert
<1>4. row.status = "resolved" => Observed(row).acked = FALSE
  BY DEF Observed, Alert
<1>5. row.status # "resolved" => Observed(row).acked = row.acked
  BY DEF Observed, Alert
<1> QED
  BY <1>1, <1>2, <1>3, <1>4, <1>5, Zenon

LEMMA StoreKeepsHistory ==
    ASSUME SignalsInv, HistoryInv, NEW a \in Alerts, NEW new, NEW action,
           Store(a, new, action),
           HistoryOK(new, Append(history[a], HistoryEntry(new, action)))
    PROVE  HistoryInv'
<1>1. alert \in [Alerts -> Alert] /\ history \in [Alerts -> Seq(Entry)]
  BY DEF SignalsInv, TypeOK
<1>2. \A b \in Alerts : HistoryOK(alert'[b], history'[b])
  BY <1>1 DEF Store, HistoryInv
<1> QED BY <1>2 DEF HistoryInv

LEMMA HistoryKept ==
    ASSUME SignalsInv, HistoryInv, AlertStep
    PROVE  HistoryInv'
<1>1. CASE UNCHANGED <<alert, history>>
  BY <1>1 DEF HistoryInv
<1>2. ASSUME NEW a \in Alerts
      PROVE  /\ alert[a] \in Alert /\ history[a] \in Seq(Entry) /\ alert[a].revision \in Nat
             /\ alert[a].status = "absent" <=> alert[a].revision = 0
             /\ HistoryOK(alert[a], history[a])
  BY DEF SignalsInv, TypeOK, AbsentOK, HistoryInv, Alert
<1>3. ASSUME NEW a \in Alerts, alert[a].status = "absent", Store(a, NewAlert, "created")
      PROVE  HistoryInv'
  <2>1. ~alert[a].acked
    <3>1. DOMAIN history[a] = {} /\ alert[a].acked \in BOOLEAN
      BY <1>2, <1>3 DEF HistoryOK, Alert
    <3> QED BY <1>2, <3>1 DEF HistoryOK, AckTold
  <2>2. /\ NewAlert \in Alert /\ NewAlert.status = "active"
        /\ NewAlert.revision = alert[a].revision + 1 /\ NewAlert.acked = alert[a].acked
    <3>1. NewAlert.acked = FALSE
      BY DEF NewAlert, AbsentAlert
    <3>2. alert[a].acked = FALSE
      BY <1>2, <2>1 DEF Alert
    <3>3. NewAlert.acked = alert[a].acked
      BY <3>1, <3>2, Zenon
    <3> QED BY <1>2, <1>3, <3>3, RecordsTyped
  <2>3. HistoryOK(NewAlert, Append(history[a], HistoryEntry(NewAlert, "created")))
    BY <1>2, <1>3, <2>2, StatusOfTable, EntryAppended DEF Actions
  <2> QED BY <1>3, <2>3, StoreKeepsHistory
<1>4. ASSUME NEW a \in Alerts, alert[a].status # "absent",
             Store(a, Observed(alert[a]), ObservedAction(alert[a]))
      PROVE  HistoryInv'
  <2> DEFINE new == Observed(alert[a])
             action == ObservedAction(alert[a])
  <2>1. /\ new \in Alert /\ new.revision = alert[a].revision + 1 /\ action \in Actions
        /\ new.status # "resolved"
    BY <1>2, <1>4, RecordsTyped, EntriesTyped DEF OpenStatus
  <2>2. \/ /\ alert[a].status = "resolved" /\ action = "reopened" /\ new.status = "active"
           /\ ~new.acked
        \/ /\ alert[a].status # "resolved" /\ action = "refreshed"
           /\ new.status = alert[a].status /\ new.acked = alert[a].acked
    BY <1>2 DEF Observed, ObservedAction, Alert
  <2> HIDE DEF new, action
  <2>3. HistoryOK(new, Append(history[a], HistoryEntry(new, action)))
    BY <1>2, <1>4, <2>1, <2>2, StatusOfTable, EntryAppended
  <2> QED BY <1>4, <2>3, StoreKeepsHistory DEF new, action
<1>5. ASSUME NEW a \in Alerts, alert[a].status \in OpenStatus,
             Store(a, Acknowledged(alert[a]), "acknowledged")
      PROVE  HistoryInv'
  <2> DEFINE new == Acknowledged(alert[a])
  <2>0. new.acked
    BY <1>2, AckedAfter, Zenon
  <2>1. /\ new \in Alert /\ new.revision = alert[a].revision + 1
        /\ new.status = "acknowledged"
    BY <1>2, RecordsTyped
  <2> HIDE DEF new
  <2>2. HistoryOK(new, Append(history[a], HistoryEntry(new, "acknowledged")))
    BY <1>2, <1>5, <2>0, <2>1, StatusOfTable, EntryAppended DEF Actions, OpenStatus
  <2> QED BY <1>5, <2>2, StoreKeepsHistory DEF new
<1>6. ASSUME NEW a \in Alerts, alert[a].status \in OpenStatus, NEW who \in Assignees,
             Store(a, AssignedTo(alert[a], who), "assigned")
      PROVE  HistoryInv'
  <2> DEFINE new == AssignedTo(alert[a], who)
  <2>0. new.acked = alert[a].acked
    BY <1>2, AckedAfter, Zenon
  <2>1. /\ new \in Alert /\ new.revision = alert[a].revision + 1
        /\ new.status = alert[a].status
    BY <1>2, RecordsTyped
  <2> HIDE DEF new
  <2>2. HistoryOK(new, Append(history[a], HistoryEntry(new, "assigned")))
    BY <1>2, <1>6, <2>0, <2>1, StatusOfTable, EntryAppended DEF Actions, OpenStatus
  <2> QED BY <1>6, <2>2, StoreKeepsHistory DEF new
<1>7. ASSUME NEW a \in Alerts, alert[a].status \in OpenStatus,
             Store(a, Resolved(alert[a]), "resolved")
      PROVE  HistoryInv'
  <2> DEFINE new == Resolved(alert[a])
  <2>0. new.acked = alert[a].acked
    BY <1>2, AckedAfter, Zenon
  <2>1. /\ new \in Alert /\ new.revision = alert[a].revision + 1
        /\ new.status = "resolved"
    BY <1>2, RecordsTyped
  <2> HIDE DEF new
  <2>2. HistoryOK(new, Append(history[a], HistoryEntry(new, "resolved")))
    BY <1>2, <1>7, <2>0, <2>1, StatusOfTable, EntryAppended DEF Actions, OpenStatus
  <2> QED BY <1>7, <2>2, StoreKeepsHistory DEF new
<1> QED
  BY <1>1, <1>3, <1>4, <1>5, <1>6, <1>7 DEF AlertStep

(* What the operators read in the history of an alert is what happened to   *)
(* it: one entry for each revision, and the alert's status and its          *)
(* acknowledgment are the ones the entries tell, however many evaluations   *)
(* and operators write at the same time.                                    *)
THEOREM HistoriesAgree == Spec => []HistoryAgrees
<1>1. Init => HistoryInv
  <2>1. AckTold(FALSE, <<>>) /\ Numbered(<<>>) /\ \A st : StatusTold(st, <<>>)
    BY DEF AckTold, Numbered, StatusTold
  <2>2. /\ AbsentAlert.acked = FALSE /\ AbsentAlert.revision = Len(<<>>)
        /\ LastOK(AbsentAlert.status, <<>>)
    BY DEF AbsentAlert, LastOK
  <2>3. HistoryOK(AbsentAlert, <<>>)
    BY <2>1, <2>2, Zenon DEF HistoryOK
  <2> QED BY <2>3 DEF Init, HistoryInv
<1>2. SignalsInv /\ HistoryInv /\ [Next]_vars => HistoryInv'
  BY EveryStep, HistoryKept
<1>3. HistoryInv => HistoryAgrees
  <2> DEFINE Entries(a) ==
                 \A i \in DOMAIN history[a] :
                     /\ history[a][i].revision = i
                     /\ history[a][i].action = "created" <=> i = 1
                     /\ i > 1 => (history[a][i].action = "reopened"
                                    <=> history[a][i - 1].action = "resolved")
                     /\ (/\ history[a][i].action \in DOMAIN StatusOf
                         /\ \A j \in DOMAIN history[a] :
                                j > i => history[a][j].action \notin DOMAIN StatusOf)
                        => alert[a].status = StatusOf[history[a][i].action]
  <2>1. ASSUME HistoryInv, NEW a \in Alerts
        PROVE  /\ Len(history[a]) = alert[a].revision /\ Numbered(history[a])
               /\ StatusTold(alert[a].status, history[a])
               /\ AckTold(alert[a].acked, history[a])
    BY <2>1 DEF HistoryInv, HistoryOK
  <2>2. ASSUME HistoryInv, NEW a \in Alerts PROVE Entries(a)
    BY <2>1, <2>2 DEF Numbered, StatusTold
  <2>3. ASSUME HistoryInv, NEW a \in Alerts
        PROVE  /\ Len(history[a]) = alert[a].revision
               /\ Entries(a)
               /\ AckTold(alert[a].acked, history[a])
    BY <2>1, <2>2, <2>3
  <2> QED BY <2>3, Zenon DEF HistoryAgrees, AckTold
<1> QED
  BY <1>1, <1>2, <1>3, Invariance, PTL DEF Spec

-----------------------------------------------------------------------------
(* The deliveries of an alert.                                             *)

(* The call in state s will still store the delivery d. *)
Pending(s, d) == s.id = d[1] /\ (s.step = "subscriptions" \/ d[2] \in s.subs)

(* The subscription of a delivery that is due matches its alert, so that it *)
(* is found when the subscriptions are listed.                              *)
OwedOK == \A d \in owed : subscription[d[2]] \in {d[1][1], AnyRule}

AnnounceInv ==
    /\ OwedOK
    /\ \A d \in owed :
           \/ d \in deliveries
           \/ d[1] \in cut
           \/ \E e \in Evaluators : Pending(call[e], d)

(* A step that leaves nothing new due and forgets no delivery. *)
LEMMA StillAnnounced ==
    ASSUME AnnounceInv, UNCHANGED <<owed, subscription>>,
           deliveries \subseteq deliveries', cut \subseteq cut',
           \A e \in Evaluators, d \in owed :
               Pending(call[e], d) =>
                   d \in deliveries' \/ d[1] \in cut' \/ Pending(call'[e], d)
    PROVE  AnnounceInv'
<1>1. OwedOK'
  BY DEF AnnounceInv, OwedOK
<1>2. ASSUME NEW d \in owed
      PROVE  \/ d \in deliveries'
             \/ d[1] \in cut'
             \/ \E e \in Evaluators : Pending(call'[e], d)
  BY DEF AnnounceInv
<1>3. \A d \in owed' :
          d \in deliveries' \/ d[1] \in cut' \/ \E e \in Evaluators : Pending(call'[e], d)
  BY <1>2
<1> QED
  BY <1>1, <1>3 DEF AnnounceInv, Pending

(* A step of one call. *)
LEMMA CallAnnounces ==
    ASSUME SignalsInv, AnnounceInv, UNCHANGED <<owed, subscription>>,
           deliveries \subseteq deliveries', cut \subseteq cut',
           NEW c \in Callers, NEW s, Goto(c, s),
           \A d \in owed : Pending(call[c], d) =>
               d \in deliveries' \/ d[1] \in cut' \/ Pending(s, d)
    PROVE  AnnounceInv'
<1>1. \A e \in Evaluators : e \in Callers /\ (e = c \/ call'[e] = call[e]) /\ call'[c] = s
  BY DEF Goto, Callers, SignalsInv, TypeOK
<1>2. ASSUME NEW e \in Evaluators, NEW d \in owed, Pending(call[e], d)
      PROVE  d \in deliveries' \/ d[1] \in cut' \/ Pending(call'[e], d)
  BY <1>1, <1>2
<1> QED
  BY <1>2, StillAnnounced

(* A step of a call that has nothing to announce. *)
LEMMA SilentStep ==
    ASSUME SignalsInv, AnnounceInv, UNCHANGED <<owed, subscription, deliveries, cut>>,
           NEW c \in Callers, NEW s, Goto(c, s),
           call[c].step # "subscriptions", call[c].subs = {}
    PROVE  AnnounceInv'
BY CallAnnounces DEF Pending

LEMMA AnnounceEvaluation ==
    ASSUME SignalsInv, AnnounceInv, NEW e \in Evaluators,
           \/ BeginEvaluation(e)
           \/ \E r \in Rules : ObserveCandidates(e, r)
           \/ ListActive(e)
           \/ ListAcknowledged(e)
           \/ \E a \in Alerts : GetCandidate(e, a)
           \/ RefreshAlert(e)
           \/ \E o \in call[e].open : ResolveAlert(e, o)
           \/ FinishRule(e)
           \/ FinishEvaluation(e)
    PROVE  AnnounceInv'
<1>1. e \in Callers /\ (call[e].step # "work" => call[e].subs = {})
  BY DEF SignalsInv, Callers, CallOK, PlaceOK
<1>2. CASE BeginEvaluation(e)
  <2>1. ASSUME NEW d \in Evaluators, NEW x \in owed, Pending(call[d], x)
        PROVE  Pending(call'[d], x)
    <3>1. call[d] \in Call /\ d \in Callers
      BY DEF SignalsInv, TypeOK, Callers
    <3>2. d # e
      BY <1>1, <1>2, <2>1 DEF BeginEvaluation, Pending
    <3>3. call'[d] = [call[d] EXCEPT !.alone = FALSE]
      BY <1>2, <3>1, <3>2 DEF BeginEvaluation
    <3>4. call'[d].id = call[d].id /\ call'[d].step = call[d].step
          /\ call'[d].subs = call[d].subs
      BY <3>1, <3>3 DEF Call
    <3> QED BY <2>1, <3>4 DEF Pending
  <2> QED BY <1>2, <2>1, StillAnnounced DEF BeginEvaluation
<1>3. CASE \/ \E r \in Rules : ObserveCandidates(e, r)
           \/ ListActive(e)
           \/ ListAcknowledged(e)
           \/ \E a \in Alerts : GetCandidate(e, a)
           \/ FinishRule(e)
           \/ FinishEvaluation(e)
  BY <1>1, <1>3, SilentStep
     DEF ObserveCandidates, ListActive, ListAcknowledged, GetCandidate, FinishRule,
         FinishEvaluation, RuleIsDone, Kept
<1>4. CASE RefreshAlert(e) \/ \E o \in call[e].open : ResolveAlert(e, o)
  BY <1>1, <1>4, SilentStep DEF RefreshAlert, ResolveAlert, Refuse, Kept
<1> QED
  BY <1>2, <1>3, <1>4

LEMMA AnnounceCreated ==
    ASSUME SignalsInv, AnnounceInv, NEW e \in Evaluators, CreateAlert(e)
    PROVE  AnnounceInv'
<1> DEFINE a == call[e].id
           s == [call[e] EXCEPT !.step = "subscriptions"]
<1>1. /\ e \in Callers /\ call[e] \in Call /\ call[e].step = "write" /\ call[e].subs = {}
      /\ UNCHANGED <<subscription, deliveries, cut>> /\ call \in [Callers -> Call]
  BY DEF CreateAlert, Kept, SignalsInv, TypeOK, Callers, CallOK, PlaceOK
<1>2. CASE Refuse(e) /\ UNCHANGED owed
  BY <1>1, <1>2, SilentStep DEF Refuse
<1>3. CASE Goto(e, s) /\ owed' = owed \cup ({a} \X Matching(a[1]))
  <2>1. s.id = a /\ s.step = "subscriptions" /\ call'[e] = s
    BY <1>1, <1>3 DEF Call, Goto
  <2>2. \A d \in Evaluators : d # e => call'[d] = call[d]
    BY <1>1, <1>3 DEF Goto, Callers
  <2> HIDE DEF s
  <2>3. ASSUME NEW d \in {a} \X Matching(a[1])
        PROVE  Pending(call'[e], d) /\ subscription[d[2]] \in {d[1][1], AnyRule}
    BY <2>1 DEF Pending, Matching
  <2>4. ASSUME NEW d \in owed
        PROVE  d \in deliveries \/ d[1] \in cut \/ \E f \in Evaluators : Pending(call'[f], d)
    <3>1. ~Pending(call[e], d)
      BY <1>1 DEF Pending
    <3> QED BY <2>2, <3>1 DEF AnnounceInv
  <2>5. \A d \in owed' :
            /\ d \in deliveries \/ d[1] \in cut \/ \E f \in Evaluators : Pending(call'[f], d)
            /\ subscription[d[2]] \in {d[1][1], AnyRule}
    BY <1>3, <2>3, <2>4 DEF AnnounceInv, OwedOK
  <2> QED BY <1>1, <2>5 DEF AnnounceInv, OwedOK, Pending
<1> QED
  BY <1>2, <1>3 DEF CreateAlert

LEMMA AnnounceDelivery ==
    ASSUME SignalsInv, AnnounceInv, NEW e \in Evaluators,
           \/ ListSubscriptions(e)
           \/ \E u \in Subscriptions : CreateDelivery(e, u)
    PROVE  AnnounceInv'
<1>1. e \in Callers /\ call[e] \in Call /\ PlaceOK(call[e])
  BY DEF SignalsInv, TypeOK, Callers, CallOK
<1>2. CASE ListSubscriptions(e)
  <2> DEFINE s == [call[e] EXCEPT !.step = "work", !.subs = Matching(call[e].rule)]
  <2>1. s.id = call[e].id /\ s.subs = Matching(call[e].rule)
    BY <1>1 DEF Call
  <2>2. call[e].step = "subscriptions" /\ Goto(e, s)
        /\ UNCHANGED <<owed, subscription, deliveries, cut>>
    BY <1>2 DEF ListSubscriptions, Kept
  <2> HIDE DEF s
  <2>3. ASSUME NEW d \in owed, Pending(call[e], d) PROVE Pending(s, d)
    <3>1. d[2] \in Subscriptions
      BY DEF SignalsInv, TypeOK
    <3>2. subscription[d[2]] \in {call[e].rule, AnyRule}
      BY <1>1, <2>2, <2>3 DEF Pending, PlaceOK, AnnounceInv, OwedOK
    <3> QED BY <2>1, <2>3, <3>1, <3>2 DEF Pending, Matching
  <2> QED BY <1>1, <2>2, <2>3, CallAnnounces
<1>3. ASSUME NEW u \in Subscriptions, CreateDelivery(e, u) PROVE AnnounceInv'
  <2> DEFINE s == [call[e] EXCEPT !.subs = @ \ {u}]
  <2>1. s.id = call[e].id /\ s.subs = call[e].subs \ {u} /\ s.step = call[e].step
    BY <1>1 DEF Call
  <2>2. UNCHANGED <<owed, subscription>> /\ call[e].step = "work"
    BY <1>3 DEF CreateDelivery, Kept
  <2> HIDE DEF s
  <2>3. CASE deliveries' = deliveries \cup {<<call[e].id, u>>} /\ Goto(e, s) /\ UNCHANGED cut
    <3>1. ASSUME NEW d \in owed, Pending(call[e], d)
          PROVE  d \in deliveries' \/ Pending(s, d)
      <4>1. d = <<d[1], d[2]>>
        BY DEF SignalsInv, TypeOK
      <4> QED BY <2>1, <2>3, <3>1, <4>1 DEF Pending
    <3> QED BY <1>1, <2>2, <2>3, <3>1, CallAnnounces
  <2>4. CASE cut' = cut \cup {call[e].id} /\ Goto(e, IdleCall) /\ UNCHANGED deliveries
    <3>1. ASSUME NEW d \in owed, Pending(call[e], d) PROVE d[1] \in cut'
      BY <2>4, <3>1 DEF Pending
    <3> QED BY <1>1, <2>2, <2>4, <3>1, CallAnnounces
  <2> QED BY <1>3, <2>3, <2>4 DEF CreateDelivery, s
<1> QED
  BY <1>2, <1>3

LEMMA AnnounceOthers ==
    ASSUME SignalsInv, AnnounceInv,
           \/ UNCHANGED vars
           \/ \E a \in Alerts : ConditionChanges(a)
           \/ \E r \in Rules, b \in BOOLEAN : CreateRule(r, b) \/ UpdateRule(r, b)
           \/ \E s \in Subscriptions :
                  \/ \E scope \in Rules \cup {AnyRule} : CreateSubscription(s, scope)
                  \/ DeleteSubscription(s)
    PROVE  AnnounceInv'
<1>1. /\ subscription \in [Subscriptions -> Scope]
      /\ deliveries \subseteq Alerts \X Subscriptions /\ owed \subseteq Alerts \X Subscriptions
      /\ UNCHANGED <<call, cut>>
  BY DEF SignalsInv, TypeOK, vars, ConditionChanges, CreateRule, UpdateRule,
         CreateSubscription, DeleteSubscription, Change
<1>2. CASE UNCHANGED <<owed, subscription, deliveries>>
  BY <1>1, <1>2, StillAnnounced
<1>3. ASSUME NEW s \in Subscriptions, NEW scope \in Rules \cup {AnyRule},
             CreateSubscription(s, scope)
      PROVE  AnnounceInv'
  <2>1. ASSUME NEW d \in owed PROVE d[2] # s /\ d[2] \in Subscriptions /\ d[1][1] \in Rules
    <3>1. d[1] \in Alerts /\ d[2] \in Subscriptions
      BY <1>1
    <3>2. d[1][1] \in Rules
      BY <3>1 DEF Alerts
    <3>3. subscription[d[2]] # "absent"
      BY <3>2, SignalsAssumption DEF AnnounceInv, OwedOK
    <3> QED BY <1>3, <3>1, <3>2, <3>3 DEF CreateSubscription
  <2>2. OwedOK'
    BY <1>1, <1>3, <2>1 DEF CreateSubscription, AnnounceInv, OwedOK
  <2> QED BY <1>1, <1>3, <2>2 DEF CreateSubscription, AnnounceInv, Pending
<1>4. ASSUME NEW s \in Subscriptions, DeleteSubscription(s) PROVE AnnounceInv'
  BY <1>1, <1>4 DEF DeleteSubscription, AnnounceInv, OwedOK, Pending
<1> QED
  BY <1>2, <1>3, <1>4 DEF vars, ConditionChanges, CreateRule, UpdateRule

LEMMA AnnounceOperators ==
    ASSUME SignalsInv, AnnounceInv,
           \/ \E o \in Operators, a \in Alerts :
                  \/ BeginAcknowledge(o, a)
                  \/ \E who \in Assignees : BeginAssign(o, a, who)
           \/ \E o \in Operators : Acknowledge(o) \/ Assign(o)
           \/ \E c \in Callers : Abort(c)
    PROVE  AnnounceInv'
<1>1. \A o \in Operators :
          o \in Callers /\ call[o].step # "subscriptions" /\ call[o].subs = {}
  BY DEF SignalsInv, Callers, CallOK, PlaceOK
<1>2. ASSUME NEW o \in Operators, NEW a \in Alerts,
             \/ BeginAcknowledge(o, a)
             \/ \E who \in Assignees : BeginAssign(o, a, who)
      PROVE  AnnounceInv'
  BY <1>1, <1>2, SilentStep DEF BeginAcknowledge, BeginAssign, Begin
<1>3. ASSUME NEW o \in Operators, Acknowledge(o) \/ Assign(o) PROVE AnnounceInv'
  BY <1>1, <1>3, SilentStep DEF Acknowledge, Assign, Write, Refuse, Kept
<1>4. ASSUME NEW c \in Callers, Abort(c) PROVE AnnounceInv'
  <2>1. Goto(c, IdleCall) /\ UNCHANGED <<owed, subscription, deliveries>>
        /\ cut \subseteq cut'
    BY <1>4 DEF Abort
  <2>2. ASSUME NEW d \in owed, Pending(call[c], d) PROVE d[1] \in cut'
    BY <1>4, <2>2 DEF Abort, Announcing, Pending
  <2> QED BY <2>1, <2>2, CallAnnounces
<1> QED
  BY <1>2, <1>3, <1>4

(* Every subscription that matched a new alert when it was created has its  *)
(* delivery, or gets it from the call that created the alert, unless that   *)
(* call ended in between or the subscription was deleted.                   *)
THEOREM AlertsAreAnnounced == Spec => []AnnouncedUnlessCut
<1>1. Init => AnnounceInv
  BY DEF Init, AnnounceInv, OwedOK
<1>2. ASSUME SignalsInv, AnnounceInv, [Next]_vars PROVE AnnounceInv'
  BY <1>2, AnnounceEvaluation, AnnounceCreated, AnnounceDelivery, AnnounceOthers,
     AnnounceOperators DEF Next
<1>3. AnnounceInv => AnnouncedUnlessCut
  BY DEF AnnounceInv, AnnouncedUnlessCut, Pending
<1> QED
  BY <1>1, <1>2, <1>3, Invariance, PTL DEF Spec
=============================================================================
