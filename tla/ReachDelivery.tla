--------------------------- MODULE ReachDelivery ---------------------------
(***************************************************************************)
(* Reach sends messages through external providers; Signals keeps the work *)
(* list of deliveries that Reach consumes.  The two persist independently. *)
(* This module models the message record and its delivery claim            *)
(* (repository/memory_reach.go), the delivery record of Signals            *)
(* (repository/memory_signals.go), and the calls that work on them: Send,  *)
(* Retry and ProcessSignals of reach/service.go with everything they call, *)
(* and the attempts that the REST interface of Signals records.            *)
(*                                                                         *)
(* A call is a sequence of steps, one per access to a store or a provider, *)
(* and calls interleave.  A call that ends early, because the process      *)
(* stops, a store or an audit sink fails or the request is cancelled, is   *)
(* the action Abort: everything stored so far stays.                       *)
(*                                                                         *)
(* Clocks are flags: whether a claim is older than DefaultClaimTTL (stale) *)
(* and whether a next attempt is still in the future (wait).  They change  *)
(* by actions of their own.                                                *)
(***************************************************************************)
EXTENDS Naturals, Sequences, FiniteSets

CONSTANTS
    Signals,          \* ids of Signals deliveries, in the order of their creation
    Manual,           \* ids of messages that an operator sends by hand
    Callers,          \* concurrent calls of Send, Retry, ProcessSignals and REST clients
    NoOne,            \* the absent claim
    MaximumAttempts,  \* eight in the code, for Reach and for Signals
    Routes,           \* the values a delivery's target may have: does it resolve?
    MaxEvents         \* bound on the events from outside

ASSUME ReachAssumption ==
    /\ Signals \subseteq Nat \ {0}
    /\ Manual \subseteq Nat \ {0}
    /\ Signals \cap Manual = {}
    /\ NoOne \notin Callers
    /\ MaximumAttempts \in Nat \ {0}
    /\ Routes \subseteq BOOLEAN /\ Routes # {}
    /\ MaxEvents \in Nat

Messages == Signals \cup Manual

VARIABLES
    message,   \* Reach: the stored message of each id
    log,       \* Reach: the outcomes of the stored attempts of each message
    delivery,  \* Signals: the delivery record of each id in Signals
    route,     \* does the target of a delivery resolve to a provider?
    call,      \* the private state of each call
    called,    \* history: the attempts whose provider call was made
    resent,    \* history: the attempts whose provider call was made twice
    marks,     \* history: what befell each message
    events     \* the events from outside so far

vars == <<message, log, delivery, route, call, called, resent, marks, events>>

-----------------------------------------------------------------------------
(* State.                                                                  *)

MessageStatus == {"absent", "queued", "retrying", "delivered", "failed"}

Message ==
    [status: MessageStatus, attempts: Nat, claim: Callers \cup {NoOne},
     stale: BOOLEAN, wait: BOOLEAN, routed: BOOLEAN]

AbsentMessage ==
    [status |-> "absent", attempts |-> 0, claim |-> NoOne,
     stale |-> FALSE, wait |-> FALSE, routed |-> FALSE]

NewMessage(routed) == [AbsentMessage EXCEPT !.status = "queued", !.routed = routed]

Delivery ==
    [status: {"absent", "pending", "delivered", "failed"}, attempts: Nat,
     wait: BOOLEAN]

Results == {"succeeded", "retryable", "permanent"}

(* The steps of a call name what it does next: read the next delivery of   *)
(* its batch, create its message, claim it, produce a result, record the   *)
(* result, read the delivery, update it; reject and rejected are the claim *)
(* and the record of an undeliverable one.                                 *)
Steps == {"idle", "next", "create", "claim", "result", "record", "report",
          "update", "reject", "rejected"}

(* status, attempts: the message as this call last read it.  Only a         *)
(* ProcessSignals call has a batch.                                         *)
Call ==
    [step: Steps, id: Messages \cup {0}, batch: SUBSET Signals,
     status: MessageStatus, attempts: Nat, recovering: BOOLEAN,
     result: Results, tries: Nat]

IdleCall ==
    [step |-> "idle", id |-> 0, batch |-> {}, status |-> "absent", attempts |-> 0,
     recovering |-> FALSE, result |-> "permanent", tries |-> 0]

(* What the promises make exceptions of.  "overran": its claim turned stale *)
(* under a call that was still at work.  "blind": a claim that had turned   *)
(* stale was taken over by a call that had read the message before.         *)
(* "adopted": ProcessSignals dispatched a terminal message that it was      *)
(* about to create.  "outside": a client of the REST interface recorded an  *)
(* attempt of its delivery.                                                 *)
Mark == {"overran", "blind", "adopted", "outside"}

Init ==
    /\ message = [m \in Messages |-> AbsentMessage]
    /\ log = [m \in Messages |-> <<>>]
    /\ delivery = [m \in Signals |->
                     [status |-> "pending", attempts |-> 0, wait |-> FALSE]]
    /\ route \in [Signals -> Routes]
    /\ call = [c \in Callers |-> IdleCall]
    /\ called = [m \in Messages |-> {}]
    /\ resent = [m \in Messages |-> {}]
    /\ marks = [m \in Messages |-> {}]
    /\ events = 0

-----------------------------------------------------------------------------
(* The message store.                                                      *)

(* Some claim is on the message and it is not older than DefaultClaimTTL.  *)
LiveClaim(msg) == msg.claim # NoOne /\ ~msg.stale

(* Mutant: no claim is recognised as abandoned.                            *)
NeverAbandoned(msg) == FALSE

(* A claim is on the message and it is older than DefaultClaimTTL.         *)
Abandoned(msg) == msg.claim # NoOne /\ msg.stale

(* Mutant: the claim of another call is not respected.                     *)
ClaimableAlways(msg, status, attempts) ==
    msg.status = status /\ msg.attempts = attempts

(* Mutant: the message may have changed since it was read.                 *)
ClaimableUnread(msg, status, attempts) == ~LiveClaim(msg)

Claimable(msg, status, attempts) ==
    /\ msg.status = status
    /\ msg.attempts = attempts
    /\ ~LiveClaim(msg)

ClaimMessage(c, m) ==
    message' = [message EXCEPT ![m].claim = c, ![m].stale = FALSE]

(* The attempts and the claim are those the call knows, and no attempt with  *)
(* the next number is stored.                                                *)
Recordable(c, m, attempts) ==
    /\ message[m].attempts = attempts
    /\ message[m].claim = c
    /\ attempts + 1 \notin DOMAIN log[m]

(* Mutant: the attempt is stored and not counted.                          *)
RecordUncounted(c, m, status) ==
    /\ message' = [message EXCEPT
                     ![m].status = status, ![m].claim = NoOne, ![m].stale = FALSE,
                     ![m].wait = (status = "retrying")]
    /\ log' = [log EXCEPT ![m] = Append(@, status)]

(* The compare-and-swap of RecordAttempt succeeds: message and attempt are *)
(* stored together and the claim is released.                              *)
RecordAttempt(c, m, status) ==
    /\ message' = [message EXCEPT
                     ![m].status = status, ![m].attempts = @ + 1,
                     ![m].claim = NoOne, ![m].stale = FALSE,
                     ![m].wait = (status = "retrying")]
    /\ log' = [log EXCEPT ![m] = Append(@, status)]

-----------------------------------------------------------------------------
(* Shared pieces of the service.                                           *)

(* The status that a result gives a message, after "attempts" attempts.    *)
StatusAfter(result, attempts) ==
    CASE result = "succeeded" -> "delivered"
      [] result = "retryable" /\ attempts < MaximumAttempts -> "retrying"
      [] OTHER -> "failed"

(* Mutant: whatever is not waiting for another attempt has succeeded.      *)
ResultUnlessRetrying(status) == IF status = "retrying" THEN "retryable" ELSE "succeeded"

ResultFromMessage(status) ==
    CASE status = "delivered" -> "succeeded"
      [] status = "retrying" -> "retryable"
      [] OTHER -> "permanent"

Go(c, step) == call' = [call EXCEPT ![c].step = step]

Return(c) == call' = [call EXCEPT ![c] = IdleCall]

(* Requests of operators and REST clients, calls that end early, targets    *)
(* that change and subscriptions that are deleted happen a bounded number   *)
(* of times.                                                                *)
Event == events < MaxEvents /\ events' = events + 1

Befell(m, mark) == marks' = [marks EXCEPT ![m] = @ \cup {mark}]

(* The private state of a call that starts to dispatch the message it read. *)
Dispatching(c, m, msg) ==
    [IdleCall EXCEPT !.step = "claim", !.id = m, !.batch = call[c].batch,
                     !.status = msg.status, !.attempts = msg.attempts,
                     !.recovering = Abandoned(msg)]

Reporting(c, m, status) ==
    [IdleCall EXCEPT !.step = "report", !.id = m, !.batch = call[c].batch,
                     !.result = ResultFromMessage(status)]

-----------------------------------------------------------------------------
(* Operators.                                                              *)

(* Send stores the message under the id derived from the idempotency key.  *)
(* A replay finds it and returns it, which changes nothing.                *)
Send(c, m) ==
    /\ call[c].step = "idle"
    /\ Event
    /\ message[m].status = "absent"
    /\ message' = [message EXCEPT ![m] = NewMessage(TRUE)]
    /\ call' = [call EXCEPT ![c] = Dispatching(c, m, NewMessage(TRUE))]
    /\ UNCHANGED <<log, delivery, route, called, resent, marks>>

(* Mutant: an operator may retry without limit.                            *)
RetryUnlimited(c, m) ==
    /\ call[c].step = "idle"
    /\ Event
    /\ message[m].status \notin {"absent", "delivered"}
    /\ ~LiveClaim(message[m])
    /\ call' = [call EXCEPT ![c] = Dispatching(c, m, message[m])]
    /\ UNCHANGED <<message, log, delivery, route, called, resent, marks>>

Retry(c, m) ==
    /\ call[c].step = "idle"
    /\ Event
    /\ message[m].status \notin {"absent", "delivered"}
    /\ message[m].attempts < MaximumAttempts
    /\ ~LiveClaim(message[m])
    /\ call' = [call EXCEPT ![c] = Dispatching(c, m, message[m])]
    /\ UNCHANGED <<message, log, delivery, route, called, resent, marks>>

-----------------------------------------------------------------------------
(* dispatch: claim the message, produce a result, record the attempt.      *)

Claim(c) ==
    LET m == call[c].id IN
    /\ call[c].step = "claim"
    /\ Claimable(message[m], call[c].status, call[c].attempts)
    /\ ClaimMessage(c, m)
    /\ Go(c, "result")
    /\ IF Abandoned(message[m]) /\ ~call[c].recovering THEN Befell(m, "blind")
                                                       ELSE UNCHANGED marks
    /\ UNCHANGED <<log, delivery, route, called, resent, events>>

ClaimConflict(c) ==
    /\ call[c].step = "claim"
    /\ ~Claimable(message[call[c].id], call[c].status, call[c].attempts)
    /\ Return(c)
    /\ UNCHANGED <<message, log, delivery, route, called, resent, marks, events>>

(* A message of an unresolved target names no stored provider: dispatch     *)
(* returns the lookup error and leaves its claim on the message.            *)
ProviderMissing(c) ==
    /\ call[c].step = "result"
    /\ ~message[call[c].id].routed
    /\ Return(c)
    /\ UNCHANGED <<message, log, delivery, route, called, resent, marks, events>>

(* Mutant: the abandoned claim is taken for a delivery.                    *)
LocalResultHopeful(c, result) ==
    /\ call[c].step = "result"
    /\ message[call[c].id].routed
    /\ result \in IF call[c].recovering THEN {"succeeded"} ELSE {"permanent", "retryable"}
    /\ call' = [call EXCEPT ![c].step = "record", ![c].result = result]
    /\ UNCHANGED <<message, log, delivery, route, called, resent, marks, events>>

(* A result that needs no external call: the unknown outcome of an         *)
(* abandoned claim, a disabled provider, a missing endpoint, an invalid    *)
(* recipient, or, retryable, a secret that cannot be resolved.             *)
LocalResult(c, result) ==
    /\ call[c].step = "result"
    /\ message[call[c].id].routed
    /\ result \in IF call[c].recovering THEN {"permanent"} ELSE {"permanent", "retryable"}
    /\ call' = [call EXCEPT ![c].step = "record", ![c].result = result]
    /\ UNCHANGED <<message, log, delivery, route, called, resent, marks, events>>

(* The external call.  Its attempt is named by the attempts already stored. *)
CallProvider(c, result) ==
    LET m == call[c].id IN
    /\ call[c].step = "result"
    /\ message[m].routed
    /\ ~call[c].recovering
    /\ called' = [called EXCEPT ![m] = @ \cup {call[c].attempts}]
    /\ resent' = [resent EXCEPT ![m] = @ \cup (called[m] \cap {call[c].attempts})]
    /\ call' = [call EXCEPT ![c].step = "record", ![c].result = result]
    /\ UNCHANGED <<message, log, delivery, route, marks, events>>

(* The attempt is stored.  ProcessSignals goes on to report it, Send and    *)
(* Retry return.                                                            *)
Record(c) ==
    LET m == call[c].id
        status == StatusAfter(call[c].result, call[c].attempts + 1) IN
    /\ call[c].step = "record"
    /\ Recordable(c, m, call[c].attempts)
    /\ RecordAttempt(c, m, status)
    /\ call' = [call EXCEPT ![c] = IF call[c].batch # {} THEN Reporting(c, m, status)
                                                          ELSE IdleCall]
    /\ UNCHANGED <<delivery, route, called, resent, marks, events>>

RecordConflict(c) ==
    /\ call[c].step = "record"
    /\ ~Recordable(c, call[c].id, call[c].attempts)
    /\ Return(c)
    /\ UNCHANGED <<message, log, delivery, route, called, resent, marks, events>>

-----------------------------------------------------------------------------
(* ProcessSignals: list the due deliveries once, then take them in order.  *)

Pending == {m \in Signals : delivery[m].status = "pending"}

ProcessSignals(c) ==
    LET due == {m \in Pending : ~delivery[m].wait} IN
    /\ call[c].step = "idle"
    /\ due # {}
    /\ call' = [call EXCEPT ![c].step = "next", ![c].batch = due]
    /\ UNCHANGED <<message, log, delivery, route, called, resent, marks, events>>

FirstOf(batch, m) == m \in batch /\ \A n \in batch : m <= n

(* The message does not exist yet.                                         *)
FindMissing(c, m) ==
    /\ call[c].step = "next" /\ FirstOf(call[c].batch, m)
    /\ message[m].status = "absent"
    /\ call' = [call EXCEPT ![c].step = "create", ![c].id = m]
    /\ UNCHANGED <<message, log, delivery, route, called, resent, marks, events>>

(* Mutant: a message that nobody dispatched yet counts as settled.         *)
SettledUnlessRetrying(msg) == msg.status # "retrying" \/ msg.wait

(* A terminal message, or one whose next attempt is not due: its outcome is *)
(* reported again.                                                          *)
Settled(msg) == msg.status \in {"delivered", "failed"} \/ msg.wait

ReportExisting(c, m) ==
    /\ call[c].step = "next" /\ FirstOf(call[c].batch, m)
    /\ message[m].status # "absent"
    /\ Settled(message[m])
    /\ call' = [call EXCEPT ![c] = Reporting(c, m, message[m].status)]
    /\ UNCHANGED <<message, log, delivery, route, called, resent, marks, events>>

Redispatch(c, m) ==
    /\ call[c].step = "next" /\ FirstOf(call[c].batch, m)
    /\ message[m].status # "absent"
    /\ ~Settled(message[m])
    /\ call' = [call EXCEPT ![c] = Dispatching(c, m, message[m])]
    /\ UNCHANGED <<message, log, delivery, route, called, resent, marks, events>>

(* CreateMessage for a target that resolves.  A message that another call  *)
(* stored in the meantime is returned and dispatched as it is.             *)
CreateRouted(c) ==
    LET m == call[c].id
        stored == IF message[m].status = "absent" THEN NewMessage(TRUE) ELSE message[m] IN
    /\ call[c].step = "create"
    /\ route[m]
    /\ stored.routed
    /\ message' = [message EXCEPT ![m] = stored]
    /\ call' = [call EXCEPT ![c] = Dispatching(c, m, stored)]
    /\ IF stored.status \in {"delivered", "failed"} THEN Befell(m, "adopted")
                                                   ELSE UNCHANGED marks
    /\ UNCHANGED <<log, delivery, route, called, resent, events>>

(* recordUndeliverableSignal stores a message without a provider ...       *)
CreateUnrouted(c) ==
    LET m == call[c].id IN
    /\ call[c].step = "create"
    /\ ~route[m]
    /\ message[m].status = "absent"
    /\ message' = [message EXCEPT ![m] = NewMessage(FALSE)]
    /\ Go(c, "reject")
    /\ UNCHANGED <<log, delivery, route, called, resent, marks, events>>

(* ... or reports the one it finds ...                                     *)
FindUnrouted(c) ==
    LET m == call[c].id IN
    /\ call[c].step = "create"
    /\ ~route[m]
    /\ message[m].status # "absent" /\ ~message[m].routed
    /\ call' = [call EXCEPT ![c] = Reporting(c, m, message[m].status)]
    /\ UNCHANGED <<message, log, delivery, route, called, resent, marks, events>>

(* ... and a stored message with another target is a conflict.             *)
CreateConflict(c) ==
    LET m == call[c].id IN
    /\ call[c].step = "create"
    /\ message[m].status # "absent"
    /\ message[m].routed # route[m]
    /\ Return(c)
    /\ UNCHANGED <<message, log, delivery, route, called, resent, marks, events>>

ClaimUndeliverable(c) ==
    LET m == call[c].id IN
    /\ call[c].step = "reject"
    /\ IF Claimable(message[m], "queued", 0)
       THEN ClaimMessage(c, m) /\ Go(c, "rejected")
       ELSE UNCHANGED message /\ Return(c)
    /\ UNCHANGED <<log, delivery, route, called, resent, marks, events>>

RecordUndeliverable(c) ==
    LET m == call[c].id IN
    /\ call[c].step = "rejected"
    /\ IF Recordable(c, m, 0)
       THEN /\ RecordAttempt(c, m, "failed")
            /\ call' = [call EXCEPT ![c] = Reporting(c, m, "failed")]
       ELSE UNCHANGED <<message, log>> /\ Return(c)
    /\ UNCHANGED <<delivery, route, called, resent, marks, events>>

-----------------------------------------------------------------------------
(* RecordDeliveryAttempt of Signals: read the pending delivery, then store *)
(* it with one more attempt if its attempts have not changed.  Besides     *)
(* ProcessSignals, POST /signals/deliveries/{deliveryID}/attempts calls it *)
(* with whatever result its client sends.                                  *)

RecordSignalDeliveryAttempt(c, m, result) ==
    /\ call[c].step = "idle"
    /\ Event
    /\ call' = [call EXCEPT ![c] = [IdleCall EXCEPT !.step = "report", !.id = m,
                                                    !.result = result]]
    /\ UNCHANGED <<message, log, delivery, route, called, resent, marks>>

ReadDelivery(c) ==
    LET m == call[c].id IN
    /\ call[c].step = "report"
    /\ IF m \in Pending
       THEN call' = [call EXCEPT ![c].step = "update", ![c].tries = delivery[m].attempts]
       ELSE Return(c)
    /\ UNCHANGED <<message, log, delivery, route, called, resent, marks, events>>

DeliveryAfter(result, tries) ==
    CASE result = "succeeded" -> "delivered"
      [] result = "retryable" /\ tries < MaximumAttempts -> "pending"
      [] OTHER -> "failed"

(* The call goes on with the rest of its batch; after the last one it ends. *)
Continue(c, rest) ==
    call' = [call EXCEPT ![c] = IF rest = {} THEN IdleCall
                                ELSE [IdleCall EXCEPT !.step = "next", !.batch = rest]]

UpdateDelivery(c) ==
    LET m == call[c].id
        status == DeliveryAfter(call[c].result, call[c].tries + 1) IN
    /\ call[c].step = "update"
    /\ delivery[m].status # "absent"
    /\ delivery[m].attempts = call[c].tries
    /\ delivery' = [delivery EXCEPT
                      ![m] = [status |-> status, attempts |-> call[c].tries + 1,
                              wait |-> (status = "pending")]]
    /\ Continue(c, call[c].batch \ {m})
    /\ IF call[c].batch = {} THEN Befell(m, "outside") ELSE UNCHANGED marks
    /\ UNCHANGED <<message, log, route, called, resent, events>>

UpdateConflict(c) ==
    LET m == call[c].id IN
    /\ call[c].step = "update"
    /\ delivery[m].status = "absent" \/ delivery[m].attempts # call[c].tries
    /\ Return(c)
    /\ UNCHANGED <<message, log, delivery, route, called, resent, marks, events>>

-----------------------------------------------------------------------------
(* The environment.                                                        *)

(* A call that works under its claim on message m.                         *)
Sending(c, m) ==
    /\ message[m].claim = c
    /\ call[c].id = m
    /\ call[c].step \in {"result", "record", "rejected"}

(* Two minutes have passed since the claim; its claimant may still be at   *)
(* work.                                                                   *)
ClaimExpires(m) ==
    /\ LiveClaim(message[m])
    /\ message' = [message EXCEPT ![m].stale = TRUE]
    /\ IF \E c \in Callers : Sending(c, m) THEN Befell(m, "overran") ELSE UNCHANGED marks
    /\ UNCHANGED <<log, delivery, route, call, called, resent, events>>

MessageDue(m) ==
    /\ message[m].wait
    /\ message' = [message EXCEPT ![m].wait = FALSE]
    /\ UNCHANGED <<log, delivery, route, call, called, resent, marks, events>>

(* Either time may come first: the two clocks are not related.             *)
DeliveryDue(m) ==
    /\ delivery[m].wait
    /\ delivery' = [delivery EXCEPT ![m].wait = FALSE]
    /\ UNCHANGED <<message, log, route, call, called, resent, marks, events>>

(* Deleting a subscription deletes its deliveries.                         *)
DeleteSubscription(m) ==
    /\ Event
    /\ delivery[m].status # "absent"
    /\ delivery' = [delivery EXCEPT ![m] = [status |-> "absent", attempts |-> 0,
                                            wait |-> FALSE]]
    /\ UNCHANGED <<message, log, route, call, called, resent, marks>>

(* Groups, providers and templates change.                                 *)
ChangeRoute(m) ==
    /\ Event
    /\ \E r \in Routes \ {route[m]} : route' = [route EXCEPT ![m] = r]
    /\ UNCHANGED <<message, log, delivery, call, called, resent, marks>>

Abort(c) ==
    /\ call[c].step # "idle"
    /\ Event
    /\ Return(c)
    /\ UNCHANGED <<message, log, delivery, route, called, resent, marks>>

-----------------------------------------------------------------------------
Dispatch(c) ==
    \/ Claim(c)
    \/ ClaimConflict(c)
    \/ ProviderMissing(c)
    \/ \E r \in Results : LocalResult(c, r) \/ CallProvider(c, r)
    \/ Record(c)
    \/ RecordConflict(c)

RecordDeliveryAttempt(c) == ReadDelivery(c) \/ UpdateDelivery(c) \/ UpdateConflict(c)

Operate(c) ==
    \/ \E m \in Messages : (m \in Manual /\ Send(c, m)) \/ Retry(c, m)
    \/ \E m \in Signals, r \in Results : RecordSignalDeliveryAttempt(c, m, r)

Process(c) ==
    \/ ProcessSignals(c)
    \/ \E m \in Signals : FindMissing(c, m) \/ ReportExisting(c, m) \/ Redispatch(c, m)
    \/ CreateRouted(c)
    \/ CreateUnrouted(c)
    \/ FindUnrouted(c)
    \/ CreateConflict(c)
    \/ ClaimUndeliverable(c)
    \/ RecordUndeliverable(c)

Environment ==
    \/ \E m \in Messages : ClaimExpires(m)
    \/ \E m \in Signals :
          MessageDue(m) \/ DeliveryDue(m) \/ DeleteSubscription(m) \/ ChangeRoute(m)
    \/ \E c \in Callers : Abort(c)

Next ==
    \/ \E c \in Callers :
          Operate(c) \/ Process(c) \/ Dispatch(c) \/ RecordDeliveryAttempt(c)
    \/ Environment

Spec == Init /\ [][Next]_vars

(* A scheduler keeps calling ProcessSignals, a call that has begun goes on, *)
(* and clocks move on; strongly so for a claim, whose age does not depend   *)
(* on the calls that run into it and return.                                *)
Fairness ==
    /\ \A c \in Callers : WF_vars(Process(c) \/ Dispatch(c) \/ RecordDeliveryAttempt(c))
    /\ \A m \in Messages : SF_vars(ClaimExpires(m))
    /\ \A m \in Signals : WF_vars(MessageDue(m)) /\ WF_vars(DeliveryDue(m))

FairSpec == Spec /\ Fairness

-----------------------------------------------------------------------------
(* Properties.                                                             *)

(* Every variable has its type.                                            *)
TypeOK ==
    /\ message \in [Messages -> Message]
    /\ log \in [Messages -> Seq({"retrying", "delivered", "failed"})]
    /\ delivery \in [Signals -> Delivery]
    /\ route \in [Signals -> BOOLEAN]
    /\ call \in [Callers -> Call]
    /\ called \in [Messages -> SUBSET Nat]
    /\ resent \in [Messages -> SUBSET Nat]
    /\ marks \in [Messages -> SUBSET Mark]
    /\ events \in 0..MaxEvents

(* No attempt makes its external call twice: a takeover of an abandoned     *)
(* claim records the unknown outcome, it does not send again (dispatch).    *)
(* The decision is taken from the message as it was read, so a call that    *)
(* read it before the claim turned stale sends again; no other call does.   *)
OneCallPerAttempt == \A m \in Messages : "blind" \notin marks[m] => resent[m] = {}

(* A call that is about to send, or to record what it sent, still holds the *)
(* claim on the message, so nobody else is sending it (ClaimMessage), until *)
(* the claim turns stale under a call that is still at work.                *)
CallsUnderClaim ==
    \A c \in Callers :
        LET m == call[c].id
        IN  call[c].step \in {"result", "record"} /\ "overran" \notin marks[m] =>
              message[m].claim = c /\ ~message[m].stale

(* A delivered message stays as it is: no retry, takeover or late result    *)
(* reopens it (Retry, ClaimMessage, RecordAttempt), whatever the claims do. *)
(* Only a ProcessSignals call that found no message and whose CreateMessage *)
(* then returned a terminal one dispatches it again.                        *)
DeliveredIsFinal ==
    [][\A m \in Messages : message[m].status = "delivered" /\ "adopted" \notin marks[m] =>
          message'[m] = message[m] /\ log'[m] = log[m]]_vars

(* A message is marked delivered only for an attempt whose provider call    *)
(* was made (dispatch).                                                     *)
DeliveredWasCalled ==
    \A m \in Messages : message[m].status = "delivered" =>
        message[m].attempts > 0 /\ message[m].attempts - 1 \in called[m]

(* The stored attempts are exactly the attempts the message counts, and the *)
(* last of them gave the message its status (RecordAttempt).                *)
LogAgrees ==
    \A m \in Messages :
        /\ Len(log[m]) = message[m].attempts
        /\ log[m] # <<>> => log[m][Len(log[m])] = message[m].status
        /\ log[m] = <<>> => message[m].status \in {"absent", "queued"}

(* No message counts more attempts than the limit allows (Retry, dispatch), *)
(* with the exception of DeliveredIsFinal.                                  *)
AttemptsBounded ==
    \A m \in Messages : "adopted" \notin marks[m] => message[m].attempts <= MaximumAttempts

(* The stored attempts of a message include one with this outcome.          *)
Ended(m, outcome) == \E i \in DOMAIN log[m] : log[m][i] = outcome

(* When Signals says delivered, Reach has delivered or a REST client has    *)
(* said so (RecordDeliveryAttempt), however reports overtake each other.    *)
SignalsDelivered ==
    \A m \in Signals : delivery[m].status = "delivered" =>
        Ended(m, "delivered") \/ "outside" \in marks[m]

(* Signals gives a delivery up before its attempts are used up only after   *)
(* Reach has recorded a terminal failure: as long as Reach counts on        *)
(* another attempt, so does Signals.  A target that does not resolve, and a *)
(* REST client, give up without one.                                        *)
GivenUpAfterFailure ==
    \A m \in Signals :
        /\ delivery[m].status = "failed" /\ delivery[m].attempts < MaximumAttempts
        /\ "outside" \notin marks[m] /\ message[m].routed
        => Ended(m, "failed")

(* Every pending delivery ends: as delivered, as failed, or deleted with    *)
(* its subscription (ProcessSignals).                                       *)
DeliveriesEnd == \A m \in Signals : m \in Pending ~> m \notin Pending
=============================================================================
