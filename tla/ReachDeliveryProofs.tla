------------------------- MODULE ReachDeliveryProofs -------------------------
(***************************************************************************)
(* Proofs about the delivery of messages, for any messages, deliveries,    *)
(* concurrent calls, limits and failures.  ReachInv is the inductive       *)
(* invariant: what the state of a call, a message and a delivery owe to    *)
(* each other, less what the marks of the message excuse.                  *)
(***************************************************************************)
EXTENDS ReachDelivery, TLAPS

USE ReachAssumption

Outcomes == {"retrying", "delivered", "failed"}

(* One of the stored attempts has this outcome. *)
Has(outcomes, o) == \E i \in DOMAIN outcomes : outcomes[i] = o

(* A stored message whose target did not resolve. *)
Unrouted(msg) == msg.status # "absent" /\ ~msg.routed

(* A call that has claimed its message, and one that is about to send it. *)
AtWork(s) == s.step \in {"result", "record", "rejected"}

Sends(s) == s.step = "result" /\ ~s.recovering

(* What the fields of a call say at each of its steps. *)
CallShape(s, made) ==
    /\ s.step = "idle" => s = IdleCall
    /\ s.step \notin {"idle", "next"} => s.id \in Messages
    /\ s.step = "update" => s.id \in Signals
    /\ s.step = "claim" => s.status # "absent"
    /\ s.step = "record" /\ s.result = "succeeded" => s.attempts \in made[s.id]
    /\ s.step \in {"next", "create", "reject", "rejected"} => s.attempts = 0

(* A call knows no attempt from the future; until the attempt it works on   *)
(* is stored there is a claim, and it is the call's own and live unless it  *)
(* turned stale under it.                                                   *)
CallClaim(c, s, msgs, mk) ==
    /\ s.step = "claim" \/ AtWork(s) => s.attempts <= msgs[s.id].attempts
    /\ AtWork(s) /\ s.attempts = msgs[s.id].attempts => msgs[s.id].claim # NoOne
    /\ AtWork(s) /\ "overran" \notin mk[s.id] => msgs[s.id].claim = c /\ ~msgs[s.id].stale

(* A call that is about to send is the first to do so for its attempt. *)
CallSend(s, made, mk) ==
    Sends(s) /\ "blind" \notin mk[s.id] => s.attempts \notin made[s.id]

(* A call that dispatches has an attempt left and read no delivered message. *)
CallLimit(s, mk) ==
    "adopted" \notin mk[s.id] =>
        /\ s.step \in {"claim", "result", "record"} => s.attempts < MaximumAttempts
        /\ s.step = "claim" => s.status # "delivered"

(* What ProcessSignals reports to Signals, Reach has stored. *)
CallReport(s, msgs, logs) ==
    s.step \in {"report", "update"} /\ s.batch # {} =>
        /\ s.result = "succeeded" => Has(logs[s.id], "delivered")
        /\ s.result = "permanent" => Has(logs[s.id], "failed") \/ Unrouted(msgs[s.id])

CallOK(c, s, msgs, logs, made, mk) ==
    /\ CallShape(s, made)
    /\ CallClaim(c, s, msgs, mk)
    /\ CallSend(s, made, mk)
    /\ CallLimit(s, mk)
    /\ CallReport(s, msgs, logs)

(* A message agrees with its stored attempts, and counts at least the       *)
(* attempts that were made.                                                 *)
MessageBase(msg, outcomes, made) ==
    /\ Len(outcomes) = msg.attempts
    /\ outcomes # <<>> => outcomes[Len(outcomes)] = msg.status
    /\ outcomes = <<>> => msg.status \in {"absent", "queued"}
    /\ msg.status = "delivered" => msg.attempts > 0 /\ msg.attempts - 1 \in made
    /\ \A n \in made : n <= msg.attempts
    /\ msg.status = "absent" => msg.claim = NoOne
    /\ msg.wait => msg.status = "retrying"

(* A provider call that was made for the current attempt is covered by a    *)
(* claim, and none was made twice.                                          *)
MessageSent(msg, made, twice, mk) ==
    "blind" \notin mk => twice = {} /\ (msg.attempts \in made => msg.claim # NoOne)

MessageLimit(msg, mk) ==
    "adopted" \notin mk =>
        /\ msg.attempts <= MaximumAttempts
        /\ msg.status = "retrying" => msg.attempts < MaximumAttempts
        /\ msg.status = "delivered" => msg.claim = NoOne

MessageOK(msg, outcomes, made, twice, mk) ==
    /\ MessageBase(msg, outcomes, made)
    /\ MessageSent(msg, made, twice, mk)
    /\ MessageLimit(msg, mk)

(* What Signals says of a delivery, Reach has stored. *)
DeliveryOK(del, msg, outcomes, mk) ==
    "outside" \notin mk =>
        /\ del.status = "delivered" => Has(outcomes, "delivered")
        /\ del.status = "failed" /\ del.attempts < MaximumAttempts =>
              Has(outcomes, "failed") \/ Unrouted(msg)

(* No two calls are about to send the same attempt. *)
Alone ==
    \A c, d \in Callers :
        /\ c # d /\ Sends(call[c]) /\ Sends(call[d])
        /\ call[c].id = call[d].id /\ "blind" \notin marks[call[c].id]
        => call[c].attempts # call[d].attempts

ReachInv ==
    /\ TypeOK
    /\ \A c \in Callers : CallOK(c, call[c], message, log, called, marks)
    /\ \A m \in Messages : MessageOK(message[m], log[m], called[m], resent[m], marks[m])
    /\ \A m \in Signals : DeliveryOK(delivery[m], message[m], log[m], marks[m])
    /\ Alone

-----------------------------------------------------------------------------
(* The constants and the small operators.                                  *)

LEMMA ConstantsTyped ==
    /\ AbsentMessage \in Message
    /\ \A b \in BOOLEAN : /\ NewMessage(b) \in Message /\ NewMessage(b).status = "queued"
                          /\ NewMessage(b).attempts = 0 /\ NewMessage(b).claim = NoOne
                          /\ NewMessage(b).wait = FALSE /\ NewMessage(b).routed = b
    /\ IdleCall \in Call /\ IdleCall.step = "idle" /\ IdleCall.batch = {}
    /\ IdleCall.attempts = 0 /\ IdleCall.id = 0
<1>1. AbsentMessage \in Message
  BY DEF AbsentMessage, Message, MessageStatus
<1>2. \A b \in BOOLEAN : NewMessage(b) \in Message
  BY <1>1 DEF NewMessage, AbsentMessage, Message, MessageStatus
<1>3. \A b \in BOOLEAN : /\ NewMessage(b).status = "queued"
                         /\ NewMessage(b).attempts = 0 /\ NewMessage(b).claim = NoOne
                         /\ NewMessage(b).wait = FALSE /\ NewMessage(b).routed = b
  BY DEF NewMessage, AbsentMessage
<1>4. IdleCall \in Call
  BY DEF IdleCall, Call, Steps, MessageStatus, Results, Messages
<1> QED BY <1>1, <1>2, <1>3, <1>4 DEF IdleCall

(* A call that starts to dispatch a stored message. *)
LEMMA DispatchingIs ==
    ASSUME TypeOK, NEW c \in Callers, NEW m \in Messages, NEW msg \in Message
    PROVE  /\ Dispatching(c, m, msg) \in Call
           /\ Dispatching(c, m, msg).step = "claim" /\ Dispatching(c, m, msg).id = m
           /\ Dispatching(c, m, msg).status = msg.status
           /\ Dispatching(c, m, msg).attempts = msg.attempts
<1>1. call[c].batch \in SUBSET Signals /\ Abandoned(msg) \in BOOLEAN
  BY DEF TypeOK, Call, Abandoned
<1>2. Dispatching(c, m, msg) \in Call
  BY <1>1, ConstantsTyped DEF Dispatching, Call, Message, Steps, IdleCall, MessageStatus, Results
<1> QED BY <1>2 DEF Dispatching, IdleCall

(* One that starts to report. *)
LEMMA ReportingIs ==
    ASSUME TypeOK, NEW c \in Callers, NEW m \in Messages, NEW status
    PROVE  /\ Reporting(c, m, status) \in Call
           /\ Reporting(c, m, status).step = "report" /\ Reporting(c, m, status).id = m
           /\ Reporting(c, m, status).result = ResultFromMessage(status)
<1>1. call[c].batch \in SUBSET Signals /\ ResultFromMessage(status) \in Results
  BY DEF TypeOK, Call, ResultFromMessage, Results
<1>2. Reporting(c, m, status) \in Call
  BY <1>1, ConstantsTyped DEF Reporting, Call, Steps, IdleCall, MessageStatus, Results
<1> QED BY <1>2 DEF Reporting, IdleCall

LEMMA ResultIs ==
    ASSUME NEW status
    PROVE  /\ ResultFromMessage(status) = "succeeded" => status = "delivered"
           /\ ResultFromMessage(status) = "permanent" => status \notin {"delivered", "retrying"}
BY DEF ResultFromMessage

(* A message and its stored attempts. *)
LEMMA StoredIs ==
    ASSUME ReachInv, NEW m \in Messages
    PROVE  /\ message[m] \in Message /\ message[m].attempts \in Nat
           /\ log[m] \in Seq(Outcomes) /\ Len(log[m]) \in Nat /\ Len(log[m]) = message[m].attempts
           /\ message[m].status \in {"absent", "queued"} => message[m].attempts = 0
           /\ message[m].status \in Outcomes => Has(log[m], message[m].status)
<1>1. /\ MessageBase(message[m], log[m], called[m])
      /\ message[m] \in Message /\ message[m].attempts \in Nat
      /\ log[m] \in Seq(Outcomes) /\ Len(log[m]) \in Nat
  BY DEF ReachInv, MessageOK, TypeOK, Message, Outcomes
<1>2. log[m] # <<>> => /\ Len(log[m]) \in DOMAIN log[m]
                       /\ log[m][Len(log[m])] \in Outcomes
  BY <1>1
<1>3. message[m].status \in {"absent", "queued"} => message[m].attempts = 0
  BY <1>1, <1>2 DEF MessageBase, Outcomes
<1>4. message[m].status \in Outcomes => Has(log[m], message[m].status)
  BY <1>1, <1>2 DEF MessageBase, Has, Outcomes
<1> QED BY <1>1, <1>3, <1>4 DEF MessageBase

(* Marks only accumulate. *)
LEMMA BefellGrows ==
    ASSUME TypeOK, NEW m \in Messages, NEW mark \in Mark, Befell(m, mark) \/ UNCHANGED marks
    PROVE  /\ marks' \in [Messages -> SUBSET Mark]
           /\ \A n \in Messages : marks[n] \subseteq marks'[n]
           /\ Befell(m, mark) => mark \in marks'[m]
<1>1. marks \in [Messages -> SUBSET Mark]
  BY DEF TypeOK
<1>2. CASE UNCHANGED marks
  <2>1. Befell(m, mark) => mark \in marks'[m]
    BY <1>1 DEF Befell
  <2> QED BY <1>1, <1>2, <2>1
<1>3. CASE Befell(m, mark)
  <2>1. marks' = [marks EXCEPT ![m] = marks[m] \cup {mark}]
    BY <1>3 DEF Befell
  <2>2. marks[m] \cup {mark} \in SUBSET Mark
    BY <1>1
  <2> QED BY <1>1, <2>1, <2>2
<1> QED BY <1>2, <1>3

-----------------------------------------------------------------------------
(* What a step leaves alone.                                               *)

(* How a message, its attempts, its provider calls and its marks develop. *)
Grown(n) ==
    /\ message[n].attempts <= message'[n].attempts
    /\ message[n].attempts = message'[n].attempts /\ message[n].claim # NoOne =>
           message'[n].claim # NoOne
    /\ \A o : Has(log[n], o) => Has(log'[n], o)
    /\ Unrouted(message[n]) => Unrouted(message'[n])
    /\ called[n] \subseteq called'[n]
    /\ marks[n] \subseteq marks'[n]

(* The live claim of call d is not touched, nor is its attempt sent. *)
Undisturbed(d) ==
    /\ LET m == call[d].id
       IN  AtWork(call[d]) /\ "overran" \notin marks'[m]
                /\ message[m].claim = d /\ ~message[m].stale =>
             message'[m].claim = d /\ ~message'[m].stale
    /\ CallSend(call[d], called', marks')

LEMMA CallKept ==
    ASSUME ReachInv, TypeOK', NEW d \in Callers, \A n \in Messages : Grown(n), Undisturbed(d)
    PROVE  CallOK(d, call[d], message', log', called', marks')
<1> DEFINE s == call[d]
<1>1. s \in Call /\ CallOK(d, s, message, log, called, marks)
  BY DEF ReachInv, TypeOK
<1>2. CASE s.step \in {"idle", "next"}
  BY <1>1, <1>2 DEF CallOK, CallShape, CallClaim, CallSend, CallLimit, CallReport, AtWork, Sends
<1>3. CASE s.step \notin {"idle", "next"}
  <2>1. s.id \in Messages /\ Grown(s.id)
    BY <1>1, <1>3 DEF CallOK, CallShape
  <2>2. /\ s.attempts \in Nat /\ message[s.id].attempts \in Nat /\ message'[s.id].attempts \in Nat
    BY <1>1, <2>1 DEF TypeOK, Call, Message, ReachInv
  <2> HIDE DEF s
  <2>3. CallShape(s, called')
    BY <1>1, <2>1 DEF CallOK, CallShape, Grown
  <2>4. CallClaim(d, s, message', marks')
    <3>1. s.attempts <= message[s.id].attempts =>
             /\ s.attempts <= message'[s.id].attempts
             /\ s.attempts = message'[s.id].attempts =>
                  s.attempts = message[s.id].attempts
                  /\ message[s.id].attempts = message'[s.id].attempts
      BY <2>1, <2>2 DEF Grown
    <3>2. "overran" \notin marks'[s.id] => "overran" \notin marks[s.id]
      BY <2>1 DEF Grown
    <3>3. CallClaim(d, s, message, marks)
      BY <1>1 DEF CallOK
    <3>4. AtWork(s) /\ s.attempts = message'[s.id].attempts => message'[s.id].claim # NoOne
      BY <2>1, <3>1, <3>3 DEF CallClaim, Grown
    <3>5. AtWork(s) /\ "overran" \notin marks'[s.id] =>
             message'[s.id].claim = d /\ ~message'[s.id].stale
      BY <3>2, <3>3 DEF CallClaim, Undisturbed, s
    <3> QED BY <3>1, <3>3, <3>4, <3>5 DEF CallClaim
  <2>5. CallSend(s, called', marks')
    BY DEF Undisturbed, s
  <2>6. CallLimit(s, marks')
    BY <1>1, <2>1 DEF CallOK, CallLimit, Grown
  <2>7. CallReport(s, message', log')
    BY <1>1, <2>1 DEF CallOK, CallReport, Grown
  <2> QED BY <2>3, <2>4, <2>5, <2>6, <2>7 DEF CallOK, s
<1> QED BY <1>2, <1>3

LEMMA DeliveryKept ==
    ASSUME NEW m \in Signals, NEW del, DeliveryOK(del, message[m], log[m], marks[m]), Grown(m)
    PROVE  DeliveryOK(del, message'[m], log'[m], marks'[m])
BY DEF DeliveryOK, Grown

(* More marks excuse more. *)
LEMMA MessageMarked ==
    ASSUME NEW msg, NEW outcomes, NEW made, NEW twice, NEW mk, NEW mk2, mk \subseteq mk2,
           MessageOK(msg, outcomes, made, twice, mk)
    PROVE  MessageOK(msg, outcomes, made, twice, mk2)
BY DEF MessageOK, MessageSent, MessageLimit

(* A step of call c to state s. *)
LEMMA AnyCallStep ==
    ASSUME ReachInv, TypeOK', NEW c \in Callers, NEW s, call' = [call EXCEPT ![c] = s],
           \A n \in Signals : DeliveryOK(delivery'[n], message'[n], log'[n], marks'[n]),
           \A n \in Messages : Grown(n),
           \A d \in Callers \ {c} : Undisturbed(d),
           CallOK(c, s, message', log', called', marks'),
           \A n \in Messages : MessageOK(message'[n], log'[n], called'[n], resent'[n], marks'[n]),
           Sends(s) /\ "blind" \notin marks'[s.id] => \A d \in Callers \ {c} :
               Sends(call[d]) /\ call[d].id = s.id => call[d].attempts # s.attempts
    PROVE  ReachInv'
<1>1. call'[c] = s /\ \A d \in Callers \ {c} : call'[d] = call[d]
  BY DEF ReachInv, TypeOK
<1>2. ASSUME NEW d \in Callers PROVE CallOK(d, call'[d], message', log', called', marks')
  <2>1. CASE d = c
    BY <1>1, <2>1
  <2>2. CASE d # c
    <3>1. CallOK(d, call[d], message', log', called', marks')
      BY <2>2, CallKept
    <3> QED BY <1>1, <2>2, <3>1
  <2> QED BY <2>1, <2>2
<1>3. Alone'
  <2> SUFFICES ASSUME NEW d \in Callers, NEW e \in Callers, d # e, Sends(call'[d]),
                      Sends(call'[e]), call'[d].id = call'[e].id,
                      "blind" \notin marks'[call'[d].id]
               PROVE  call'[d].attempts # call'[e].attempts
    BY DEF Alone
  <2>1. CASE d = c
    BY <1>1, <2>1
  <2>2. CASE e = c
    BY <1>1, <2>2
  <2>3. CASE d # c /\ e # c
    <3>1. call'[d] = call[d] /\ call'[e] = call[e]
      BY <1>1, <2>3
    <3>2. call[d].id \in Messages
      BY <3>1 DEF ReachInv, CallOK, CallShape, Sends
    <3>3. "blind" \notin marks[call[d].id]
      BY <3>1, <3>2 DEF Grown
    <3> QED BY <3>1, <3>3 DEF ReachInv, Alone
  <2> QED BY <2>1, <2>2, <2>3
<1> QED BY <1>2, <1>3 DEF ReachInv

(* One that leaves the deliveries alone. *)
LEMMA CallStep ==
    ASSUME ReachInv, TypeOK', NEW c \in Callers, NEW s, call' = [call EXCEPT ![c] = s],
           delivery' = delivery, \A n \in Messages : Grown(n),
           \A d \in Callers \ {c} : Undisturbed(d),
           CallOK(c, s, message', log', called', marks'),
           \A n \in Messages : MessageOK(message'[n], log'[n], called'[n], resent'[n], marks'[n]),
           Sends(s) /\ "blind" \notin marks'[s.id] => \A d \in Callers \ {c} :
               Sends(call[d]) /\ call[d].id = s.id => call[d].attempts # s.attempts
    PROVE  ReachInv'
<1>1. ASSUME NEW m \in Signals PROVE DeliveryOK(delivery'[m], message'[m], log'[m], marks'[m])
  <2>1. m \in Messages /\ DeliveryOK(delivery[m], message[m], log[m], marks[m])
    BY DEF ReachInv, Messages
  <2> QED BY <2>1, DeliveryKept
<1> QED BY <1>1, AnyCallStep

(* A step of the environment. *)
LEMMA OutsideStep ==
    ASSUME ReachInv, TypeOK', call' = call, \A n \in Messages : Grown(n),
           \A d \in Callers : Undisturbed(d),
           \A n \in Messages : MessageOK(message'[n], log'[n], called'[n], resent'[n], marks'[n]),
           \A n \in Signals : DeliveryOK(delivery'[n], message'[n], log'[n], marks'[n])
    PROVE  ReachInv'
<1>1. ASSUME NEW d \in Callers PROVE CallOK(d, call'[d], message', log', called', marks')
  BY CallKept
<1>2. Alone'
  <2> SUFFICES ASSUME NEW d \in Callers, NEW e \in Callers, d # e, Sends(call[d]),
                      Sends(call[e]), call[d].id = call[e].id,
                      "blind" \notin marks'[call[d].id]
               PROVE  call[d].attempts # call[e].attempts
    BY DEF Alone
  <2>1. call[d].id \in Messages
    BY DEF ReachInv, CallOK, CallShape, Sends
  <2>2. "blind" \notin marks[call[d].id]
    BY <2>1 DEF Grown
  <2> QED BY <2>2 DEF ReachInv, Alone
<1> QED BY <1>1, <1>2 DEF ReachInv

(* A step that only changes the state of call c, and does not let it send. *)
LEMMA QuietStep ==
    ASSUME ReachInv, NEW c \in Callers, NEW s \in Call, call' = [call EXCEPT ![c] = s],
           UNCHANGED <<message, log, delivery, route, called, resent>>,
           marks' \in [Messages -> SUBSET Mark], \A n \in Messages : marks[n] \subseteq marks'[n],
           events' \in 0..MaxEvents, s.step # "result",
           CallOK(c, s, message, log, called, marks')
    PROVE  ReachInv'
<1>1. TypeOK'
  BY DEF ReachInv, TypeOK
<1>2. \A n \in Messages : message[n].attempts \in Nat
  BY DEF ReachInv, TypeOK, Message
<1>3. \A n \in Messages : Grown(n)
  BY <1>2 DEF Grown
<1>4. ASSUME NEW d \in Callers PROVE Undisturbed(d)
  <2>1. CallOK(d, call[d], message, log, called, marks)
    BY DEF ReachInv
  <2>2. Sends(call[d]) => call[d].id \in Messages
    BY <2>1 DEF CallOK, CallShape, Sends
  <2>3. CallSend(call[d], called', marks')
    BY <2>1, <2>2 DEF CallOK, CallSend
  <2> QED BY <2>3 DEF Undisturbed
<1>5. ASSUME NEW n \in Messages
      PROVE  MessageOK(message'[n], log'[n], called'[n], resent'[n], marks'[n])
  BY MessageMarked DEF ReachInv
<1>6. ~Sends(s)
  BY DEF Sends
<1> QED BY <1>1, <1>3, <1>4, <1>5, <1>6, CallStep

(* A step that also changes message m.                                      *)
LEMMA StoreStep ==
    ASSUME ReachInv, NEW c \in Callers, NEW s \in Call, NEW m \in Messages, NEW msg \in Message,
           call' = [call EXCEPT ![c] = s], message' = [message EXCEPT ![m] = msg],
           log' \in [Messages -> Seq(Outcomes)], \A n \in Messages \ {m} : log'[n] = log[n],
           UNCHANGED <<delivery, route, called, resent>>, events' \in 0..MaxEvents,
           marks' \in [Messages -> SUBSET Mark], \A n \in Messages : marks[n] \subseteq marks'[n],
           Grown(m), CallOK(c, s, message', log', called, marks'),
           MessageOK(msg, log'[m], called[m], resent[m], marks'[m]),
           \A d \in Callers \ {c} : message[m].claim = d => message[m].stale,
           Sends(s) /\ "blind" \notin marks'[s.id] => \A d \in Callers \ {c} :
               Sends(call[d]) /\ call[d].id = s.id => call[d].attempts # s.attempts
    PROVE  ReachInv'
<1>1. TypeOK'
  BY DEF ReachInv, TypeOK, Outcomes
<1>2. message'[m] = msg /\ \A n \in Messages \ {m} : message'[n] = message[n]
  BY DEF ReachInv, TypeOK
<1>3. ASSUME NEW n \in Messages PROVE Grown(n)
  <2>1. CASE n = m
    BY <2>1
  <2>2. CASE n # m
    <3>1. message[n].attempts \in Nat
      BY DEF ReachInv, TypeOK, Message
    <3>2. message'[n] = message[n] /\ log'[n] = log[n]
      BY <1>2, <2>2
    <3> QED BY <3>1, <3>2 DEF Grown
  <2> QED BY <2>1, <2>2
<1>4. ASSUME NEW d \in Callers \ {c} PROVE Undisturbed(d)
  <2>1. CallOK(d, call[d], message, log, called, marks)
    BY DEF ReachInv
  <2>2. AtWork(call[d]) => call[d].id \in Messages
    BY <2>1 DEF CallOK, CallShape, AtWork
  <2>3. Sends(call[d]) => AtWork(call[d])
    BY DEF Sends, AtWork
  <2>4. CallSend(call[d], called', marks')
    BY <2>1, <2>2, <2>3 DEF CallOK, CallSend
  <2>5. CASE call[d].id = m
    BY <2>4, <2>5 DEF Undisturbed
  <2>6. CASE call[d].id # m
    BY <1>2, <2>2, <2>4, <2>6 DEF Undisturbed
  <2> QED BY <2>5, <2>6
<1>5. ASSUME NEW n \in Messages
      PROVE  MessageOK(message'[n], log'[n], called'[n], resent'[n], marks'[n])
  <2>1. CASE n = m
    BY <1>2, <2>1
  <2>2. CASE n # m
    <3>1. MessageOK(message[n], log[n], called[n], resent[n], marks[n]) /\ marks[n] \subseteq marks'[n]
      BY DEF ReachInv
    <3>2. MessageOK(message[n], log[n], called[n], resent[n], marks'[n])
      BY <3>1, MessageMarked
    <3>3. message'[n] = message[n] /\ log'[n] = log[n] /\ called' = called /\ resent' = resent
      BY <1>2, <2>2
    <3> QED BY <3>2, <3>3
  <2> QED BY <2>1, <2>2
<1> QED BY <1>1, <1>3, <1>4, <1>5, CallStep

-----------------------------------------------------------------------------
(* The steps that change one call only.                                    *)

LEMMA IdleOK ==
    ASSUME NEW c, NEW msgs, NEW logs, NEW made, NEW mk
    PROVE  CallOK(c, IdleCall, msgs, logs, made, mk)
BY ConstantsTyped DEF CallOK, CallShape, CallClaim, CallSend, CallLimit, CallReport, AtWork, Sends

(* A call returns: a conflict, an error, an early end. *)
LEMMA ReturnStep ==
    ASSUME ReachInv, NEW c \in Callers, Return(c),
           UNCHANGED <<message, log, delivery, route, called, resent, marks>>,
           events' \in 0..MaxEvents
    PROVE  ReachInv'
<1>1. marks' \in [Messages -> SUBSET Mark] /\ \A n \in Messages : marks[n] \subseteq marks'[n]
  BY DEF ReachInv, TypeOK
<1> QED BY <1>1, ConstantsTyped, IdleOK, QuietStep DEF Return

LEMMA EventTyped ==
    ASSUME TypeOK, Event \/ UNCHANGED events
    PROVE  events' \in 0..MaxEvents
BY DEF TypeOK, Event

LEMMA ReturnsStep ==
    ASSUME ReachInv, NEW c \in Callers,
           ClaimConflict(c) \/ ProviderMissing(c) \/ RecordConflict(c) \/ CreateConflict(c)
              \/ UpdateConflict(c) \/ Abort(c)
    PROVE  ReachInv'
<1>1. /\ Return(c) /\ UNCHANGED <<message, log, delivery, route, called, resent, marks>>
      /\ Event \/ UNCHANGED events
  BY DEF ClaimConflict, ProviderMissing, RecordConflict, CreateConflict, UpdateConflict, Abort
<1>2. events' \in 0..MaxEvents
  BY <1>1, EventTyped DEF ReachInv
<1> QED BY <1>1, <1>2, ReturnStep

(* A call that dispatches the message it has just read or stored. *)
LEMMA DispatchingOK ==
    ASSUME TypeOK, NEW c \in Callers, NEW m \in Messages, NEW msg \in Message,
           NEW msgs, msgs[m] = msg, msg.status # "absent", NEW logs, NEW made, NEW mk,
           "adopted" \notin mk[m] => msg.attempts < MaximumAttempts /\ msg.status # "delivered"
    PROVE  CallOK(c, Dispatching(c, m, msg), msgs, logs, made, mk)
<1> DEFINE s == Dispatching(c, m, msg)
<1>1. s.step = "claim" /\ s.id = m /\ s.status = msg.status /\ s.attempts = msg.attempts
  BY DispatchingIs
<1>2. msg.attempts \in Nat
  BY DEF Message
<1> HIDE DEF s
<1>3. CallShape(s, made) /\ CallReport(s, msgs, logs) /\ CallSend(s, made, mk)
  BY <1>1 DEF CallShape, CallReport, CallSend, Sends
<1>4. CallClaim(c, s, msgs, mk)
  BY <1>1, <1>2 DEF CallClaim, AtWork
<1>5. CallLimit(s, mk)
  BY <1>1 DEF CallLimit
<1> QED BY <1>3, <1>4, <1>5 DEF CallOK, s

LEMMA RedispatchStep ==
    ASSUME ReachInv, NEW c \in Callers, NEW m \in Messages, Retry(c, m) \/ Redispatch(c, m)
    PROVE  ReachInv'
<1> DEFINE s == Dispatching(c, m, message[m])
<1>1. /\ TypeOK /\ message[m] \in Message /\ message[m].status # "absent"
      /\ call' = [call EXCEPT ![c] = s]
      /\ UNCHANGED <<message, log, delivery, route, called, resent, marks>>
      /\ Event \/ UNCHANGED events
      /\ marks' \in [Messages -> SUBSET Mark] /\ \A n \in Messages : marks[n] \subseteq marks'[n]
  BY DEF ReachInv, TypeOK, Retry, Redispatch
<1>2. "adopted" \notin marks[m] =>
         message[m].attempts < MaximumAttempts /\ message[m].status # "delivered"
  <2>1. CASE Retry(c, m)
    BY <2>1 DEF Retry
  <2>2. CASE Redispatch(c, m)
    <3>1. message[m].status \in {"queued", "retrying"}
      BY <1>1, <2>2 DEF Redispatch, Settled, Message, MessageStatus
    <3>2. message[m].status = "queued" => message[m].attempts = 0
      BY StoredIs
    <3>3. "adopted" \notin marks[m] /\ message[m].status = "retrying" =>
             message[m].attempts < MaximumAttempts
      BY DEF ReachInv, MessageOK, MessageLimit
    <3> QED BY <3>1, <3>2, <3>3
  <2> QED BY <2>1, <2>2
<1>3. CallOK(c, s, message, log, called, marks')
  BY <1>1, <1>2, DispatchingOK
<1>4. s \in Call /\ s.step = "claim"
  BY <1>1, DispatchingIs
<1> HIDE DEF s
<1> QED BY <1>1, <1>3, <1>4, EventTyped, QuietStep

(* A call that reports what is stored of its message. *)
LEMMA ReportingOK ==
    ASSUME TypeOK, NEW c \in Callers, NEW m \in Messages, NEW status, NEW msgs, NEW logs,
           NEW made, NEW mk,
           status = "delivered" => Has(logs[m], "delivered"),
           status \notin {"delivered", "retrying"} => Has(logs[m], "failed") \/ Unrouted(msgs[m])
    PROVE  CallOK(c, Reporting(c, m, status), msgs, logs, made, mk)
<1> DEFINE s == Reporting(c, m, status)
<1>1. s.step = "report" /\ s.id = m /\ s.result = ResultFromMessage(status)
  BY ReportingIs
<1> HIDE DEF s
<1>2. CallReport(s, msgs, logs)
  BY <1>1, ResultIs DEF CallReport
<1>3. CallShape(s, made) /\ CallClaim(c, s, msgs, mk) /\ CallSend(s, made, mk) /\ CallLimit(s, mk)
  BY <1>1 DEF CallShape, CallClaim, CallSend, CallLimit, AtWork, Sends
<1> QED BY <1>2, <1>3 DEF CallOK, s

LEMMA ReportExistingStep ==
    ASSUME ReachInv, NEW c \in Callers, NEW m \in Messages,
           ReportExisting(c, m) \/ (FindUnrouted(c) /\ m = call[c].id)
    PROVE  ReachInv'
<1> DEFINE s == Reporting(c, m, message[m].status)
<1>1. /\ TypeOK /\ message[m] \in Message /\ message[m].status # "absent"
      /\ call' = [call EXCEPT ![c] = s]
      /\ UNCHANGED <<message, log, delivery, route, called, resent, marks, events>>
      /\ marks' \in [Messages -> SUBSET Mark] /\ \A n \in Messages : marks[n] \subseteq marks'[n]
      /\ Settled(message[m]) \/ ~message[m].routed
  BY DEF ReachInv, TypeOK, ReportExisting, FindUnrouted
<1>2. message[m].status = "delivered" => Has(log[m], "delivered")
  BY StoredIs DEF Outcomes
<1>3. ASSUME message[m].status \notin {"delivered", "retrying"}
      PROVE  Has(log[m], "failed") \/ Unrouted(message[m])
  <2>1. CASE ~message[m].routed
    BY <1>1, <2>1 DEF Unrouted
  <2>2. CASE Settled(message[m])
    <3>1. message[m].wait => message[m].status = "retrying"
      BY DEF ReachInv, MessageOK, MessageBase
    <3>2. message[m].status = "failed"
      BY <1>3, <2>2, <3>1 DEF Settled
    <3> QED BY <3>2, StoredIs DEF Outcomes
  <2> QED BY <1>1, <2>1, <2>2
<1>4. CallOK(c, s, message, log, called, marks')
  BY <1>1, <1>2, <1>3, ReportingOK
<1>5. s \in Call /\ s.step = "report"
  BY <1>1, ReportingIs
<1> HIDE DEF s
<1> QED BY <1>1, <1>4, <1>5, EventTyped, QuietStep

(* A call lists the due deliveries, or finds that a message is missing. *)
LEMMA ListStep ==
    ASSUME ReachInv, NEW c \in Callers,
           ProcessSignals(c) \/ \E m \in Signals : FindMissing(c, m)
    PROVE  ReachInv'
<1>1. /\ TypeOK /\ call \in [Callers -> Call] /\ call[c] \in Call
      /\ CallOK(c, call[c], message, log, called, marks)
      /\ UNCHANGED <<message, log, delivery, route, called, resent, marks, events>>
      /\ marks' \in [Messages -> SUBSET Mark] /\ \A n \in Messages : marks[n] \subseteq marks'[n]
  BY DEF ReachInv, TypeOK, ProcessSignals, FindMissing
<1>2. call[c].step \in {"idle", "next"} /\ call[c].attempts = 0
  BY <1>1, ConstantsTyped DEF CallOK, CallShape, ProcessSignals, FindMissing
<1>3. ASSUME NEW s \in Call, s.step \in {"next", "create"}, s.attempts = 0,
             s.step = "create" => s.id \in Messages
      PROVE  CallOK(c, s, message, log, called, marks')
  BY <1>3 DEF CallOK, CallShape, CallClaim, CallSend, CallLimit, CallReport, AtWork, Sends
<1>4. CASE ProcessSignals(c)
  <2> DEFINE s == [call[c] EXCEPT !.step = "next", !.batch = {m \in Pending : ~delivery[m].wait}]
  <2>1. call' = [call EXCEPT ![c] = s]
    BY <1>1, <1>4 DEF ProcessSignals
  <2>2. s \in Call /\ s.step = "next" /\ s.attempts = call[c].attempts
    BY <1>1 DEF Call, Steps, Results, Pending
  <2> HIDE DEF s
  <2> QED BY <1>1, <1>2, <1>3, <2>1, <2>2, EventTyped, QuietStep
<1>5. ASSUME NEW m \in Signals, FindMissing(c, m) PROVE ReachInv'
  <2> DEFINE s == [call[c] EXCEPT !.step = "create", !.id = m]
  <2>1. call' = [call EXCEPT ![c] = s]
    BY <1>1, <1>5 DEF FindMissing
  <2>2. m \in Messages
    BY DEF Messages
  <2>3. s \in Call /\ s.step = "create" /\ s.attempts = call[c].attempts /\ s.id = m
    BY <1>1, <2>2 DEF Call, Steps, Results
  <2> HIDE DEF s
  <2> QED BY <1>1, <1>2, <1>3, <2>1, <2>2, <2>3, EventTyped, QuietStep
<1> QED BY <1>4, <1>5

LEMMA LocalResultStep ==
    ASSUME ReachInv, NEW c \in Callers, NEW r \in Results, LocalResult(c, r)
    PROVE  ReachInv'
<1> DEFINE s == [call[c] EXCEPT !.step = "record", !.result = r]
<1>1. /\ TypeOK /\ call \in [Callers -> Call] /\ call[c] \in Call /\ call[c].step = "result"
      /\ CallOK(c, call[c], message, log, called, marks)
      /\ UNCHANGED <<message, log, delivery, route, called, resent, marks, events>>
      /\ marks' \in [Messages -> SUBSET Mark] /\ \A n \in Messages : marks[n] \subseteq marks'[n]
      /\ call' = [call EXCEPT ![c] = s] /\ r # "succeeded"
  BY DEF ReachInv, TypeOK, LocalResult
<1>2. /\ s \in Call /\ s.step = "record" /\ s.id = call[c].id /\ s.attempts = call[c].attempts
      /\ s.result = r
  BY <1>1 DEF Call, Steps, Results
<1> HIDE DEF s
<1>3. CallShape(s, called) /\ CallSend(s, called, marks) /\ CallLimit(s, marks)
      /\ CallReport(s, message, log)
  BY <1>1, <1>2 DEF CallOK, CallShape, CallSend, CallLimit, CallReport, Sends
<1>4. CallClaim(c, s, message, marks)
  BY <1>1, <1>2 DEF CallOK, CallClaim, AtWork
<1> QED BY <1>1, <1>2, <1>3, <1>4, EventTyped, QuietStep DEF CallOK

(* A REST client's result, and the read of the delivery for any report. *)
LEMMA RecordSignalDeliveryAttemptStep ==
    ASSUME ReachInv, NEW c \in Callers, NEW m \in Signals, NEW r \in Results,
           RecordSignalDeliveryAttempt(c, m, r)
    PROVE  ReachInv'
<1> DEFINE s == [IdleCall EXCEPT !.step = "report", !.id = m, !.result = r]
<1>1. /\ TypeOK /\ m \in Messages /\ Event
      /\ UNCHANGED <<message, log, delivery, route, called, resent, marks>>
      /\ marks' \in [Messages -> SUBSET Mark] /\ \A n \in Messages : marks[n] \subseteq marks'[n]
      /\ call' = [call EXCEPT ![c] = s]
  BY DEF ReachInv, TypeOK, RecordSignalDeliveryAttempt, Messages
<1>2. s \in Call /\ s.step = "report" /\ s.id = m /\ s.batch = {}
  BY <1>1, ConstantsTyped DEF IdleCall, Call, Steps, Results
<1> HIDE DEF s
<1>3. CallOK(c, s, message, log, called, marks')
  BY <1>1, <1>2 DEF CallOK, CallShape, CallClaim, CallSend, CallLimit, CallReport, AtWork, Sends
<1> QED BY <1>1, <1>2, <1>3, EventTyped, QuietStep

LEMMA ReadDeliveryStep ==
    ASSUME ReachInv, NEW c \in Callers, ReadDelivery(c)
    PROVE  ReachInv'
<1> DEFINE m == call[c].id
           s == [call[c] EXCEPT !.step = "update", !.tries = delivery[m].attempts]
<1>1. /\ TypeOK /\ call \in [Callers -> Call] /\ call[c] \in Call /\ call[c].step = "report"
      /\ CallOK(c, call[c], message, log, called, marks)
      /\ UNCHANGED <<message, log, delivery, route, called, resent, marks, events>>
      /\ marks' \in [Messages -> SUBSET Mark] /\ \A n \in Messages : marks[n] \subseteq marks'[n]
      /\ events' \in 0..MaxEvents
  BY EventTyped DEF ReachInv, TypeOK, ReadDelivery
<1>2. CASE m \notin Pending
  BY <1>1, <1>2, ReturnStep DEF ReadDelivery
<1>3. CASE m \in Pending
  <2>1. call' = [call EXCEPT ![c] = s]
    BY <1>1, <1>3 DEF ReadDelivery
  <2>2. m \in Signals /\ m \in Messages /\ delivery[m].attempts \in Nat
    BY <1>1, <1>3 DEF Pending, Messages, TypeOK, Delivery
  <2>3. /\ s \in Call /\ s.step = "update" /\ s.id = m /\ s.batch = call[c].batch
        /\ s.result = call[c].result
    BY <1>1, <2>2 DEF Call, Steps
  <2> HIDE DEF s
  <2>4. CallReport(s, message, log)
    BY <1>1, <2>3 DEF CallOK, CallReport
  <2>5. CallShape(s, called) /\ CallClaim(c, s, message, marks) /\ CallSend(s, called, marks)
        /\ CallLimit(s, marks)
    BY <2>2, <2>3 DEF CallShape, CallClaim, CallSend, CallLimit, AtWork, Sends
  <2> QED BY <1>1, <2>1, <2>3, <2>4, <2>5, QuietStep DEF CallOK
<1> QED BY <1>2, <1>3

-----------------------------------------------------------------------------
(* The steps that store, claim and record a message.                       *)

(* A message that is stored for the first time. *)
LEMMA CreatedIs ==
    ASSUME ReachInv, NEW m \in Messages, NEW b \in BOOLEAN, message[m].status = "absent",
           message' = [message EXCEPT ![m] = NewMessage(b)],
           UNCHANGED <<log, called, marks>>
    PROVE  /\ Grown(m) /\ message'[m] = NewMessage(b) /\ NewMessage(b) \in Message
           /\ MessageOK(NewMessage(b), log[m], called[m], resent[m], marks[m])
           /\ message[m].claim = NoOne
<1>1. message[m].attempts = 0 /\ Len(log[m]) = 0 /\ log[m] \in Seq(Outcomes)
  BY StoredIs
<1>2. log[m] = <<>>
  BY <1>1
<1>3. MessageOK(message[m], log[m], called[m], resent[m], marks[m])
  BY DEF ReachInv
<1>4. message[m].claim = NoOne
  BY <1>3 DEF MessageOK, MessageBase
<1>5. message'[m] = NewMessage(b)
  BY DEF ReachInv, TypeOK
<1>6. /\ NewMessage(b) \in Message /\ NewMessage(b).status = "queued"
      /\ NewMessage(b).attempts = 0 /\ NewMessage(b).claim = NoOne
      /\ NewMessage(b).wait = FALSE
  BY ConstantsTyped
<1>7. Grown(m)
  BY <1>1, <1>4, <1>5, <1>6 DEF Grown, Unrouted
<1>8. MessageBase(NewMessage(b), log[m], called[m])
  BY <1>1, <1>2, <1>3, <1>6 DEF MessageOK, MessageBase
<1>9. MessageSent(NewMessage(b), called[m], resent[m], marks[m])
  BY <1>1, <1>3, <1>4, <1>6 DEF MessageOK, MessageSent
<1>10. MessageLimit(NewMessage(b), marks[m])
  BY <1>6 DEF MessageLimit
<1> QED BY <1>4, <1>5, <1>6, <1>7, <1>8, <1>9, <1>10 DEF MessageOK

(* Send, and CreateMessage of a target that resolves, of a new message. *)
StoreAndDispatch(c, m, msg) ==
    /\ message' = [message EXCEPT ![m] = msg]
    /\ call' = [call EXCEPT ![c] = Dispatching(c, m, msg)]

LEMMA NewStep ==
    ASSUME ReachInv, NEW c \in Callers, NEW m \in Messages, message[m].status = "absent",
           StoreAndDispatch(c, m, NewMessage(TRUE)),
           Event \/ UNCHANGED events,
           UNCHANGED <<log, delivery, route, called, resent, marks>>
    PROVE  ReachInv'
<1>1. PICK new : new = NewMessage(TRUE)
  OBVIOUS
<1> DEFINE s == Dispatching(c, m, new)
<1>2. message' = [message EXCEPT ![m] = new] /\ call' = [call EXCEPT ![c] = s]
  BY <1>1 DEF StoreAndDispatch
<1>3. /\ Grown(m) /\ message'[m] = new /\ new \in Message
      /\ MessageOK(new, log[m], called[m], resent[m], marks[m])
      /\ message[m].claim = NoOne
  BY <1>1, CreatedIs DEF StoreAndDispatch
<1>4. new.status = "queued" /\ new.attempts = 0
  BY <1>1, ConstantsTyped
<1>5. /\ TypeOK /\ marks' \in [Messages -> SUBSET Mark]
      /\ log' \in [Messages -> Seq(Outcomes)]
      /\ \A n \in Messages : marks[n] \subseteq marks'[n]
  BY DEF ReachInv, TypeOK, Outcomes
<1>6. events' \in 0..MaxEvents
  BY <1>5, EventTyped
<1>7. s \in Call /\ s.step = "claim"
  BY <1>3, <1>5, DispatchingIs
<1>8. new.status # "absent" /\ new.attempts < MaximumAttempts /\ new.status # "delivered"
  BY <1>4
<1>9. CallOK(c, s, message', log', called, marks')
  <2>1. ASSUME NEW msgs, NEW logs, NEW mk, msgs[m] = new
        PROVE  CallOK(c, s, msgs, logs, called, mk)
    BY <1>3, <1>5, <1>8, <2>1, DispatchingOK
  <2> HIDE DEF s
  <2> QED BY <1>3, <2>1
<1>10. ~Sends(s)
  BY <1>7 DEF Sends
<1>11. \A d \in Callers \ {c} : message[m].claim = d => message[m].stale
  BY <1>3
<1>12. MessageOK(new, log'[m], called[m], resent[m], marks'[m])
  BY <1>3
<1> HIDE DEF s
<1> QED BY <1>2, <1>3, <1>5, <1>6, <1>7, <1>9, <1>10, <1>11, <1>12, StoreStep

LEMMA SendStep ==
    ASSUME ReachInv, NEW c \in Callers, NEW m \in Messages, Send(c, m)
    PROVE  ReachInv'
BY NewStep DEF Send, StoreAndDispatch

LEMMA CreateRoutedStep ==
    ASSUME ReachInv, NEW c \in Callers, CreateRouted(c)
    PROVE  ReachInv'
<1> DEFINE m == call[c].id
           s == Dispatching(c, m, message[m])
<1>1. /\ TypeOK /\ m \in Messages /\ message[m] \in Message /\ call[c].step = "create"
      /\ message \in [Messages -> Message] /\ marks \in [Messages -> SUBSET Mark]
  BY DEF ReachInv, TypeOK, CreateRouted, CallOK, CallShape
<1>2. CASE message[m].status = "absent"
  <2>1. NewMessage(TRUE).status = "queued"
    BY ConstantsTyped
  <2> QED BY <1>1, <1>2, <2>1, NewStep DEF CreateRouted, StoreAndDispatch
<1>3. CASE message[m].status # "absent"
  <2>1. /\ call' = [call EXCEPT ![c] = s]
        /\ UNCHANGED <<log, delivery, route, called, resent, events>>
        /\ message' = [message EXCEPT ![m] = message[m]]
        /\ IF message[m].status \in {"delivered", "failed"} THEN Befell(m, "adopted")
                                                           ELSE UNCHANGED marks
    BY <1>3 DEF CreateRouted
  <2>2. message' = message
    BY <1>1, <2>1
  <2>3. /\ marks' \in [Messages -> SUBSET Mark] /\ \A n \in Messages : marks[n] \subseteq marks'[n]
        /\ message[m].status \in {"delivered", "failed"} => "adopted" \in marks'[m]
    BY <1>1, <2>1, BefellGrows DEF Mark
  <2>4. "adopted" \notin marks'[m] =>
           message[m].attempts < MaximumAttempts /\ message[m].status # "delivered"
    <3>1. "adopted" \notin marks'[m] => message[m].status \in {"queued", "retrying"}
      BY <1>1, <1>3, <2>3 DEF Message, MessageStatus
    <3>2. message[m].status = "queued" => message[m].attempts = 0
      BY <1>1, StoredIs
    <3>3. "adopted" \notin marks[m] /\ message[m].status = "retrying" =>
             message[m].attempts < MaximumAttempts
      BY <1>1 DEF ReachInv, MessageOK, MessageLimit
    <3>4. "adopted" \notin marks'[m] => "adopted" \notin marks[m]
      BY <1>1, <2>3
    <3> QED BY <3>1, <3>2, <3>3, <3>4
  <2>5. CallOK(c, s, message, log, called, marks')
    BY <1>1, <1>3, <2>4, DispatchingOK
  <2>6. s \in Call /\ s.step = "claim"
    BY <1>1, DispatchingIs
  <2>7. events' \in 0..MaxEvents
    BY <1>1, <2>1, EventTyped
  <2> HIDE DEF s
  <2> QED BY <2>1, <2>2, <2>3, <2>5, <2>6, <2>7, QuietStep
<1> QED BY <1>2, <1>3

(* The state of call c at another step. *)
LEMMA GoIs ==
    ASSUME TypeOK, NEW c \in Callers, NEW step \in Steps, Go(c, step)
    PROVE  /\ call' = [call EXCEPT ![c] = [call[c] EXCEPT !.step = step]]
           /\ [call[c] EXCEPT !.step = step] \in Call
<1>1. call \in [Callers -> Call] /\ call[c] \in Call
  BY DEF TypeOK
<1>2. call' = [call EXCEPT ![c] = [call[c] EXCEPT !.step = step]]
  BY <1>1 DEF Go
<1>3. [call[c] EXCEPT !.step = step] \in Call
  BY <1>1 DEF Call
<1> QED BY <1>2, <1>3

LEMMA CreateUnroutedStep ==
    ASSUME ReachInv, NEW c \in Callers, CreateUnrouted(c)
    PROVE  ReachInv'
<1> DEFINE m == call[c].id
           s == [call[c] EXCEPT !.step = "reject"]
<1>1. /\ TypeOK /\ m \in Messages /\ call[c].step = "create" /\ call[c].attempts = 0
      /\ call[c] \in Call
      /\ message[m].status = "absent" /\ message' = [message EXCEPT ![m] = NewMessage(FALSE)]
      /\ Go(c, "reject") /\ UNCHANGED <<log, delivery, route, called, resent, marks, events>>
      /\ marks' \in [Messages -> SUBSET Mark] /\ log' \in [Messages -> Seq(Outcomes)]
      /\ \A n \in Messages : marks[n] \subseteq marks'[n]
  BY DEF ReachInv, TypeOK, CreateUnrouted, CallOK, CallShape, Outcomes
<1>2. /\ Grown(m) /\ message'[m] = NewMessage(FALSE) /\ NewMessage(FALSE) \in Message
      /\ MessageOK(NewMessage(FALSE), log[m], called[m], resent[m], marks[m])
      /\ message[m].claim = NoOne
  BY <1>1, CreatedIs
<1>3. call' = [call EXCEPT ![c] = s] /\ s \in Call
  BY <1>1, GoIs DEF Steps
<1>4. s.step = "reject" /\ s.id = m /\ s.attempts = 0
  BY <1>1 DEF Call
<1> HIDE DEF s
<1>5. CallOK(c, s, message', log', called, marks') /\ ~Sends(s)
  BY <1>1, <1>4 DEF CallOK, CallShape, CallClaim, CallSend, CallLimit, CallReport, AtWork, Sends
<1> QED BY <1>1, <1>2, <1>3, <1>5, EventTyped, StoreStep

(* A message under a new claim. *)
LEMMA ClaimedIs ==
    ASSUME ReachInv, NEW c \in Callers, NEW m \in Messages, NEW status, NEW attempts,
           Claimable(message[m], status, attempts), status # "absent", ClaimMessage(c, m),
           UNCHANGED <<log, called>>, \A n \in Messages : marks[n] \subseteq marks'[n],
           "adopted" \notin marks[m] => status # "delivered"
    PROVE  /\ message'[m] \in Message /\ message' = [message EXCEPT ![m] = message'[m]]
           /\ message'[m].claim = c /\ ~message'[m].stale
           /\ message'[m].attempts = message[m].attempts /\ Grown(m)
           /\ MessageOK(message'[m], log[m], called[m], resent[m], marks'[m])
<1> DEFINE new == [message[m] EXCEPT !.claim = c, !.stale = FALSE]
<1>1. /\ message \in [Messages -> Message] /\ message[m] \in Message
      /\ MessageOK(message[m], log[m], called[m], resent[m], marks[m])
      /\ message[m].status = status /\ message[m].attempts \in Nat /\ c # NoOne
  BY DEF ReachInv, TypeOK, Claimable, Message
<1>2. message' = [message EXCEPT ![m] = new]
  BY <1>1 DEF ClaimMessage
<1>3. /\ new \in Message /\ new.claim = c /\ ~new.stale /\ new.attempts = message[m].attempts
      /\ new.status = status /\ new.wait = message[m].wait /\ new.routed = message[m].routed
  BY <1>1 DEF Message
<1> HIDE DEF new
<1>4. message'[m] = new
  BY <1>1, <1>2
<1>5. Grown(m)
  BY <1>1, <1>3, <1>4 DEF Grown, Unrouted
<1>6. MessageBase(new, log[m], called[m])
  BY <1>1, <1>3 DEF MessageOK, MessageBase
<1>7. MessageSent(new, called[m], resent[m], marks[m])
  BY <1>1, <1>3 DEF MessageOK, MessageSent
<1>8. MessageLimit(new, marks[m])
  BY <1>1, <1>3 DEF MessageOK, MessageLimit
<1>9. MessageOK(new, log[m], called[m], resent[m], marks'[m])
  BY <1>6, <1>7, <1>8, MessageMarked DEF MessageOK
<1> QED BY <1>2, <1>3, <1>4, <1>5, <1>9

(* No other call holds a live claim on a message that can be claimed. *)
LEMMA ClaimableIs ==
    ASSUME ReachInv, NEW m \in Messages, NEW status, NEW attempts,
           Claimable(message[m], status, attempts)
    PROVE  \A d \in Callers : message[m].claim = d => message[m].stale
BY DEF Claimable, LiveClaim

(* Unless it takes over an abandoned claim blindly, a call that claims is   *)
(* the first to send its attempt.                                           *)
LEMMA ClaimStep ==
    ASSUME ReachInv, NEW c \in Callers, Claim(c)
    PROVE  ReachInv'
<1> DEFINE m == call[c].id
           s == [call[c] EXCEPT !.step = "result"]
<1>1. /\ TypeOK /\ m \in Messages /\ call[c].step = "claim" /\ call[c] \in Call
      /\ CallOK(c, call[c], message, log, called, marks)
      /\ call[c].status # "absent"
      /\ MessageOK(message[m], log[m], called[m], resent[m], marks[m])
      /\ log \in [Messages -> Seq(Outcomes)]
  BY DEF ReachInv, TypeOK, Claim, CallOK, CallShape, Outcomes
<1>2. /\ Claimable(message[m], call[c].status, call[c].attempts)
      /\ ClaimMessage(c, m) /\ Go(c, "result")
      /\ UNCHANGED <<log, delivery, route, called, resent, events>>
      /\ IF Abandoned(message[m]) /\ ~call[c].recovering THEN Befell(m, "blind")
                                                         ELSE UNCHANGED marks
  BY DEF Claim
<1>3. /\ marks' \in [Messages -> SUBSET Mark] /\ \A n \in Messages : marks[n] \subseteq marks'[n]
      /\ Abandoned(message[m]) /\ ~call[c].recovering => "blind" \in marks'[m]
  BY <1>1, <1>2, BefellGrows DEF Mark
<1>4. "adopted" \notin marks[m] =>
         call[c].status # "delivered" /\ call[c].attempts < MaximumAttempts
  BY <1>1 DEF CallOK, CallLimit
<1>5. /\ message'[m] \in Message /\ message' = [message EXCEPT ![m] = message'[m]]
      /\ message'[m].claim = c /\ ~message'[m].stale
      /\ message'[m].attempts = message[m].attempts /\ Grown(m)
      /\ MessageOK(message'[m], log[m], called[m], resent[m], marks'[m])
  BY <1>1, <1>2, <1>3, <1>4, ClaimedIs
<1>6. message[m].attempts = call[c].attempts /\ message[m].attempts \in Nat /\ c # NoOne
  BY <1>1, <1>2 DEF Claimable, TypeOK, Message
<1>7. call' = [call EXCEPT ![c] = s] /\ s \in Call
  BY <1>1, <1>2, GoIs DEF Steps
<1>8. /\ s.step = "result" /\ s.id = m /\ s.attempts = call[c].attempts
      /\ s.recovering = call[c].recovering
  BY <1>1 DEF Call
<1> HIDE DEF s
<1>9. Sends(s) /\ "blind" \notin marks'[m] =>
         message[m].claim = NoOne /\ "blind" \notin marks[m]
  BY <1>1, <1>2, <1>3, <1>8 DEF Sends, Abandoned, Claimable, LiveClaim
<1>10. CallOK(c, s, message', log', called, marks')
  <2>1. CallSend(s, called, marks')
    BY <1>1, <1>6, <1>8, <1>9 DEF CallSend, MessageOK, MessageSent
  <2>2. CallShape(s, called) /\ CallReport(s, message', log')
    BY <1>1, <1>8 DEF CallShape, CallReport
  <2>3. CallClaim(c, s, message', marks')
    BY <1>5, <1>6, <1>8 DEF CallClaim
  <2>4. CallLimit(s, marks')
    BY <1>1, <1>3, <1>4, <1>8 DEF CallLimit
  <2> QED BY <2>1, <2>2, <2>3, <2>4 DEF CallOK
<1>11. ASSUME Sends(s), "blind" \notin marks'[s.id], NEW d \in Callers \ {c},
              Sends(call[d]), call[d].id = s.id
       PROVE  call[d].attempts # s.attempts
  <2>1. CallClaim(d, call[d], message, marks) /\ AtWork(call[d])
    BY <1>11 DEF ReachInv, CallOK, Sends, AtWork
  <2>2. call[d].attempts = message[m].attempts => message[m].claim # NoOne
    BY <1>8, <1>11, <2>1 DEF CallClaim
  <2> QED BY <1>6, <1>8, <1>9, <1>11, <2>2
<1>12. \A d \in Callers \ {c} : message[m].claim = d => message[m].stale
  BY <1>1, <1>2, ClaimableIs
<1>13. events' \in 0..MaxEvents
  BY <1>1, <1>2, EventTyped
<1> QED BY <1>1, <1>2, <1>3, <1>5, <1>7, <1>10, <1>11, <1>12, <1>13, StoreStep

LEMMA ClaimUndeliverableStep ==
    ASSUME ReachInv, NEW c \in Callers, ClaimUndeliverable(c)
    PROVE  ReachInv'
<1> DEFINE m == call[c].id
           s == [call[c] EXCEPT !.step = "rejected"]
<1>1. /\ TypeOK /\ m \in Messages /\ call[c].step = "reject" /\ call[c] \in Call
      /\ call[c].attempts = 0 /\ log \in [Messages -> Seq(Outcomes)]
      /\ UNCHANGED <<log, delivery, route, called, resent, marks, events>>
      /\ marks' \in [Messages -> SUBSET Mark] /\ \A n \in Messages : marks[n] \subseteq marks'[n]
  BY DEF ReachInv, TypeOK, ClaimUndeliverable, CallOK, CallShape, Outcomes
<1>2. events' \in 0..MaxEvents
  BY <1>1, EventTyped
<1>3. CASE ~Claimable(message[m], "queued", 0)
  BY <1>1, <1>2, <1>3, ReturnStep DEF ClaimUndeliverable
<1>4. CASE Claimable(message[m], "queued", 0)
  <2>1. ClaimMessage(c, m) /\ Go(c, "rejected")
    BY <1>4 DEF ClaimUndeliverable
  <2>2. /\ message'[m] \in Message /\ message' = [message EXCEPT ![m] = message'[m]]
        /\ message'[m].claim = c /\ ~message'[m].stale
        /\ message'[m].attempts = message[m].attempts /\ Grown(m)
        /\ MessageOK(message'[m], log[m], called[m], resent[m], marks'[m])
    BY <1>1, <1>4, <2>1, ClaimedIs
  <2>3. message[m].attempts = 0 /\ c # NoOne
    BY <1>4 DEF Claimable
  <2>4. call' = [call EXCEPT ![c] = s] /\ s \in Call
    BY <1>1, <2>1, GoIs DEF Steps
  <2>5. s.step = "rejected" /\ s.id = m /\ s.attempts = 0
    BY <1>1 DEF Call
  <2> HIDE DEF s
  <2>6. CallClaim(c, s, message', marks')
    BY <2>2, <2>3, <2>5 DEF CallClaim
  <2>7. CallOK(c, s, message', log', called, marks') /\ ~Sends(s)
    BY <1>1, <2>5, <2>6 DEF CallOK, CallShape, CallSend, CallLimit, CallReport, Sends
  <2>8. \A d \in Callers \ {c} : message[m].claim = d => message[m].stale
    BY <1>1, <1>4, ClaimableIs
  <2>9. MessageOK(message'[m], log'[m], called[m], resent[m], marks'[m])
    BY <1>1, <2>2
  <2>10. /\ log' \in [Messages -> Seq(Outcomes)] /\ \A n \in Messages \ {m} : log'[n] = log[n]
    BY <1>1
  <2> QED BY <1>1, <1>2, <2>2, <2>4, <2>7, <2>8, <2>9, <2>10, StoreStep
<1> QED BY <1>3, <1>4

(* A message with one more attempt, released. *)
Released(msg, status, w) ==
    [msg EXCEPT !.status = status, !.attempts = msg.attempts + 1, !.claim = NoOne,
                !.stale = FALSE, !.wait = w]

LEMMA ReleasedIs ==
    ASSUME NEW msg \in Message, NEW status \in MessageStatus, NEW w \in BOOLEAN
    PROVE  LET new == Released(msg, status, w)
           IN  /\ new \in Message /\ new.claim = NoOne /\ new.attempts = msg.attempts + 1
               /\ new.status = status /\ new.wait = w /\ new.routed = msg.routed
<1>1. msg.attempts + 1 \in Nat
  BY DEF Message
<1>2. Released(msg, status, w) \in Message
  BY <1>1 DEF Released, Message
<1> QED BY <1>1, <1>2 DEF Released, Message

LEMMA RecordedIs ==
    ASSUME ReachInv, NEW c \in Callers, NEW m \in Messages, NEW attempts, NEW status \in Outcomes,
           Recordable(c, m, attempts), RecordAttempt(c, m, status),
           UNCHANGED <<called, marks>>,
           status = "delivered" => attempts \in called[m],
           "adopted" \notin marks[m] =>
               /\ attempts < MaximumAttempts
               /\ status = "retrying" => attempts + 1 < MaximumAttempts
    PROVE  /\ message'[m] \in Message /\ message' = [message EXCEPT ![m] = message'[m]]
           /\ log' \in [Messages -> Seq(Outcomes)] /\ \A n \in Messages \ {m} : log'[n] = log[n]
           /\ Grown(m) /\ Has(log'[m], status)
           /\ MessageOK(message'[m], log'[m], called[m], resent[m], marks[m])
<1>w. PICK w \in BOOLEAN : w <=> status = "retrying"
  OBVIOUS
<1> DEFINE new == Released(message[m], status, w)
<1>1. /\ message \in [Messages -> Message] /\ message[m] \in Message
      /\ MessageOK(message[m], log[m], called[m], resent[m], marks[m])
      /\ message[m].attempts = attempts /\ attempts \in Nat /\ message[m].claim = c
      /\ log \in [Messages -> Seq(Outcomes)] /\ log[m] \in Seq(Outcomes)
      /\ called[m] \subseteq Nat /\ Len(log[m]) = attempts
      /\ message[m].status # "absent" /\ status # "absent"
  BY DEF ReachInv, TypeOK, Recordable, Message, Outcomes, MessageOK, MessageBase
<1>2. message' = [message EXCEPT ![m] = new]
  <2>1. w = (status = "retrying")
    BY <1>w
  <2> QED BY <1>1, <2>1 DEF RecordAttempt, Released
<1>3. status \in MessageStatus
  BY DEF Outcomes, MessageStatus
<1>4. /\ new \in Message /\ new.claim = NoOne /\ new.attempts = attempts + 1
      /\ new.status = status /\ new.wait = w
      /\ new.routed = message[m].routed
  BY <1>1, <1>3, ReleasedIs
<1> HIDE DEF new
<1>5. message'[m] = new
  BY <1>1, <1>2
<1>6. log' = [log EXCEPT ![m] = Append(log[m], status)]
  BY DEF RecordAttempt
<1>7. /\ log'[m] = Append(log[m], status) /\ \A n \in Messages \ {m} : log'[n] = log[n]
      /\ log' \in [Messages -> Seq(Outcomes)]
  BY <1>1, <1>6
<1>8. /\ Len(log'[m]) = attempts + 1 /\ log'[m][attempts + 1] = status
      /\ log'[m] # <<>> /\ attempts + 1 \in DOMAIN log'[m]
  BY <1>1, <1>7
<1>9. ASSUME NEW o, Has(log[m], o) PROVE Has(log'[m], o)
  <2>1. PICK i \in DOMAIN log[m] : log[m][i] = o
    BY <1>9 DEF Has
  <2>2. i \in DOMAIN log'[m] /\ log'[m][i] = o
    BY <1>1, <1>7, <2>1
  <2> QED BY <2>2 DEF Has
<1>10. Has(log'[m], status)
  BY <1>8 DEF Has
<1>11. Grown(m)
  BY <1>1, <1>4, <1>5, <1>9 DEF Grown, Unrouted
<1>12. MessageBase(new, log'[m], called[m])
  <2>1. \A n \in called[m] : n <= attempts
    BY <1>1 DEF MessageOK, MessageBase
  <2>2. \A n \in called[m] : n <= attempts + 1
    BY <1>1, <2>1
  <2>3. status = "delivered" => new.attempts > 0 /\ new.attempts - 1 \in called[m]
    BY <1>1, <1>4
  <2> QED BY <1>w, <1>1, <1>4, <1>8, <2>2, <2>3 DEF MessageBase
<1>13. MessageSent(new, called[m], resent[m], marks[m])
  <2>1. attempts + 1 \notin called[m]
    BY <1>1 DEF MessageOK, MessageBase
  <2> QED BY <1>1, <1>4, <2>1 DEF MessageOK, MessageSent
<1>14. MessageLimit(new, marks[m])
  BY <1>1, <1>4 DEF MessageLimit
<1> QED BY <1>2, <1>4, <1>5, <1>7, <1>10, <1>11, <1>12, <1>13, <1>14 DEF MessageOK

(* The call that records its attempt goes on to s. *)
LEMMA RecordingStep ==
    ASSUME ReachInv, NEW c \in Callers, NEW s \in Call, NEW m \in Messages,
           call' = [call EXCEPT ![c] = s], s.step \in {"idle", "report"},
           message'[m] \in Message, message' = [message EXCEPT ![m] = message'[m]],
           log' \in [Messages -> Seq(Outcomes)], \A n \in Messages \ {m} : log'[n] = log[n],
           UNCHANGED <<delivery, route, called, resent, marks, events>>,
           Grown(m), CallOK(c, s, message', log', called, marks),
           MessageOK(message'[m], log'[m], called[m], resent[m], marks[m]),
           message[m].claim = c
    PROVE  ReachInv'
<1>1. ~Sends(s)
  BY DEF Sends
<1>2. /\ marks' \in [Messages -> SUBSET Mark] /\ \A n \in Messages : marks[n] \subseteq marks'[n]
      /\ events' \in 0..MaxEvents
  BY DEF ReachInv, TypeOK
<1>3. CallOK(c, s, message', log', called, marks')
      /\ MessageOK(message'[m], log'[m], called[m], resent[m], marks'[m])
  OBVIOUS
<1> QED BY <1>1, <1>2, <1>3, StoreStep

LEMMA RecordStep ==
    ASSUME ReachInv, NEW c \in Callers, Record(c)
    PROVE  ReachInv'
<1> DEFINE m == call[c].id
           status == StatusAfter(call[c].result, call[c].attempts + 1)
           s == IF call[c].batch # {} THEN Reporting(c, m, status) ELSE IdleCall
<1>1. /\ TypeOK /\ m \in Messages /\ call[c].step = "record" /\ call[c] \in Call
      /\ CallOK(c, call[c], message, log, called, marks) /\ call[c].attempts \in Nat
      /\ Recordable(c, m, call[c].attempts) /\ RecordAttempt(c, m, status)
      /\ UNCHANGED <<delivery, route, called, resent, marks, events>>
      /\ call' = [call EXCEPT ![c] = s]
  BY DEF ReachInv, TypeOK, Record, CallOK, CallShape, Call
<1>2. /\ status \in Outcomes
      /\ status = "delivered" => call[c].attempts \in called[m]
      /\ status = "retrying" => call[c].attempts + 1 < MaximumAttempts
  BY <1>1 DEF StatusAfter, Outcomes, CallOK, CallShape
<1>3. "adopted" \notin marks[m] => call[c].attempts < MaximumAttempts
  BY <1>1 DEF CallOK, CallLimit
<1> HIDE DEF status
<1>4. /\ message'[m] \in Message /\ message' = [message EXCEPT ![m] = message'[m]]
      /\ log' \in [Messages -> Seq(Outcomes)] /\ \A n \in Messages \ {m} : log'[n] = log[n]
      /\ Grown(m) /\ Has(log'[m], status)
      /\ MessageOK(message'[m], log'[m], called[m], resent[m], marks[m])
  BY <1>1, <1>2, <1>3, RecordedIs
<1>5. s \in Call /\ s.step \in {"idle", "report"}
  BY <1>1, ReportingIs, ConstantsTyped
<1>6. status \notin {"delivered", "retrying"} => status = "failed"
  BY <1>2 DEF Outcomes
<1>7. CallOK(c, s, message', log', called, marks)
  <2>1. CASE call[c].batch # {}
    <3>1. CallOK(c, Reporting(c, m, status), message', log', called, marks)
      BY <1>1, <1>4, <1>6, ReportingOK
    <3> QED BY <2>1, <3>1
  <2>2. CASE call[c].batch = {}
    BY <2>2, IdleOK
  <2> QED BY <2>1, <2>2
<1>8. message[m].claim = c
  BY <1>1 DEF Recordable
<1> HIDE DEF s
<1> QED BY <1>1, <1>4, <1>5, <1>7, <1>8, RecordingStep

LEMMA RecordUndeliverableStep ==
    ASSUME ReachInv, NEW c \in Callers, RecordUndeliverable(c)
    PROVE  ReachInv'
<1> DEFINE m == call[c].id
           s == Reporting(c, m, "failed")
<1>1. /\ TypeOK /\ m \in Messages /\ call[c].step = "rejected" /\ call[c] \in Call
      /\ UNCHANGED <<delivery, route, called, resent, marks, events>>
  BY DEF ReachInv, TypeOK, RecordUndeliverable, CallOK, CallShape, Call
<1>2. CASE ~Recordable(c, m, 0)
  BY <1>1, <1>2, EventTyped, ReturnStep DEF RecordUndeliverable
<1>3. CASE Recordable(c, m, 0)
  <2>1. RecordAttempt(c, m, "failed") /\ call' = [call EXCEPT ![c] = s]
    BY <1>3 DEF RecordUndeliverable
  <2>2. /\ message'[m] \in Message /\ message' = [message EXCEPT ![m] = message'[m]]
        /\ log' \in [Messages -> Seq(Outcomes)] /\ \A n \in Messages \ {m} : log'[n] = log[n]
        /\ Grown(m) /\ Has(log'[m], "failed")
        /\ MessageOK(message'[m], log'[m], called[m], resent[m], marks[m])
    BY <1>1, <1>3, <2>1, RecordedIs DEF Outcomes
  <2>3. s \in Call /\ s.step \in {"idle", "report"}
    BY <1>1, ReportingIs
  <2>4. CallOK(c, s, message', log', called, marks)
    BY <1>1, <2>2, ReportingOK
  <2>5. message[m].claim = c
    BY <1>3 DEF Recordable
  <2> HIDE DEF s
  <2> QED BY <1>1, <2>1, <2>2, <2>3, <2>4, <2>5, RecordingStep
<1> QED BY <1>2, <1>3

(* Only one call is about to send an attempt, and it was not sent before. *)
LEMMA CallProviderStep ==
    ASSUME ReachInv, NEW c \in Callers, NEW r \in Results, CallProvider(c, r)
    PROVE  ReachInv'
<1> DEFINE m == call[c].id
           k == call[c].attempts
           s == [call[c] EXCEPT !.step = "record", !.result = r]
<1>1. /\ TypeOK /\ call \in [Callers -> Call] /\ call[c] \in Call /\ m \in Messages
      /\ CallOK(c, call[c], message, log, called, marks) /\ k \in Nat
      /\ Sends(call[c]) /\ AtWork(call[c]) /\ call[c].step = "result"
      /\ called \in [Messages -> SUBSET Nat] /\ resent \in [Messages -> SUBSET Nat]
      /\ called' = [called EXCEPT ![m] = called[m] \cup {k}]
      /\ resent' = [resent EXCEPT ![m] = resent[m] \cup (called[m] \cap {k})]
      /\ UNCHANGED <<message, log, delivery, route, marks, events>>
  BY DEF ReachInv, TypeOK, CallProvider, CallOK, CallShape, Call, Sends, AtWork
<1>2. call' = [call EXCEPT ![c] = s]
  BY <1>1 DEF CallProvider
<1>3. /\ s \in Call /\ s.step = "record" /\ s.id = m /\ s.attempts = k
  BY <1>1 DEF Call, Steps
<1> HIDE DEF s
<1>4. /\ called'[m] = called[m] \cup {k} /\ resent'[m] = resent[m] \cup (called[m] \cap {k})
      /\ \A n \in Messages \ {m} : called'[n] = called[n] /\ resent'[n] = resent[n]
      /\ called' \in [Messages -> SUBSET Nat] /\ resent' \in [Messages -> SUBSET Nat]
  <2>1. called[m] \cup {k} \in SUBSET Nat /\ resent[m] \cup (called[m] \cap {k}) \in SUBSET Nat
    BY <1>1
  <2> HIDE DEF m, k
  <2> QED BY <1>1, <2>1
<1>5. TypeOK'
  <2>1. call' \in [Callers -> Call]
    BY <1>1, <1>2, <1>3
  <2> QED BY <1>1, <1>4, <2>1 DEF TypeOK
<1>6. ASSUME NEW n \in Messages PROVE Grown(n)
  <2>1. message[n].attempts \in Nat
    BY <1>1 DEF TypeOK, Message
  <2>2. called[n] \subseteq called'[n]
    BY <1>1, <1>4
  <2> QED BY <1>1, <2>1, <2>2 DEF Grown
<1>7. ASSUME NEW d \in Callers \ {c} PROVE Undisturbed(d)
  <2>1. CallOK(d, call[d], message, log, called, marks)
    BY DEF ReachInv
  <2>2. Sends(call[d]) => call[d].id \in Messages
    BY <2>1 DEF CallOK, CallShape, Sends
  <2>3. Sends(call[d]) /\ call[d].id = m /\ "blind" \notin marks[m] => call[d].attempts # k
    BY <1>1 DEF ReachInv, Alone
  <2>4. Sends(call[d]) /\ "blind" \notin marks[call[d].id] =>
           call[d].attempts \notin called[call[d].id]
    BY <2>1 DEF CallOK, CallSend
  <2>5. Sends(call[d]) /\ "blind" \notin marks[call[d].id] =>
           call[d].attempts \notin called'[call[d].id]
    BY <1>4, <2>2, <2>3, <2>4
  <2>6. CallSend(call[d], called', marks')
    BY <1>1, <2>5 DEF CallSend
  <2> QED BY <1>1, <2>6 DEF Undisturbed
<1>8. CallOK(c, s, message', log', called', marks')
  <2>1. CallShape(s, called')
    BY <1>1, <1>3, <1>4 DEF CallShape
  <2>2. CallClaim(c, s, message', marks')
    BY <1>1, <1>3 DEF CallOK, CallClaim, AtWork
  <2>3. CallLimit(s, marks')
    BY <1>1, <1>3 DEF CallOK, CallLimit
  <2>4. CallSend(s, called', marks') /\ CallReport(s, message', log')
    BY <1>3 DEF CallSend, CallReport, Sends
  <2> QED BY <2>1, <2>2, <2>3, <2>4 DEF CallOK
<1>9. ASSUME NEW n \in Messages
      PROVE  MessageOK(message'[n], log'[n], called'[n], resent'[n], marks'[n])
  <2>1. MessageOK(message[n], log[n], called[n], resent[n], marks[n])
    BY DEF ReachInv
  <2>2. CASE n # m
    BY <1>1, <1>4, <2>1, <2>2
  <2>3. CASE n = m
    <3>1. k <= message[m].attempts /\ (k = message[m].attempts => message[m].claim # NoOne)
      BY <1>1 DEF CallOK, CallClaim
    <3>2. "blind" \notin marks[m] => k \notin called[m]
      BY <1>1 DEF CallOK, CallSend
    <3>3. MessageBase(message[m], log[m], called'[m])
      BY <1>4, <2>1, <2>3, <3>1 DEF MessageOK, MessageBase
    <3>4. MessageSent(message[m], called'[m], resent'[m], marks[m])
      <4>1. ASSUME "blind" \notin marks[m]
            PROVE  resent'[m] = {} /\ (message[m].attempts \in called'[m] => message[m].claim # NoOne)
        <5>1. resent[m] = {} /\ (message[m].attempts \in called[m] => message[m].claim # NoOne)
          BY <2>1, <2>3, <4>1 DEF MessageOK, MessageSent
        <5>2. called[m] \cap {k} = {}
          BY <3>2, <4>1
        <5> QED BY <1>4, <3>1, <5>1, <5>2
      <4> QED BY <4>1 DEF MessageSent
    <3> QED BY <1>1, <2>1, <2>3, <3>3, <3>4 DEF MessageOK
  <2> QED BY <2>2, <2>3
<1>10. ~Sends(s)
  BY <1>3 DEF Sends
<1> QED BY <1>1, <1>2, <1>5, <1>6, <1>7, <1>8, <1>9, <1>10, CallStep

-----------------------------------------------------------------------------
(* The deliveries of Signals.                                              *)

(* What a report makes of the delivery agrees with what Reach has stored. *)
LEMMA UpdateDeliveryStep ==
    ASSUME ReachInv, NEW c \in Callers, UpdateDelivery(c)
    PROVE  ReachInv'
<1> DEFINE m == call[c].id
           status == DeliveryAfter(call[c].result, call[c].tries + 1)
           del == [status |-> status, attempts |-> call[c].tries + 1,
                   wait |-> (status = "pending")]
           rest == call[c].batch \ {m}
           s == IF rest = {} THEN IdleCall
                ELSE [IdleCall EXCEPT !.step = "next", !.batch = rest]
<1>1. /\ TypeOK /\ call \in [Callers -> Call] /\ call[c] \in Call /\ call[c].step = "update"
      /\ CallOK(c, call[c], message, log, called, marks) /\ m \in Signals /\ m \in Messages
      /\ delivery \in [Signals -> Delivery] /\ call[c].tries \in Nat /\ rest \in SUBSET Signals
      /\ delivery' = [delivery EXCEPT ![m] = del] /\ call' = [call EXCEPT ![c] = s]
      /\ IF call[c].batch = {} THEN Befell(m, "outside") ELSE UNCHANGED marks
      /\ UNCHANGED <<message, log, route, called, resent, events>>
  BY DEF ReachInv, TypeOK, UpdateDelivery, Continue, CallOK, CallShape, Call, Messages
<1>2. /\ marks' \in [Messages -> SUBSET Mark] /\ \A n \in Messages : marks[n] \subseteq marks'[n]
      /\ call[c].batch = {} => "outside" \in marks'[m]
  BY <1>1, BefellGrows DEF Mark
<1>3. /\ status \in {"pending", "delivered", "failed"} /\ (status = "pending") \in BOOLEAN
      /\ status = "delivered" => call[c].result = "succeeded"
      /\ status = "failed" /\ call[c].tries + 1 < MaximumAttempts => call[c].result = "permanent"
  BY <1>1 DEF DeliveryAfter, Call, Results
<1> HIDE DEF status
<1>4. /\ del \in Delivery /\ del.status = status /\ del.attempts = call[c].tries + 1
  BY <1>1, <1>3 DEF Delivery
<1>5. /\ s \in Call /\ s.step \in {"idle", "next"} /\ (s.step = "idle" => s = IdleCall)
      /\ s.attempts = 0
  BY <1>1, ConstantsTyped DEF IdleCall, Call, Steps
<1> HIDE DEF s, del, rest
<1>6. /\ delivery'[m] = del /\ \A n \in Signals \ {m} : delivery'[n] = delivery[n]
      /\ delivery' \in [Signals -> Delivery] /\ call' \in [Callers -> Call]
  BY <1>1, <1>4, <1>5
<1>7. TypeOK'
  BY <1>1, <1>2, <1>6 DEF TypeOK
<1>8. ASSUME NEW n \in Signals PROVE DeliveryOK(delivery'[n], message'[n], log'[n], marks'[n])
  <2>1. DeliveryOK(delivery[n], message[n], log[n], marks[n]) /\ n \in Messages
    BY DEF ReachInv, Messages
  <2>2. CASE n # m
    BY <1>1, <1>2, <1>6, <2>1, <2>2 DEF DeliveryOK
  <2>3. CASE n = m /\ call[c].batch = {}
    BY <1>2, <2>3 DEF DeliveryOK
  <2>4. CASE n = m /\ call[c].batch # {}
    <3>1. /\ call[c].result = "succeeded" => Has(log[m], "delivered")
          /\ call[c].result = "permanent" => Has(log[m], "failed") \/ Unrouted(message[m])
      BY <1>1, <2>4 DEF CallOK, CallReport
    <3> QED BY <1>1, <1>3, <1>4, <1>6, <2>4, <3>1 DEF DeliveryOK
  <2> QED BY <2>2, <2>3, <2>4
<1>9. ASSUME NEW n \in Messages PROVE Grown(n)
  <2>1. message[n].attempts \in Nat
    BY <1>1 DEF TypeOK, Message
  <2> QED BY <1>1, <1>2, <2>1 DEF Grown
<1>10. ASSUME NEW d \in Callers PROVE Undisturbed(d)
  <2>1. CallOK(d, call[d], message, log, called, marks)
    BY DEF ReachInv
  <2>2. Sends(call[d]) => call[d].id \in Messages
    BY <2>1 DEF CallOK, CallShape, Sends
  <2>3. CallSend(call[d], called', marks')
    BY <1>1, <1>2, <2>1, <2>2 DEF CallOK, CallSend
  <2> QED BY <1>1, <2>3 DEF Undisturbed
<1>11. CallOK(c, s, message', log', called', marks') /\ ~Sends(s)
  BY <1>5 DEF CallOK, CallShape, CallClaim, CallSend, CallLimit, CallReport, AtWork, Sends
<1>12. ASSUME NEW n \in Messages
       PROVE  MessageOK(message'[n], log'[n], called'[n], resent'[n], marks'[n])
  <2>1. MessageOK(message[n], log[n], called[n], resent[n], marks[n]) /\ marks[n] \subseteq marks'[n]
    BY <1>2 DEF ReachInv
  <2>2. MessageOK(message[n], log[n], called[n], resent[n], marks'[n])
    BY <2>1, MessageMarked
  <2> QED BY <1>1, <2>2
<1> QED BY <1>1, <1>5, <1>7, <1>8, <1>9, <1>10, <1>11, <1>12, AnyCallStep

-----------------------------------------------------------------------------
(* The environment.                                                        *)

(* A claim turns stale, or the next attempt of a message is due. *)
LEMMA ClockStep ==
    ASSUME ReachInv, NEW m \in Messages, ClaimExpires(m) \/ MessageDue(m)
    PROVE  ReachInv'
<1>1. /\ TypeOK /\ message \in [Messages -> Message] /\ message[m] \in Message
      /\ UNCHANGED <<log, delivery, route, call, called, resent, events>>
  BY DEF ReachInv, TypeOK, ClaimExpires, MessageDue
<1>2. PICK new \in Message :
         /\ message' = [message EXCEPT ![m] = new]
         /\ new.status = message[m].status /\ new.attempts = message[m].attempts
         /\ new.claim = message[m].claim /\ new.routed = message[m].routed
         /\ new.wait => message[m].wait
         /\ MessageDue(m) => new.stale = message[m].stale
  <2>1. CASE ClaimExpires(m)
    <3> DEFINE new == [message[m] EXCEPT !.stale = TRUE]
    <3>1. message' = [message EXCEPT ![m] = new]
      BY <1>1, <2>1 DEF ClaimExpires
    <3>2. /\ new \in Message /\ new.status = message[m].status
          /\ new.attempts = message[m].attempts /\ new.claim = message[m].claim
          /\ new.routed = message[m].routed /\ new.wait = message[m].wait
      BY <1>1 DEF Message
    <3>3. ~MessageDue(m)
      <4>1. SUFFICES ASSUME MessageDue(m) PROVE FALSE
        OBVIOUS
      <4>2. message' = [message EXCEPT ![m] = [message[m] EXCEPT !.wait = FALSE]]
        BY <1>1, <4>1 DEF MessageDue
      <4>3. message'[m].wait = FALSE /\ message[m].wait
        BY <1>1, <4>1, <4>2 DEF MessageDue, Message
      <4>4. message'[m].wait = message[m].wait
        BY <1>1, <3>1, <3>2
      <4> QED BY <4>3, <4>4
    <3> HIDE DEF new
    <3> QED BY <3>1, <3>2, <3>3
  <2>2. CASE MessageDue(m)
    <3> DEFINE new == [message[m] EXCEPT !.wait = FALSE]
    <3>1. message' = [message EXCEPT ![m] = new]
      BY <1>1, <2>2 DEF MessageDue
    <3>2. /\ new \in Message /\ new.status = message[m].status
          /\ new.attempts = message[m].attempts /\ new.claim = message[m].claim
          /\ new.routed = message[m].routed /\ ~new.wait /\ new.stale = message[m].stale
      BY <1>1 DEF Message
    <3> HIDE DEF new
    <3> QED BY <3>1, <3>2
  <2> QED BY <2>1, <2>2
<1>3. /\ message'[m] = new /\ \A n \in Messages \ {m} : message'[n] = message[n]
      /\ message' \in [Messages -> Message]
  BY <1>1, <1>2
<1>4. /\ marks' \in [Messages -> SUBSET Mark] /\ \A n \in Messages : marks[n] \subseteq marks'[n]
      /\ (\E c \in Callers : Sending(c, m)) => MessageDue(m) \/ "overran" \in marks'[m]
  <2>1. CASE MessageDue(m)
    BY <1>1, <2>1 DEF MessageDue, TypeOK
  <2>2. CASE ClaimExpires(m)
    <3>1. IF \E c \in Callers : Sending(c, m) THEN Befell(m, "overran") ELSE UNCHANGED marks
      BY <2>2 DEF ClaimExpires
    <3>2. "overran" \in Mark
      BY DEF Mark
    <3> QED BY <1>1, <3>1, <3>2, BefellGrows
  <2> QED BY <2>1, <2>2
<1>5. TypeOK'
  BY <1>1, <1>3, <1>4 DEF TypeOK
<1>6. ASSUME NEW n \in Messages PROVE Grown(n)
  <2>1. message[n].attempts \in Nat
    BY <1>1 DEF TypeOK, Message
  <2>2. CASE n = m
    BY <1>1, <1>2, <1>3, <1>4, <2>1, <2>2 DEF Grown, Unrouted
  <2>3. CASE n # m
    BY <1>1, <1>3, <1>4, <2>1, <2>3 DEF Grown
  <2> QED BY <2>2, <2>3
<1>7. ASSUME NEW d \in Callers PROVE Undisturbed(d)
  <2>1. CallOK(d, call[d], message, log, called, marks)
    BY DEF ReachInv
  <2>2. AtWork(call[d]) => call[d].id \in Messages
    BY <2>1 DEF CallOK, CallShape, AtWork
  <2>3. Sends(call[d]) => AtWork(call[d])
    BY DEF Sends, AtWork
  <2>4. CallSend(call[d], called', marks')
    BY <1>1, <1>4, <2>1, <2>2, <2>3 DEF CallOK, CallSend
  <2>5. CASE call[d].id # m
    BY <1>3, <2>2, <2>4, <2>5 DEF Undisturbed
  <2>6. CASE call[d].id = m
    <3>1. AtWork(call[d]) /\ message[m].claim = d => Sending(d, m)
      BY <2>6 DEF AtWork, Sending
    <3>2. AtWork(call[d]) /\ message[m].claim = d /\ "overran" \notin marks'[m] => MessageDue(m)
      BY <1>4, <3>1
    <3> QED BY <1>2, <1>3, <2>4, <2>6, <3>2 DEF Undisturbed
  <2> QED BY <2>5, <2>6
<1>8. ASSUME NEW n \in Messages
      PROVE  MessageOK(message'[n], log'[n], called'[n], resent'[n], marks'[n])
  <2>1. MessageOK(message[n], log[n], called[n], resent[n], marks[n]) /\ marks[n] \subseteq marks'[n]
    BY <1>4 DEF ReachInv
  <2>2. MessageOK(message[n], log[n], called[n], resent[n], marks'[n])
    BY <2>1, MessageMarked
  <2>3. CASE n # m
    BY <1>1, <1>3, <2>2, <2>3
  <2>4. CASE n = m
    <3>1. MessageBase(new, log[m], called[m])
      BY <1>2, <2>2, <2>4 DEF MessageOK, MessageBase
    <3>2. MessageSent(new, called[m], resent[m], marks'[m]) /\ MessageLimit(new, marks'[m])
      BY <1>2, <2>2, <2>4 DEF MessageOK, MessageSent, MessageLimit
    <3> QED BY <1>1, <1>3, <2>4, <3>1, <3>2 DEF MessageOK
  <2> QED BY <2>3, <2>4
<1>9. ASSUME NEW n \in Signals PROVE DeliveryOK(delivery'[n], message'[n], log'[n], marks'[n])
  <2>1. n \in Messages /\ DeliveryOK(delivery[n], message[n], log[n], marks[n])
    BY DEF ReachInv, Messages
  <2> QED BY <1>1, <1>6, <2>1, DeliveryKept
<1> QED BY <1>1, <1>5, <1>6, <1>7, <1>8, <1>9, OutsideStep

(* A delivery is due or deleted, or the target of one changes. *)
LEMMA DeliveryStep ==
    ASSUME ReachInv, NEW m \in Signals, DeliveryDue(m) \/ DeleteSubscription(m) \/ ChangeRoute(m)
    PROVE  ReachInv'
<1>1. /\ TypeOK /\ delivery \in [Signals -> Delivery] /\ delivery[m] \in Delivery
      /\ UNCHANGED <<message, log, call, called, resent, marks>>
      /\ Event \/ UNCHANGED events
  BY DEF ReachInv, TypeOK, DeliveryDue, DeleteSubscription, ChangeRoute
<1>2. route' \in [Signals -> BOOLEAN]
  BY <1>1 DEF TypeOK, DeliveryDue, DeleteSubscription, ChangeRoute
<1>3. PICK new \in Delivery :
         /\ delivery' = [delivery EXCEPT ![m] = new]
         /\ new.status # "absent" => new.status = delivery[m].status
                                     /\ new.attempts = delivery[m].attempts
  <2>1. CASE DeliveryDue(m)
    <3> DEFINE new == [delivery[m] EXCEPT !.wait = FALSE]
    <3>1. delivery' = [delivery EXCEPT ![m] = new]
      BY <1>1, <2>1 DEF DeliveryDue
    <3>2. /\ new \in Delivery /\ new.status = delivery[m].status
          /\ new.attempts = delivery[m].attempts
      BY <1>1 DEF Delivery
    <3> HIDE DEF new
    <3> QED BY <3>1, <3>2
  <2>2. CASE DeleteSubscription(m)
    <3> DEFINE new == [status |-> "absent", attempts |-> 0, wait |-> FALSE]
    <3>1. delivery' = [delivery EXCEPT ![m] = new]
      BY <2>2 DEF DeleteSubscription
    <3>2. new \in Delivery /\ new.status = "absent"
      BY DEF Delivery
    <3> HIDE DEF new
    <3> QED BY <3>1, <3>2
  <2>3. CASE ChangeRoute(m)
    <3>1. delivery' = [delivery EXCEPT ![m] = delivery[m]]
      BY <1>1, <2>3 DEF ChangeRoute
    <3> QED BY <1>1, <3>1
  <2> QED BY <2>1, <2>2, <2>3
<1>4. /\ delivery'[m] = new /\ \A n \in Signals \ {m} : delivery'[n] = delivery[n]
      /\ delivery' \in [Signals -> Delivery]
  BY <1>1, <1>3
<1>5. events' \in 0..MaxEvents
  BY <1>1, EventTyped
<1>6. TypeOK'
  BY <1>1, <1>2, <1>4, <1>5 DEF TypeOK
<1>7. ASSUME NEW n \in Messages PROVE Grown(n)
  <2>1. message[n].attempts \in Nat
    BY <1>1 DEF TypeOK, Message
  <2> QED BY <1>1, <2>1 DEF Grown
<1>8. ASSUME NEW d \in Callers PROVE Undisturbed(d)
  <2>1. CallSend(call[d], called, marks)
    BY DEF ReachInv, CallOK
  <2> QED BY <1>1, <2>1 DEF Undisturbed
<1>9. ASSUME NEW n \in Messages
      PROVE  MessageOK(message'[n], log'[n], called'[n], resent'[n], marks'[n])
  BY <1>1 DEF ReachInv
<1>10. ASSUME NEW n \in Signals PROVE DeliveryOK(delivery'[n], message'[n], log'[n], marks'[n])
  <2>1. DeliveryOK(delivery[n], message[n], log[n], marks[n])
    BY DEF ReachInv
  <2>2. CASE n # m
    BY <1>1, <1>4, <2>1, <2>2
  <2>3. CASE n = m
    BY <1>1, <1>3, <1>4, <2>1, <2>3 DEF DeliveryOK
  <2> QED BY <2>2, <2>3
<1> QED BY <1>1, <1>6, <1>7, <1>8, <1>9, <1>10, OutsideStep

-----------------------------------------------------------------------------
LEMMA ReachStep ==
    ASSUME ReachInv, [Next]_vars
    PROVE  ReachInv'
<1>1. CASE UNCHANGED vars
  BY <1>1 DEF vars, ReachInv, TypeOK, Alone
<1>2. ASSUME NEW c \in Callers, Operate(c) PROVE ReachInv'
  <2>1. Manual \subseteq Messages
    BY DEF Messages
  <2> QED BY <1>2, <2>1, SendStep, RedispatchStep, RecordSignalDeliveryAttemptStep DEF Operate
<1>3. ASSUME NEW c \in Callers, Process(c) PROVE ReachInv'
  <2>1. ASSUME NEW m \in Signals, FindMissing(c, m) \/ ReportExisting(c, m) \/ Redispatch(c, m)
        PROVE  ReachInv'
    <3>1. m \in Messages
      BY DEF Messages
    <3> QED BY <2>1, <3>1, ListStep, ReportExistingStep, RedispatchStep
  <2>2. ASSUME FindUnrouted(c) PROVE ReachInv'
    <3>1. call[c].id \in Messages
      BY <2>2 DEF ReachInv, CallOK, CallShape, FindUnrouted
    <3> QED BY <2>2, <3>1, ReportExistingStep
  <2> QED BY <1>3, <2>1, <2>2, ListStep, CreateRoutedStep, CreateUnroutedStep, ReturnsStep,
             ClaimUndeliverableStep, RecordUndeliverableStep DEF Process
<1>4. ASSUME NEW c \in Callers, Dispatch(c) PROVE ReachInv'
  BY <1>4, ClaimStep, ReturnsStep, LocalResultStep, CallProviderStep, RecordStep DEF Dispatch
<1>5. ASSUME NEW c \in Callers, RecordDeliveryAttempt(c) PROVE ReachInv'
  BY <1>5, ReadDeliveryStep, UpdateDeliveryStep, ReturnsStep DEF RecordDeliveryAttempt
<1>6. ASSUME Environment PROVE ReachInv'
  <2>1. Signals \subseteq Messages
    BY DEF Messages
  <2> QED BY <1>6, <2>1, ClockStep, DeliveryStep, ReturnsStep DEF Environment
<1> QED BY <1>1, <1>2, <1>3, <1>4, <1>5, <1>6 DEF Next

LEMMA ReachInit ==
    ASSUME Init
    PROVE  ReachInv
<1>1. TypeOK
  <2>1. message \in [Messages -> Message] /\ call \in [Callers -> Call]
    BY ConstantsTyped DEF Init
  <2>2. log \in [Messages -> Seq({"retrying", "delivered", "failed"})]
    BY DEF Init
  <2>3. delivery \in [Signals -> Delivery]
    BY DEF Init, Delivery
  <2>4. /\ route \in [Signals -> BOOLEAN] /\ called \in [Messages -> SUBSET Nat]
        /\ resent \in [Messages -> SUBSET Nat] /\ marks \in [Messages -> SUBSET Mark]
        /\ events \in 0..MaxEvents
    BY DEF Init
  <2> QED BY <2>1, <2>2, <2>3, <2>4 DEF TypeOK
<1>2. ASSUME NEW c \in Callers PROVE CallOK(c, call[c], message, log, called, marks)
  <2>1. call[c] = IdleCall
    BY DEF Init
  <2> QED BY <2>1, IdleOK
<1>3. ASSUME NEW m \in Messages
      PROVE  MessageOK(message[m], log[m], called[m], resent[m], marks[m])
  <2>1. /\ message[m] = AbsentMessage /\ log[m] = <<>> /\ called[m] = {} /\ resent[m] = {}
    BY DEF Init
  <2>2. /\ AbsentMessage.attempts = 0 /\ AbsentMessage.status = "absent"
        /\ AbsentMessage.claim = NoOne /\ ~AbsentMessage.wait
    BY DEF AbsentMessage
  <2> QED BY <2>1, <2>2 DEF MessageOK, MessageBase, MessageSent, MessageLimit
<1>4. ASSUME NEW m \in Signals PROVE DeliveryOK(delivery[m], message[m], log[m], marks[m])
  <2>1. delivery[m].status = "pending"
    BY DEF Init
  <2> QED BY <2>1 DEF DeliveryOK
<1>5. Alone
  <2>1. \A c \in Callers : call[c].step = "idle"
    BY ConstantsTyped DEF Init
  <2> QED BY <2>1 DEF Alone, Sends
<1> QED BY <1>1, <1>2, <1>3, <1>4, <1>5 DEF ReachInv

-----------------------------------------------------------------------------
(* The inductive invariant holds for any number of messages, deliveries and *)
(* concurrent calls of Send, Retry, ProcessSignals and REST clients, which  *)
(* may end early and outlive their claims.                                  *)
THEOREM ReachInvariant == Spec => []ReachInv
BY ReachInit, ReachStep, PTL DEF Spec

(* Every reachable state of messages, deliveries and calls is well typed.   *)
THEOREM ReachTypeCorrect == Spec => []TypeOK
<1>1. ReachInv => TypeOK
  BY DEF ReachInv
<1> QED BY <1>1, ReachInvariant, PTL

(* The stored attempts are those the message counts, and the last of them   *)
(* gave the message its status: RecordAttempt never loses, repeats or       *)
(* misplaces an attempt, whatever calls die, overlap or outlive claims.     *)
THEOREM LogsAgree == Spec => []LogAgrees
<1>1. ReachInv => LogAgrees
  BY DEF ReachInv, LogAgrees, MessageOK, MessageBase
<1> QED BY <1>1, ReachInvariant, PTL

(* A message is marked delivered only for an attempt whose provider call    *)
(* was made, also when calls overlap or outlive their claims.               *)
THEOREM DeliveriesWereCalled == Spec => []DeliveredWasCalled
<1>1. ReachInv => DeliveredWasCalled
  BY DEF ReachInv, DeliveredWasCalled, MessageOK, MessageBase
<1> QED BY <1>1, ReachInvariant, PTL

(* A call that sends or records holds the live claim of its message, until  *)
(* the claim turns stale under a call that is still at work.                *)
THEOREM ClaimsAreExclusive == Spec => []CallsUnderClaim
<1>1. ASSUME ReachInv PROVE CallsUnderClaim
  BY <1>1 DEF ReachInv, CallsUnderClaim, CallOK, CallClaim, AtWork
<1> QED BY <1>1, ReachInvariant, PTL

(* No attempt calls the provider twice, through any number of early ends,   *)
(* takeovers and concurrent calls, unless a call that read the message      *)
(* before its claim turned stale takes that claim over.                     *)
THEOREM NoAttemptIsResent == Spec => []OneCallPerAttempt
<1>1. ReachInv => OneCallPerAttempt
  BY DEF ReachInv, OneCallPerAttempt, MessageOK, MessageSent
<1> QED BY <1>1, ReachInvariant, PTL

(* No message counts more attempts than the limit, unless ProcessSignals    *)
(* dispatched it although CreateMessage had returned it as terminal.        *)
THEOREM AttemptsAreBounded == Spec => []AttemptsBounded
<1>1. ReachInv => AttemptsBounded
  BY DEF ReachInv, AttemptsBounded, MessageOK, MessageLimit
<1> QED BY <1>1, ReachInvariant, PTL

(* Signals says delivered only for what Reach has delivered or a REST       *)
(* client has reported, with any number of ProcessSignals calls at once.    *)
THEOREM SignalsFollowReach == Spec => []SignalsDelivered
<1>1. ASSUME ReachInv PROVE SignalsDelivered
  BY <1>1 DEF ReachInv, SignalsDelivered, DeliveryOK, Ended, Has
<1> QED BY <1>1, ReachInvariant, PTL

(* Before its own attempts are used up, Signals gives up only after Reach   *)
(* has stored a terminal failure, the target did not resolve, or a REST     *)
(* client said so.                                                          *)
THEOREM GivingUpFollowsFailure == Spec => []GivenUpAfterFailure
<1>1. ASSUME ReachInv PROVE GivenUpAfterFailure
  BY <1>1 DEF ReachInv, GivenUpAfterFailure, DeliveryOK, Ended, Has, Unrouted
<1> QED BY <1>1, ReachInvariant, PTL

(* One step of any call or clock leaves a delivered message as it is. *)
LEMMA DeliveredStep ==
    ASSUME ReachInv, Next, NEW m \in Messages, message[m].status = "delivered",
           "adopted" \notin marks[m]
    PROVE  message'[m] = message[m] /\ log'[m] = log[m]
<1>1. /\ message \in [Messages -> Message] /\ log \in [Messages -> Seq(Outcomes)]
      /\ message[m].claim = NoOne /\ ~message[m].wait
  BY DEF ReachInv, TypeOK, MessageOK, MessageBase, MessageLimit, Outcomes
<1>2. ASSUME NEW n \in Messages, n # m, NEW msg, message' = [message EXCEPT ![n] = msg]
      PROVE  message'[m] = message[m]
  BY <1>1, <1>2
<1>3. ASSUME NEW c \in Callers, Claim(c)
      PROVE  message'[m] = message[m] /\ log'[m] = log[m]
  <2>1. /\ CallOK(c, call[c], message, log, called, marks) /\ call[c].step = "claim"
        /\ Claimable(message[call[c].id], call[c].status, call[c].attempts)
        /\ ClaimMessage(c, call[c].id) /\ log' = log
    BY <1>3 DEF ReachInv, Claim
  <2>2. call[c].id = m => call[c].status # "delivered"
    BY <2>1 DEF CallOK, CallLimit
  <2>3. call[c].id # m
    BY <2>1, <2>2 DEF Claimable
  <2> QED BY <1>1, <2>1, <2>3 DEF ClaimMessage
<1>4. ASSUME NEW c \in Callers, NEW n, NEW attempts, NEW status,
             Recordable(c, n, attempts), RecordAttempt(c, n, status)
      PROVE  message'[m] = message[m] /\ log'[m] = log[m]
  <2>1. n # m
    BY <1>1, <1>4 DEF Recordable
  <2> QED BY <1>1, <1>4, <2>1 DEF RecordAttempt
<1>5. ASSUME NEW c \in Callers, Operate(c)
      PROVE  message'[m] = message[m] /\ log'[m] = log[m]
  <2>1. ASSUME NEW n \in Messages, Send(c, n)
        PROVE  message'[m] = message[m] /\ log'[m] = log[m]
    BY <1>1, <2>1 DEF Send
  <2> QED BY <1>5, <2>1 DEF Operate, Retry, RecordSignalDeliveryAttempt
<1>6. ASSUME NEW c \in Callers, Process(c)
      PROVE  message'[m] = message[m] /\ log'[m] = log[m]
  <2>1. CASE CreateRouted(c)
    BY <1>1, <2>1 DEF CreateRouted
  <2>2. CASE CreateUnrouted(c)
    BY <1>1, <2>2 DEF CreateUnrouted
  <2>3. CASE ClaimUndeliverable(c)
    <3>1. log' = log
      BY <2>3 DEF ClaimUndeliverable
    <3>2. Claimable(message[call[c].id], "queued", 0) => call[c].id # m
      BY DEF Claimable
    <3> QED BY <1>1, <2>3, <3>1, <3>2 DEF ClaimUndeliverable, ClaimMessage
  <2>4. CASE RecordUndeliverable(c)
    BY <1>4, <2>4 DEF RecordUndeliverable
  <2>5. CASE ProcessSignals(c) \/ FindUnrouted(c) \/ CreateConflict(c)
             \/ \E n \in Signals : FindMissing(c, n) \/ ReportExisting(c, n) \/ Redispatch(c, n)
    BY <2>5 DEF ProcessSignals, FindUnrouted, CreateConflict, FindMissing, ReportExisting,
                Redispatch
  <2> QED BY <1>6, <2>1, <2>2, <2>3, <2>4, <2>5 DEF Process
<1>7. ASSUME NEW c \in Callers, Dispatch(c)
      PROVE  message'[m] = message[m] /\ log'[m] = log[m]
  <2>1. CASE Record(c)
    BY <1>4, <2>1 DEF Record
  <2> QED BY <1>3, <1>7, <2>1 DEF Dispatch, ClaimConflict, ProviderMissing, LocalResult,
                                  CallProvider, RecordConflict
<1>8. ASSUME NEW c \in Callers, RecordDeliveryAttempt(c)
      PROVE  message'[m] = message[m] /\ log'[m] = log[m]
  BY <1>8 DEF RecordDeliveryAttempt, ReadDelivery, UpdateDelivery, UpdateConflict
<1>9. ASSUME Environment
      PROVE  message'[m] = message[m] /\ log'[m] = log[m]
  <2>1. ASSUME NEW n \in Messages, ClaimExpires(n) \/ MessageDue(n)
        PROVE  message'[m] = message[m] /\ log'[m] = log[m]
    <3>1. n # m
      BY <1>1, <2>1 DEF ClaimExpires, MessageDue, LiveClaim
    <3> QED BY <1>1, <2>1, <3>1 DEF ClaimExpires, MessageDue
  <2>2. Signals \subseteq Messages
    BY DEF Messages
  <2> QED BY <1>9, <2>1, <2>2 DEF Environment, DeliveryDue, DeleteSubscription, ChangeRoute, Abort
<1> QED BY <1>5, <1>6, <1>7, <1>8, <1>9 DEF Next

(* A delivered message is never reopened, retried or recorded again, with   *)
(* any number of ProcessSignals calls and calls that outlive their claims,  *)
(* unless ProcessSignals dispatches one that CreateMessage returned as      *)
(* terminal.                                                                *)
THEOREM DeliveriesAreFinal == Spec => DeliveredIsFinal
<1> DEFINE Kept == \A m \in Messages :
                      message[m].status = "delivered" /\ "adopted" \notin marks[m] =>
                        message'[m] = message[m] /\ log'[m] = log[m]
<1>1. ReachInv /\ [Next]_vars => [Kept]_vars
  BY DeliveredStep
<1>2. Spec => []ReachInv /\ [][Next]_vars
  BY ReachInvariant DEF Spec
<1>3. []ReachInv /\ [][Next]_vars => [][Kept]_vars
  BY <1>1, PTL
<1>4. [][Kept]_vars => DeliveredIsFinal
  BY DEF DeliveredIsFinal
<1> QED BY <1>2, <1>3, <1>4
=============================================================================
