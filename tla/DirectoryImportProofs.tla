----------------------- MODULE DirectoryImportProofs -----------------------
(***************************************************************************)
(* Proofs about DirectoryImport, for any plan, any idempotency keys and    *)
(* any number of calls that work on a batch at once, crash, stall and are  *)
(* taken over.                                                             *)
(*                                                                         *)
(* Everything rests on the lease token: what a call has read and selected  *)
(* is still so while the token is its own, because only the call that has  *)
(* the token settles items and records mappings.                           *)
(***************************************************************************)
EXTENDS DirectoryImport, WellFoundedInduction, TLAPS

(* A call works on its selected items, on one of them, or still writes it.  *)
Working == {"target", "reconcile", "create", "register", "save"} \cup Undoing
Loop == {"item"} \cup Working
Reading == {"item", "target", "reconcile", "create", "register", "save"}

Open == {"pending", "failed"}

(* The plan is there whenever a call applies it: an apply needs a previewed *)
(* batch, and a batch whose preview failed is retried by a new preview.     *)
PlanInv ==
    /\ batch.status = "none" => batch.token = Nobody /\ ~ Planned
    /\ ~ Planned => \A i \in Items : items[i].outcome = "pending"
    /\ ~ Planned /\ batch.status # "none" => batch.retryable
    /\ batch.status = "previewed" => Planned
    /\ \A k \in Keys : attempts[<<"apply", k>>] = "pending" => Planned
    /\ \A w \in Workers :
          /\ worker[w].pc # "idle" => batch.status # "none"
          /\ worker[w].pc \in Loop \cup {"planned"} => Planned
          /\ worker[w].pc = "begin" /\ (worker[w].op = "apply" \/ ~ worker[w].preview) => Planned

(* What a call that has the token still has to do is not settled.           *)
TodoOK(k, its) ==
    /\ k.pc \in Reading => \A j \in k.todo : its[j].outcome \in Open
    /\ k.pc = "verify" => \A j \in k.todo \ {Min(k.todo)} : its[j].outcome \in Open

HolderInv ==
    \A w \in Workers :
        /\ worker[w].pc \in Working => worker[w].todo # {}
        /\ batch.token = w => TodoOK(worker[w], items)

ImportInv == TypeOK /\ PlanInv /\ HolderInv

-----------------------------------------------------------------------------
(* The next item of a call. *)

LEMMA LessThanRelates ==
    ASSUME NEW x \in Nat, NEW y \in Nat, x < y
    PROVE  <<x, y>> \in OpToRel(<, Nat)
<1>1. <<x, y>> \in {ss \in Nat \X Nat : ss[1] < ss[2]}
  OBVIOUS
<1> QED
  BY <1>1, Zenon DEF OpToRel

LEMMA MinIn ==
    ASSUME NEW S \in SUBSET Nat, S # {}
    PROVE  Min(S) \in S
<1> DEFINE R == OpToRel(<, Nat)
<1>1. IsWellFoundedOn(R, Nat)
  BY NatLessThanWellFounded
<1>2. ASSUME NEW x \in Nat, NEW y \in Nat, x < y PROVE <<x, y>> \in R
  BY <1>2, LessThanRelates
<1> HIDE DEF R
<1>3. PICK x \in S : \A y \in S : ~(<<y, x>> \in R)
  BY <1>1, WFMin
<1>4. ASSUME NEW y \in S PROVE x <= y
  <2>1. y \in Nat /\ x \in Nat /\ <<y, x>> \notin R
    BY <1>3
  <2>2. ~(y < x)
    BY <1>2, <2>1
  <2> QED
    BY <2>1, <2>2
<1> QED
  BY <1>4 DEF Min

LEMMA ItemIn ==
    ASSUME TypeOK, NEW w \in Workers, worker[w].todo # {}
    PROVE  /\ Item(w) = Min(worker[w].todo) /\ Item(w) \in worker[w].todo
           /\ Item(w) \in Items
<1>1. worker[w].todo \in SUBSET Items /\ worker[w].todo \in SUBSET Nat
  BY DirectoryAssumption DEF TypeOK, Calls
<1>2. Min(worker[w].todo) \in worker[w].todo
  BY <1>1, MinIn
<1> QED
  BY <1>1, <1>2 DEF Item

(* What is planned is planned for good. *)
LEMMA PlanIsPlanned ==
    ASSUME TypeOK
    PROVE  /\ Plan \in [Items -> Plans]
           /\ \A i \in Items : Plan[i].action # "unplanned" /\ Plan[i].outcome = "pending"
<1>1. \A i \in Items : PlannedAction(i) \in Actions \ {"unplanned"}
  BY DEF PlannedAction, Actions
<1>2. \A i \in Items : identity[i].rev \in Nat /\ identity[i].digest \in Digests
  BY DEF TypeOK, Identities
<1>3. \A i \in Items : Plan[i] = [action |-> PlannedAction(i), rev |-> identity[i].rev,
                                  digest |-> identity[i].digest, outcome |-> "pending"]
  BY DEF Plan
<1>4. ASSUME NEW i \in Items
      PROVE  Plan[i] \in Plans
  <2>1. /\ PlannedAction(i) \in Actions /\ identity[i].rev \in Nat
        /\ identity[i].digest \in Digests /\ "pending" \in Outcomes
    BY <1>1, <1>2 DEF Outcomes
  <2>2. [action |-> PlannedAction(i), rev |-> identity[i].rev,
         digest |-> identity[i].digest, outcome |-> "pending"] \in Plans
    BY <2>1 DEF Plans
  <2> QED
    BY <1>3, <2>2
<1>5. Plan = [i \in Items |-> Plan[i]]
  BY DEF Plan
<1> QED
  BY <1>1, <1>3, <1>4, <1>5

-----------------------------------------------------------------------------
(* What the call of a worker becomes. *)

LEMMA IdleTyped == Idle \in Calls /\ Idle.pc = "idle"
BY DEF Idle, Calls, NoIdentity, Identities, Digests, Ops, Outcomes

LEMMA GotoIs ==
    ASSUME TypeOK, NEW w \in Workers, NEW pc \in Loop \cup {"planned"}, Goto(w, pc)
    PROVE  \E s \in Calls :
               /\ worker' = [worker EXCEPT ![w] = s]
               /\ s = [worker[w] EXCEPT !.pc = pc]
               /\ s.pc = pc /\ s.todo = worker[w].todo /\ s.seen = worker[w].seen
               /\ s.outcome = worker[w].outcome /\ s.changed = worker[w].changed
<1> DEFINE s == [worker[w] EXCEPT !.pc = pc]
<1>1. worker[w] \in Calls /\ worker \in [Workers -> Calls]
  BY DEF TypeOK
<1>2. worker' = [worker EXCEPT ![w] = s]
  BY <1>1 DEF Goto
<1>3. /\ s \in Calls /\ s.pc = pc /\ s.todo = worker[w].todo /\ s.seen = worker[w].seen
      /\ s.outcome = worker[w].outcome /\ s.changed = worker[w].changed
  BY <1>1 DEF Calls, Loop, Working, Undoing
<1> QED
  BY <1>2, <1>3

LEMMA DecideIs ==
    ASSUME TypeOK, NEW w \in Workers, NEW outcome \in Outcomes, Decide(w, outcome)
    PROVE  \E s \in Calls :
               /\ worker' = [worker EXCEPT ![w] = s]
               /\ s.pc = "save" /\ s.todo = worker[w].todo /\ s.seen = worker[w].seen
               /\ s.outcome = outcome /\ s.changed = FALSE
<1> DEFINE s == [worker[w] EXCEPT !.pc = "save", !.outcome = outcome, !.changed = FALSE]
<1>1. worker[w] \in Calls /\ worker \in [Workers -> Calls]
  BY DEF TypeOK
<1>2. worker' = [worker EXCEPT ![w] = s]
  BY <1>1 DEF Decide
<1>3. /\ s \in Calls /\ s.pc = "save" /\ s.todo = worker[w].todo /\ s.seen = worker[w].seen
      /\ s.outcome = outcome /\ s.changed = FALSE
  BY <1>1 DEF Calls
<1> QED
  BY <1>2, <1>3

(* A write of the target, or its registration, is done. *)
LEMMA WrittenIs ==
    ASSUME TypeOK, NEW w \in Workers, NEW changed \in BOOLEAN,
           worker' = [worker EXCEPT ![w].pc = "register", ![w].changed = changed]
    PROVE  \E s \in Calls :
               /\ worker' = [worker EXCEPT ![w] = s]
               /\ s.pc = "register" /\ s.todo = worker[w].todo /\ s.seen = worker[w].seen
               /\ s.changed = changed
<1> DEFINE s == [worker[w] EXCEPT !.pc = "register", !.changed = changed]
<1>1. worker[w] \in Calls /\ worker \in [Workers -> Calls]
  BY DEF TypeOK
<1>2. worker' = [worker EXCEPT ![w] = s]
  BY <1>1
<1>3. /\ s \in Calls /\ s.pc = "register" /\ s.todo = worker[w].todo
      /\ s.seen = worker[w].seen /\ s.changed = changed
  BY <1>1 DEF Calls
<1> QED
  BY <1>2, <1>3

LEMMA AdvanceIs ==
    ASSUME TypeOK, NEW w \in Workers, Advance(w)
    PROVE  \E s \in Calls :
               /\ worker' = [worker EXCEPT ![w] = s]
               /\ s.pc = "item" /\ s.todo = worker[w].todo \ {Item(w)}
<1> DEFINE s == [worker[w] EXCEPT !.pc = "item", !.todo = worker[w].todo \ {Item(w)}]
<1>1. worker[w] \in Calls /\ worker \in [Workers -> Calls]
  BY DEF TypeOK
<1>2. worker' = [worker EXCEPT ![w] = s]
  BY <1>1 DEF Advance
<1>3. s \in Calls /\ s.pc = "item" /\ s.todo = worker[w].todo \ {Item(w)}
  BY <1>1 DEF Calls
<1> QED
  BY <1>2, <1>3

LEMMA ReturnIs ==
    ASSUME NEW w \in Workers, Return(w)
    PROVE  \E s \in Calls : worker' = [worker EXCEPT ![w] = s] /\ s.pc = "idle"
BY IdleTyped DEF Return

-----------------------------------------------------------------------------
(* Steps that leave the batch and the attempts alone. *)

(* The plan stands as it was; only outcomes of a complete plan change. *)
LEMMA PlanKept ==
    ASSUME ImportInv, UNCHANGED <<batch, attempts>>, NEW w \in Workers, NEW s \in Calls,
           worker' = [worker EXCEPT ![w] = s],
           \A i \in Items : items'[i].action = items[i].action,
           items' = items \/ Planned,
           s.pc = "idle" \/ (s.pc \in Loop /\ worker[w].pc \in Loop)
    PROVE  PlanInv'
<1>1. Planned' <=> Planned
  BY DEF Planned
<1>2. worker'[w] = s /\ \A u \in Workers : u # w => worker'[u] = worker[u]
  BY DEF ImportInv, TypeOK
<1>3. ~ Planned' => \A i \in Items : items'[i].outcome = "pending"
  BY <1>1 DEF ImportInv, PlanInv
<1>4. ASSUME NEW u \in Workers
      PROVE  /\ worker'[u].pc # "idle" => batch.status # "none"
             /\ worker'[u].pc \in Loop \cup {"planned"} => Planned'
             /\ worker'[u].pc = "begin" /\ (worker'[u].op = "apply" \/ ~ worker'[u].preview)
                => Planned'
  <2>1. CASE u = w
    BY <1>1, <1>2, <2>1 DEF ImportInv, PlanInv, Loop, Working, Undoing
  <2>2. CASE u # w
    BY <1>1, <1>2, <2>2 DEF ImportInv, PlanInv
  <2> QED
    BY <2>1, <2>2
<1> QED
  BY <1>1, <1>3, <1>4 DEF ImportInv, PlanInv

(* A step in which the call of w works on a target, returns or is cut off. *)
LEMMA PrivateStep ==
    ASSUME ImportInv, UNCHANGED store, NEW w \in Workers, NEW s \in Calls,
           worker' = [worker EXCEPT ![w] = s],
           identity' \in [Items -> Identities],
           ownership' \in [Items -> {"none", "locked", "claimed"}],
           faults' \in 0..MaxFaults,
           \/ s.pc = "idle"
           \/ /\ s.pc \in Working \ {"verify"} /\ worker[w].pc \in Loop
              /\ s.todo = worker[w].todo /\ s.todo # {}
              /\ s.pc \in Reading => worker[w].pc \in Reading
    PROVE  ImportInv'
<1>1. TypeOK /\ UNCHANGED <<batch, items, attempts, mappings>>
  BY DEF ImportInv, store
<1>2. TypeOK'
  BY <1>1 DEF TypeOK
<1>3. worker'[w] = s /\ \A u \in Workers : u # w => worker'[u] = worker[u]
  BY <1>1 DEF TypeOK
<1>4. PlanInv'
  BY <1>1, PlanKept DEF Loop
<1>5. ASSUME NEW u \in Workers
      PROVE  /\ worker'[u].pc \in Working => worker'[u].todo # {}
             /\ batch'.token = u => TodoOK(worker'[u], items')
  <2>1. CASE u # w
    BY <1>1, <1>3, <2>1 DEF ImportInv, HolderInv
  <2>2. CASE u = w
    <3>1. s.pc \in Working => s.todo # {}
      BY DEF Working, Undoing
    <3>2. batch.token = w => TodoOK(s, items)
      BY DEF ImportInv, HolderInv, TodoOK, Reading, Working
    <3> QED
      BY <1>1, <1>3, <2>2, <3>1, <3>2
  <2> QED
    BY <2>1, <2>2
<1> QED
  BY <1>2, <1>4, <1>5 DEF ImportInv, HolderInv

(* What holds when a call works on an item. *)
LEMMA AtWork ==
    ASSUME ImportInv, NEW w \in Workers, worker[w].pc \in Working
    PROVE  /\ TypeOK /\ worker[w] \in Calls /\ worker[w].todo # {} /\ Planned
           /\ Item(w) = Min(worker[w].todo) /\ Item(w) \in worker[w].todo /\ Item(w) \in Items
           /\ worker[w].pc \in Loop
           /\ MaxFaults \in Nat /\ faults \in Nat /\ faults <= MaxFaults
BY ItemIn, DirectoryAssumption DEF ImportInv, TypeOK, HolderInv, PlanInv, Loop

LEMMA FaultTyped == ASSUME TypeOK, Fault PROVE faults' \in 0..MaxFaults
BY DirectoryAssumption DEF TypeOK, Fault

LEMMA CrashStep ==
    ASSUME ImportInv, NEW w \in Workers, Crash(w)
    PROVE  ImportInv'
<1>1. TypeOK /\ UNCHANGED store /\ UNCHANGED target /\ faults' \in 0..MaxFaults
  BY FaultTyped DEF ImportInv, Crash
<1>2. PICK s \in Calls : worker' = [worker EXCEPT ![w] = s] /\ s.pc = "idle"
  BY ReturnIs DEF Crash
<1> QED
  BY <1>1, <1>2, PrivateStep DEF TypeOK, target

LEMMA NextItemStep ==
    ASSUME ImportInv, NEW w \in Workers, NextItem(w)
    PROVE  ImportInv'
<1>1. /\ TypeOK /\ UNCHANGED store /\ UNCHANGED <<identity, ownership>> /\ UNCHANGED faults
      /\ worker[w].pc = "item" /\ worker[w].todo # {} /\ worker[w] \in Calls
      /\ worker \in [Workers -> Calls] /\ Item(w) \in Items
  BY ItemIn DEF ImportInv, NextItem, TypeOK, target
<1>2. PICK s \in Calls : /\ worker' = [worker EXCEPT ![w] = s]
                         /\ s.pc \in {"save", "target"} /\ s.todo = worker[w].todo
  <2>1. CASE Decide(w, "conflict")
    BY <1>1, <2>1, DecideIs, ZenonT(60) DEF Outcomes
  <2>2. CASE worker' = [worker EXCEPT ![w].pc = "target", ![w].seen = identity[Item(w)]]
    <3> DEFINE s == [worker[w] EXCEPT !.pc = "target", !.seen = identity[Item(w)]]
    <3>1. identity[Item(w)] \in Identities
      BY <1>1 DEF TypeOK
    <3>2. worker' = [worker EXCEPT ![w] = s]
      BY <1>1, <2>2
    <3>3. s \in Calls /\ s.pc = "target" /\ s.todo = worker[w].todo
      BY <1>1, <3>1 DEF Calls
    <3> QED
      BY <3>2, <3>3
  <2> QED
    BY <2>1, <2>2 DEF NextItem
<1>3. s.pc \in Working \ {"verify"} /\ worker[w].pc \in Loop /\ worker[w].pc \in Reading
  BY <1>1, <1>2 DEF Working, Undoing, Loop, Reading
<1> QED
  BY <1>1, <1>2, <1>3, PrivateStep DEF TypeOK

(* The steps that write the target. *)
LEMMA TargetStep ==
    ASSUME ImportInv, NEW w \in Workers,
           \/ ApplyTarget(w) \/ Reconcile(w) \/ Create(w) \/ Register(w)
           \/ RegisterFails(w) \/ TargetFails(w)
    PROVE  ImportInv'
<1>1. /\ UNCHANGED store /\ worker[w].pc \in {"target", "reconcile", "create", "register"}
      /\ worker[w].pc \in Working /\ worker[w].pc \in Reading
  BY DEF ApplyTarget, Reconcile, Create, Register, RegisterFails, TargetFails, Working, Reading
<1>2. /\ TypeOK /\ worker[w].todo # {} /\ Item(w) \in Items /\ worker[w].pc \in Loop
      /\ worker[w] \in Calls /\ worker \in [Workers -> Calls]
      /\ identity \in [Items -> Identities]
      /\ ownership \in [Items -> {"none", "locked", "claimed"}] /\ faults \in 0..MaxFaults
  BY <1>1, AtWork DEF TypeOK
<1>3. identity' \in [Items -> Identities]
  <2>1. \A n \in Nat : [rev |-> n, digest |-> "new"] \in Identities
    BY DEF Identities, Digests
  <2>2. NoIdentity \in Identities /\ identity[Item(w)].rev + 1 \in Nat
    BY <1>2 DEF NoIdentity, Identities, Digests
  <2> QED
    BY <1>2, <2>1, <2>2 DEF ApplyTarget, Reconcile, Create, Register, RegisterFails,
       TargetFails, target
<1>4. ownership' \in [Items -> {"none", "locked", "claimed"}]
  BY <1>2 DEF ApplyTarget, Reconcile, Create, Register, RegisterFails, TargetFails, target
<1>5. faults' \in 0..MaxFaults
  BY <1>2, FaultTyped DEF ApplyTarget, Reconcile, Create, Register, RegisterFails, TargetFails
<1>6. \/ \E outcome \in Outcomes : Decide(w, outcome)
      \/ \E changed \in BOOLEAN :
             worker' = [worker EXCEPT ![w].pc = "register", ![w].changed = changed]
      \/ \E pc \in {"reconcile", "create"} : Goto(w, pc)
      \/ worker' = [worker EXCEPT ![w].pc = "save",
                       ![w].outcome = IF worker[w].changed THEN "applied" ELSE "unchanged"]
  BY DEF ApplyTarget, Reconcile, Create, Register, RegisterFails, TargetFails, Outcomes
<1>7. PICK s \in Calls : /\ worker' = [worker EXCEPT ![w] = s]
                         /\ s.pc \in {"save", "register", "reconcile", "create"}
                         /\ s.todo = worker[w].todo
  <2>1. CASE \E outcome \in Outcomes : Decide(w, outcome)
    BY <1>2, <2>1, DecideIs, ZenonT(60)
  <2>2. CASE \E changed \in BOOLEAN :
                 worker' = [worker EXCEPT ![w].pc = "register", ![w].changed = changed]
    BY <1>2, <2>2, WrittenIs
  <2>3. CASE \E pc \in {"reconcile", "create"} : Goto(w, pc)
    <3>1. {"reconcile", "create"} \subseteq Loop \cup {"planned"}
      BY DEF Loop, Working
    <3> QED
      BY <1>2, <2>3, <3>1, GotoIs
  <2>4. CASE worker' = [worker EXCEPT ![w].pc = "save",
                           ![w].outcome = IF worker[w].changed THEN "applied" ELSE "unchanged"]
    <3> DEFINE o == IF worker[w].changed THEN "applied" ELSE "unchanged"
               s == [worker[w] EXCEPT !.pc = "save", !.outcome = o]
    <3>1. o \in Outcomes
      BY DEF Outcomes
    <3> HIDE DEF o
    <3>2. worker' = [worker EXCEPT ![w] = s]
      BY <1>2, <2>4 DEF o
    <3>3. s \in Calls /\ s.pc = "save" /\ s.todo = worker[w].todo
      BY <1>2, <3>1 DEF Calls
    <3> QED
      BY <3>2, <3>3
  <2> QED
    BY <1>6, <2>1, <2>2, <2>3, <2>4
<1>8. s.pc \in Working \ {"verify"}
  BY <1>7 DEF Working, Undoing
<1> QED
  BY <1>1, <1>2, <1>3, <1>4, <1>5, <1>7, <1>8, PrivateStep

(* The steps that take a target back. *)
LEMMA UndoStep ==
    ASSUME ImportInv, NEW w \in Workers,
           \/ Compensate(w) \/ DeleteIdentity(w) \/ DeleteOwnership(w)
           \/ Verify(w) /\ Goto(w, "compensate")
           \/ SaveItem(w) /\ batch.token # w
    PROVE  ImportInv'
<1>1. /\ UNCHANGED store /\ UNCHANGED faults
      /\ worker[w].pc \in {"save", "verify", "compensate", "delete", "unlock"}
      /\ worker[w].pc \in Working
  BY DEF Compensate, DeleteIdentity, DeleteOwnership, Verify, SaveItem, Working, Undoing,
     store, Stored
<1>2. /\ TypeOK /\ worker[w].todo # {} /\ Item(w) \in Items /\ worker[w].pc \in Loop
      /\ identity \in [Items -> Identities]
      /\ ownership \in [Items -> {"none", "locked", "claimed"}] /\ faults \in 0..MaxFaults
  BY <1>1, AtWork DEF TypeOK
<1>3. identity' \in [Items -> Identities]
  <2>1. NoIdentity \in Identities
    BY DEF NoIdentity, Identities, Digests
  <2> QED
    BY <1>2, <2>1 DEF Compensate, DeleteIdentity, DeleteOwnership, Verify, SaveItem, target
<1>4. ownership' \in [Items -> {"none", "locked", "claimed"}]
  BY <1>2 DEF Compensate, DeleteIdentity, DeleteOwnership, Verify, SaveItem, target
<1>5. Return(w) \/ \E pc \in {"compensate", "delete", "unlock"} : Goto(w, pc)
  BY DEF Compensate, DeleteIdentity, DeleteOwnership, Verify, SaveItem
<1>6. PICK s \in Calls : /\ worker' = [worker EXCEPT ![w] = s]
                         /\ \/ s.pc = "idle"
                            \/ /\ s.pc \in {"compensate", "delete", "unlock"}
                               /\ s.todo = worker[w].todo
  <2>1. {"compensate", "delete", "unlock"} \subseteq Loop \cup {"planned"}
    BY DEF Loop, Working, Undoing
  <2> QED
    BY <1>2, <1>5, <2>1, ReturnIs, GotoIs
<1>7. s.pc = "idle" \/ (s.pc \in Working \ {"verify"} /\ s.pc \notin Reading)
  BY <1>6 DEF Working, Undoing, Reading
<1> QED
  BY <1>1, <1>2, <1>3, <1>4, <1>6, <1>7, PrivateStep

(* The call of w settles its item, or finds it settled, or does not know. *)
LEMMA SettleStep ==
    ASSUME ImportInv, NEW w \in Workers, NEW s \in Calls, worker[w].pc \in {"save", "verify"},
           UNCHANGED <<batch, attempts, identity, ownership>>, faults' \in 0..MaxFaults,
           \/ batch.token = w /\ Stored(w)
           \/ UNCHANGED <<items, mappings>>,
           worker' = [worker EXCEPT ![w] = s], s.pc \in {"idle", "item", "verify"},
           s.pc = "item" => s.todo = worker[w].todo \ {Item(w)},
           s.pc = "verify" => s.todo = worker[w].todo /\ worker[w].pc = "save"
    PROVE  ImportInv'
<1>1. worker[w].pc \in Working
  BY DEF Working, Undoing
<1>2. /\ TypeOK /\ PlanInv /\ HolderInv /\ worker[w] \in Calls /\ worker[w].todo # {} /\ Planned
      /\ Item(w) = Min(worker[w].todo) /\ Item(w) \in worker[w].todo /\ Item(w) \in Items
      /\ worker[w].pc \in Loop /\ items \in [Items -> Plans] /\ mappings \in [Items -> Digests]
  BY <1>1, AtWork DEF ImportInv, TypeOK
<1>3. /\ items' \in [Items -> Plans] /\ mappings' \in [Items -> Digests]
      /\ \A j \in Items : /\ items'[j].action = items[j].action
                          /\ j # Item(w) => items'[j] = items[j]
  <2>1. worker[w].outcome \in Outcomes /\ "new" \in Digests
    BY <1>2 DEF Calls, Digests
  <2>2. CASE UNCHANGED <<items, mappings>>
    BY <1>2, <2>2
  <2>3. CASE Stored(w)
    <3>1. /\ items' = [items EXCEPT ![Item(w)].outcome = worker[w].outcome]
          /\ mappings' \in [Items -> Digests]
      BY <1>2, <2>1, <2>3 DEF Stored
    <3> QED
      BY <1>2, <2>1, <3>1 DEF Plans
  <2> QED
    BY <2>2, <2>3
<1>4. TypeOK'
  BY <1>2, <1>3 DEF TypeOK
<1>5. worker'[w] = s /\ \A u \in Workers : u # w => worker'[u] = worker[u]
  BY <1>2 DEF TypeOK
<1>6. PlanInv'
  <2>1. s.pc = "idle" \/ s.pc \in Loop
    BY DEF Loop, Working, Undoing
  <2> QED
    BY <1>2, <1>3, <2>1, PlanKept
<1>7. ASSUME NEW u \in Workers
      PROVE  /\ worker'[u].pc \in Working => worker'[u].todo # {}
             /\ batch'.token = u => TodoOK(worker'[u], items')
  <2>1. CASE u # w
    <3>1. batch.token = u => items' = items
      BY <2>1
    <3> QED
      BY <1>2, <1>5, <2>1, <3>1 DEF HolderInv
  <2>2. CASE u = w
    <3>1. s.pc \in Working => s.todo # {}
      BY <1>2 DEF Working, Undoing
    <3>2. ASSUME batch.token = w PROVE TodoOK(s, items')
      <4>1. \A j \in worker[w].todo \ {Item(w)} : items[j].outcome \in Open
        BY <1>2, <3>2 DEF HolderInv, TodoOK, Reading
      <4>2. \A j \in worker[w].todo \ {Item(w)} : items'[j].outcome \in Open
        BY <1>2, <1>3, <4>1 DEF Calls
      <4>3. CASE s.pc = "verify"
        BY <1>2, <4>2, <4>3 DEF TodoOK, Reading
      <4>4. CASE s.pc = "item"
        BY <4>2, <4>4 DEF TodoOK
      <4>5. CASE s.pc = "idle"
        BY <4>5 DEF TodoOK, Reading
      <4> QED
        BY <4>3, <4>4, <4>5
    <3> QED
      BY <1>5, <2>2, <3>1, <3>2
  <2> QED
    BY <2>1, <2>2
<1> QED
  BY <1>4, <1>6, <1>7 DEF ImportInv, HolderInv

LEMMA SaveStep ==
    ASSUME ImportInv, NEW w \in Workers,
           \/ SaveItem(w) /\ batch.token = w
           \/ Verify(w) /\ Advance(w)
           \/ SaveFails(w)
    PROVE  ImportInv'
<1>1. /\ TypeOK /\ worker[w].pc \in {"save", "verify"}
      /\ UNCHANGED <<batch, attempts, identity, ownership>>
      /\ (batch.token = w /\ Stored(w)) \/ UNCHANGED <<items, mappings>>
  BY DEF SaveItem, Verify, SaveFails, ImportInv, store, target
<1>2. faults' \in 0..MaxFaults
  BY <1>1, FaultTyped DEF SaveItem, Verify, SaveFails, TypeOK
<1>3. Advance(w) \/ Return(w) \/ (Goto(w, "verify") /\ worker[w].pc = "save")
  BY DEF SaveItem, Verify, SaveFails
<1>4. "verify" \in Loop \cup {"planned"}
  BY DEF Loop, Working, Undoing
<1>5. PICK s \in Calls : /\ worker' = [worker EXCEPT ![w] = s]
                         /\ s.pc \in {"idle", "item", "verify"}
                         /\ s.pc = "item" => s.todo = worker[w].todo \ {Item(w)}
                         /\ s.pc = "verify" => s.todo = worker[w].todo /\ worker[w].pc = "save"
  <2>1. CASE Advance(w)
    BY <1>1, <2>1, AdvanceIs
  <2>2. CASE Return(w)
    BY <2>2, ReturnIs
  <2>3. CASE Goto(w, "verify") /\ worker[w].pc = "save"
    BY <1>1, <1>4, <2>3, GotoIs
  <2> QED
    BY <1>3, <2>1, <2>2, <2>3
<1> QED
  BY <1>1, <1>2, <1>5, SettleStep

-----------------------------------------------------------------------------
(* Steps of a call that write the batch. *)

LEMMA CheckStep ==
    ASSUME ImportInv, NEW w \in Workers, NEW op \in Ops, NEW k \in Keys, Check(w, op, k)
    PROVE  ImportInv'
<1> DEFINE resuming == attempts[<<op, k>>] = "pending"
           preview == op = "retry" /\ batch.retryable
                        /\ (~ Planned \/ (resuming /\ AllItemsPending))
           s == [Idle EXCEPT !.pc = "begin", !.op = op, !.key = k,
                             !.resuming = resuming, !.preview = preview]
<1>1. TypeOK /\ PlanInv /\ HolderInv /\ worker \in [Workers -> Calls]
  BY DEF ImportInv, TypeOK
<1>2. /\ batch.status # "none" /\ worker' = [worker EXCEPT ![w] = s]
      /\ op = "apply" => batch.status = "previewed" \/ resuming
      /\ UNCHANGED <<batch, items, attempts, mappings, identity, ownership, faults>>
  BY DEF Check, store, target
<1>3. resuming \in BOOLEAN /\ preview \in BOOLEAN
  OBVIOUS
<1>4. op = "apply" \/ ~ preview => Planned
  <2>1. CASE op = "apply"
    BY <1>1, <1>2, <2>1 DEF PlanInv
  <2>2. CASE op # "apply" /\ ~ preview
    <3>1. op = "retry"
      BY <2>2 DEF Ops
    <3> QED
      BY <1>1, <1>2, <2>2, <3>1 DEF PlanInv
  <2> QED
    BY <2>1, <2>2
<1> HIDE DEF preview, resuming
<1>5. s \in Calls /\ s.pc = "begin" /\ s.op = op /\ s.preview = preview
  BY <1>3 DEF Idle, Calls, NoIdentity, Identities, Digests, Outcomes
<1> HIDE DEF s
<1>6. worker'[w] = s /\ \A u \in Workers : u # w => worker'[u] = worker[u]
  BY <1>1, <1>2
<1>7. TypeOK'
  BY <1>1, <1>2, <1>5 DEF TypeOK
<1>8. Planned' <=> Planned
  BY <1>2 DEF Planned
<1>9. PlanInv'
  <2>1. ASSUME NEW u \in Workers
        PROVE  /\ worker'[u].pc # "idle" => batch.status # "none"
               /\ worker'[u].pc \in Loop \cup {"planned"} => Planned
               /\ worker'[u].pc = "begin" /\ (worker'[u].op = "apply" \/ ~ worker'[u].preview)
                  => Planned
    <3>1. CASE u = w
      BY <1>2, <1>4, <1>5, <1>6, <3>1 DEF Loop, Working, Undoing
    <3>2. CASE u # w
      BY <1>1, <1>6, <3>2 DEF PlanInv
    <3> QED
      BY <3>1, <3>2
  <2> QED
    BY <1>1, <1>2, <1>8, <2>1 DEF PlanInv
<1>10. HolderInv'
  BY <1>1, <1>2, <1>5, <1>6 DEF HolderInv, TodoOK, Working, Undoing, Reading
<1> QED
  BY <1>7, <1>9, <1>10 DEF ImportInv

LEMMA BeginStep ==
    ASSUME ImportInv, NEW w \in Workers, Begin(w)
    PROVE  ImportInv'
<1> DEFINE a == <<worker[w].op, worker[w].key>>
           pc == CASE ~ worker[w].preview -> "item"
                   [] worker[w].preview /\ Planned -> "planned"
                   [] OTHER -> "pull"
           resuming == worker[w].resuming \/ attempts[a] = "none"
           todo == Selected(worker[w].op)
           s == [worker[w] EXCEPT !.pc = pc, !.resuming = resuming, !.todo = todo]
<1>1. /\ TypeOK /\ PlanInv /\ HolderInv /\ worker \in [Workers -> Calls] /\ worker[w] \in Calls
      /\ worker[w].pc = "begin" /\ worker[w].op \in Ops /\ worker[w].preview \in BOOLEAN
      /\ UNCHANGED <<items, mappings, identity, ownership, faults>>
      /\ attempts \in [AttemptIds -> {"none", "pending", "done", "answered"}]
  BY DEF ImportInv, TypeOK, Begin, Calls, target
<1>2. CASE Return(w) /\ UNCHANGED <<batch, attempts>>
  <2>1. PICK z \in Calls : worker' = [worker EXCEPT ![w] = z] /\ z.pc = "idle"
    BY <1>2, ReturnIs
  <2> QED
    BY <1>1, <1>2, <2>1, PrivateStep DEF store, TypeOK
<1>3. CASE /\ batch' = [batch EXCEPT !.status = "applying", !.token = w, !.live = TRUE]
           /\ attempts' = [attempts EXCEPT ![a] = "pending"]
           /\ worker' = [worker EXCEPT ![w].pc = pc, ![w].resuming = @ \/ attempts[a] = "none",
                                       ![w].todo = Selected(worker[w].op)]
  <2>1. /\ pc \in {"item", "planned", "pull"} /\ (pc = "item" => ~ worker[w].preview)
        /\ (pc = "planned" => Planned)
    BY <1>1
  <2>2. resuming \in BOOLEAN /\ todo \in SUBSET Items
        /\ \A i \in todo : items[i].outcome \in Open
    BY DEF Selected, Open
  <2>3. worker' = [worker EXCEPT ![w] = s]
    <3> HIDE DEF pc
    <3> QED
      BY <1>1, <1>3
  <2> HIDE DEF pc, resuming, todo
  <2>4. s \in Calls /\ s.pc = pc /\ s.todo = todo
    BY <1>1, <2>1, <2>2 DEF Calls
  <2> HIDE DEF s
  <2>5. worker'[w] = s /\ \A u \in Workers : u # w => worker'[u] = worker[u]
    BY <1>1, <2>3
  <2>6. /\ batch'.status = "applying" /\ batch'.token = w /\ batch'.retryable = batch.retryable
        /\ batch' \in [status : {"none", "previewed", "applying", "applied", "partial", "failed"},
                       token : Workers \cup {Nobody}, live : BOOLEAN, retryable : BOOLEAN]
    BY <1>1, <1>3 DEF TypeOK
  <2>7. TypeOK'
    <3>1. attempts' \in [AttemptIds -> {"none", "pending", "done", "answered"}]
      BY <1>1, <1>3
    <3>2. worker' \in [Workers -> Calls]
      BY <1>1, <2>3, <2>4
    <3> QED
      BY <1>1, <2>6, <3>1, <3>2 DEF TypeOK
  <2>8. Planned' <=> Planned
    BY <1>1 DEF Planned
  <2>9. worker[w].op = "apply" \/ ~ worker[w].preview => Planned
    BY <1>1 DEF PlanInv
  <2>10. PlanInv'
    <3>1. \A k \in Keys : attempts'[<<"apply", k>>] = "pending" => Planned
      <4>1. ASSUME NEW k \in Keys, attempts'[<<"apply", k>>] = "pending", ~ Planned
            PROVE  FALSE
        <5>1. <<"apply", k>> \in AttemptIds
          BY DEF AttemptIds, Ops
        <5>2. attempts[<<"apply", k>>] = "pending" \/ <<"apply", k>> = a
          BY <1>1, <1>3, <4>1, <5>1
        <5> QED
          BY <1>1, <2>9, <4>1, <5>2 DEF PlanInv
      <4> QED
        BY <4>1
    <3>2. ASSUME NEW u \in Workers
          PROVE  /\ worker'[u].pc \in Loop \cup {"planned"} => Planned
                 /\ worker'[u].pc = "begin" /\ (worker'[u].op = "apply" \/ ~ worker'[u].preview)
                    => Planned
      <4>1. CASE u = w
        <5>1. s.pc \in Loop \cup {"planned"} => s.pc \in {"item", "planned"}
          BY <2>1, <2>4 DEF Loop, Working, Undoing
        <5> QED
          BY <2>1, <2>4, <2>5, <2>9, <4>1, <5>1
      <4>2. CASE u # w
        BY <1>1, <2>5, <4>2 DEF PlanInv
      <4> QED
        BY <4>1, <4>2
    <3> QED
      BY <1>1, <2>6, <2>8, <3>1, <3>2 DEF PlanInv
  <2>11. HolderInv'
    <3>1. ASSUME NEW u \in Workers
          PROVE  /\ worker'[u].pc \in Working => worker'[u].todo # {}
                 /\ batch'.token = u => TodoOK(worker'[u], items')
      <4>1. CASE u = w
        BY <1>1, <2>1, <2>2, <2>4, <2>5, <4>1 DEF TodoOK, Working, Undoing
      <4>2. CASE u # w
        BY <1>1, <2>5, <2>6, <4>2 DEF HolderInv
      <4> QED
        BY <4>1, <4>2
    <3> QED
      BY <3>1 DEF HolderInv
  <2> QED
    BY <2>7, <2>10, <2>11 DEF ImportInv
<1> QED
  BY <1>2, <1>3 DEF Begin

LEMMA FinishOperationStep ==
    ASSUME ImportInv, NEW w \in Workers, worker[w].pc # "idle",
           NEW status \in {"previewed", "applied", "partial", "failed"}, NEW retryable \in BOOLEAN,
           FinishOperation(w, status, retryable),
           status = "previewed" => Planned, Planned \/ retryable,
           UNCHANGED <<items, mappings, identity, ownership>>, faults' \in 0..MaxFaults
    PROVE  ImportInv'
<1>1. /\ TypeOK /\ PlanInv /\ HolderInv /\ worker \in [Workers -> Calls]
      /\ attempts \in [AttemptIds -> {"none", "pending", "done", "answered"}]
  BY DEF ImportInv, TypeOK
<1>2. PICK s \in Calls : worker' = [worker EXCEPT ![w] = s] /\ s.pc = "idle"
  BY ReturnIs DEF FinishOperation
<1>3. CASE UNCHANGED <<batch, attempts>>
  BY <1>1, <1>2, <1>3, PrivateStep DEF store, TypeOK
<1>4. ASSUME NEW known \in BOOLEAN,
             batch' = [status |-> status, token |-> Nobody, live |-> FALSE,
                       retryable |-> IF known THEN retryable ELSE batch.retryable],
             attempts' = [attempts EXCEPT ![<<worker[w].op, worker[w].key>>] =
                             IF known THEN "done" ELSE "answered"]
      PROVE  ImportInv'
  <2>1. /\ batch'.status = status /\ batch'.token = Nobody
        /\ batch'.retryable \in {retryable, batch.retryable}
        /\ batch' \in [status : {"none", "previewed", "applying", "applied", "partial", "failed"},
                       token : Workers \cup {Nobody}, live : BOOLEAN, retryable : BOOLEAN]
    BY <1>1, <1>4 DEF TypeOK
  <2>2. /\ attempts' \in [AttemptIds -> {"none", "pending", "done", "answered"}]
        /\ \A b \in AttemptIds : attempts'[b] = "pending" => attempts[b] = "pending"
    BY <1>1, <1>4
  <2>3. worker'[w] = s /\ \A u \in Workers : u # w => worker'[u] = worker[u]
    BY <1>1, <1>2
  <2>4. TypeOK'
    BY <1>1, <1>2, <2>1, <2>2 DEF TypeOK
  <2>5. Planned' <=> Planned
    BY DEF Planned
  <2>6. PlanInv'
    <3>1. \A k \in Keys : attempts'[<<"apply", k>>] = "pending" => Planned
      <4>1. \A k \in Keys : <<"apply", k>> \in AttemptIds
        BY DEF AttemptIds, Ops
      <4> QED
        BY <1>1, <2>2, <4>1 DEF PlanInv
    <3>2. \A u \in Workers :
             /\ worker'[u].pc \in Loop \cup {"planned"} => Planned
             /\ worker'[u].pc = "begin" /\ (worker'[u].op = "apply" \/ ~ worker'[u].preview)
                => Planned
      BY <1>1, <1>2, <2>3 DEF PlanInv, Loop, Working, Undoing
    <3>3. ~ Planned => batch'.retryable
      BY <1>1, <2>1 DEF PlanInv
    <3> QED
      BY <1>1, <2>1, <2>5, <3>1, <3>2, <3>3 DEF PlanInv
  <2>7. HolderInv'
    <3>1. Nobody \notin Workers
      BY DirectoryAssumption DEF Nobody
    <3> QED
      BY <1>1, <1>2, <2>1, <2>3, <3>1 DEF HolderInv, Working, Undoing
  <2> QED
    BY <2>4, <2>6, <2>7 DEF ImportInv
<1>5. worker[w].resuming \in BOOLEAN
  BY <1>1 DEF TypeOK, Calls
<1> QED
  BY <1>3, <1>4, <1>5 DEF FinishOperation

LEMMA FinishStep ==
    ASSUME ImportInv, NEW w \in Workers,
           Finish(w) \/ FinishPreviewRetry(w) \/ RetryPreviewFails(w)
    PROVE  ImportInv'
<1>1. TypeOK /\ PlanInv /\ worker[w].pc # "idle" /\ UNCHANGED <<items, mappings, identity, ownership>>
  BY DEF ImportInv, Finish, FinishPreviewRetry, RetryPreviewFails, target
<1>2. faults' \in 0..MaxFaults
  BY <1>1, FaultTyped DEF Finish, FinishPreviewRetry, RetryPreviewFails, TypeOK
<1>3. CASE Finish(w)
  <2>1. Planned
    BY <1>1, <1>3 DEF Finish, PlanInv, Loop
  <2>2. FinalStatus \in {"previewed", "applied", "partial", "failed"}
        /\ FinalStatus # "previewed" /\ HasRetryableFailure \in BOOLEAN
    BY DEF FinalStatus, HasRetryableFailure
  <2> QED
    BY <1>1, <1>2, <1>3, <2>1, <2>2, FinishOperationStep DEF Finish
<1>4. CASE FinishPreviewRetry(w)
  <2>1. Planned
    BY <1>1, <1>4 DEF FinishPreviewRetry, PlanInv
  <2> QED
    BY <1>1, <1>2, <1>4, <2>1, FinishOperationStep DEF FinishPreviewRetry
<1>5. CASE RetryPreviewFails(w)
  BY <1>1, <1>2, <1>5, FinishOperationStep DEF RetryPreviewFails
<1> QED
  BY <1>3, <1>4, <1>5

LEMMA RetryPreviewStep ==
    ASSUME ImportInv, NEW w \in Workers, RetryPreview(w)
    PROVE  ImportInv'
<1>1. /\ TypeOK /\ PlanInv /\ HolderInv /\ worker \in [Workers -> Calls]
      /\ UNCHANGED <<batch, attempts, mappings, identity, ownership, faults>>
      /\ worker[w].pc = "pull"
  BY DEF ImportInv, TypeOK, RetryPreview, target
<1>2. CASE Return(w) /\ UNCHANGED items
  <2>1. PICK s \in Calls : worker' = [worker EXCEPT ![w] = s] /\ s.pc = "idle"
    BY <1>2, ReturnIs
  <2> QED
    BY <1>1, <1>2, <2>1, PrivateStep DEF store, TypeOK
<1>3. CASE batch.token = w /\ items' = Plan /\ Goto(w, "planned")
  <2>1. PICK s \in Calls : worker' = [worker EXCEPT ![w] = s] /\ s.pc = "planned"
    BY <1>1, <1>3, GotoIs
  <2>2. worker'[w] = s /\ \A u \in Workers : u # w => worker'[u] = worker[u]
    BY <1>1, <2>1
  <2>3. /\ items' \in [Items -> Plans]
        /\ \A i \in Items : items'[i].action # "unplanned" /\ items'[i].outcome = "pending"
    BY <1>1, <1>3, PlanIsPlanned
  <2>4. TypeOK'
    BY <1>1, <2>1, <2>3 DEF TypeOK
  <2>5. Planned'
    BY <2>3 DEF Planned
  <2>6. PlanInv'
    <3>1. batch.status # "none"
      BY <1>1 DEF PlanInv
    <3> QED
      BY <1>1, <2>5, <3>1 DEF PlanInv
  <2>7. HolderInv'
    BY <1>1, <1>3, <2>1, <2>2 DEF HolderInv, TodoOK, Working, Undoing, Reading
  <2> QED
    BY <2>4, <2>6, <2>7 DEF ImportInv
<1> QED
  BY <1>2, <1>3 DEF RetryPreview

-----------------------------------------------------------------------------
(* Steps around the calls. *)

LEMMA PreviewStep ==
    ASSUME ImportInv, Preview \/ PreviewFails
    PROVE  ImportInv'
<1>1. /\ TypeOK /\ PlanInv /\ HolderInv /\ batch.status = "none"
      /\ UNCHANGED <<attempts, mappings, identity, ownership, worker>>
  BY DEF ImportInv, Preview, PreviewFails, target
<1>2. /\ batch' \in [status : {"none", "previewed", "applying", "applied", "partial", "failed"},
                     token : Workers \cup {Nobody}, live : BOOLEAN, retryable : BOOLEAN]
      /\ batch'.token = batch.token /\ batch'.status # "none"
  BY <1>1 DEF TypeOK, Preview, PreviewFails
<1>3. faults' \in 0..MaxFaults
  BY <1>1, FaultTyped DEF TypeOK, Preview, PreviewFails
<1>4. batch.token = Nobody /\ ~ Planned /\ Nobody \notin Workers
  BY <1>1, DirectoryAssumption DEF PlanInv, Nobody
<1>5. HolderInv'
  BY <1>1, <1>2, <1>4 DEF HolderInv
<1>6. CASE Preview
  <2>1. /\ items' \in [Items -> Plans]
        /\ \A i \in Items : items'[i].action # "unplanned" /\ items'[i].outcome = "pending"
    BY <1>1, <1>6, PlanIsPlanned DEF Preview
  <2>2. TypeOK' /\ Planned'
    BY <1>1, <1>2, <1>3, <2>1 DEF TypeOK, Planned
  <2>3. PlanInv'
    BY <1>2, <2>2 DEF PlanInv
  <2> QED
    BY <1>5, <2>2, <2>3 DEF ImportInv
<1>7. CASE PreviewFails
  <2>1. items' = items /\ batch'.status = "failed" /\ batch'.retryable
    BY <1>1, <1>7 DEF PreviewFails, TypeOK
  <2>2. TypeOK' /\ (Planned' <=> Planned)
    BY <1>1, <1>2, <1>3, <2>1 DEF TypeOK, Planned
  <2>3. PlanInv'
    BY <1>1, <1>2, <2>1, <2>2 DEF PlanInv
  <2> QED
    BY <1>5, <2>2, <2>3 DEF ImportInv
<1> QED
  BY <1>6, <1>7

LEMMA AroundStep ==
    ASSUME ImportInv,
           \/ Expire \/ Stall \/ UNCHANGED vars
           \/ \E i \in Items : Claim(i) \/ Edit(i)
    PROVE  ImportInv'
<1>1. /\ TypeOK /\ PlanInv /\ HolderInv
      /\ UNCHANGED <<items, attempts, mappings, worker>>
  BY DEF ImportInv, Expire, Stall, Claim, Edit, vars, store
<1>2. /\ batch' \in [status : {"none", "previewed", "applying", "applied", "partial", "failed"},
                     token : Workers \cup {Nobody}, live : BOOLEAN, retryable : BOOLEAN]
      /\ batch'.token = batch.token /\ batch'.status = batch.status
      /\ batch'.retryable = batch.retryable
  BY <1>1 DEF TypeOK, Expire, Stall, LeaseRunsOut, Claim, Edit, vars, store
<1>3. faults' \in 0..MaxFaults
  BY <1>1, FaultTyped DEF TypeOK, Expire, Stall, Claim, Edit, vars, store
<1>4. ownership' \in [Items -> {"none", "locked", "claimed"}]
  BY <1>1 DEF TypeOK, Expire, Stall, Claim, Edit, vars, target
<1>5. identity' \in [Items -> Identities]
  <2>1. identity \in [Items -> Identities]
    BY <1>1 DEF TypeOK
  <2>2. \A i \in Items : [rev |-> identity[i].rev + 1, digest |-> "local"] \in Identities
    BY <2>1 DEF Identities, Digests
  <2>3. ASSUME NEW i \in Items, Edit(i)
        PROVE  identity' \in [Items -> Identities]
    BY <2>1, <2>2, <2>3 DEF Edit
  <2> QED
    BY <2>1, <2>3 DEF Expire, Stall, Claim, vars, target
<1>6. TypeOK'
  BY <1>1, <1>2, <1>3, <1>4, <1>5 DEF TypeOK
<1>7. Planned' <=> Planned
  BY <1>1 DEF Planned
<1>8. PlanInv' /\ HolderInv'
  BY <1>1, <1>2, <1>7 DEF PlanInv, HolderInv
<1> QED
  BY <1>6, <1>8 DEF ImportInv

-----------------------------------------------------------------------------
(* The invariant. *)

(* What an earlier import left: a mapping has its identity and ownership. *)
LEMMA BeforeIs ==
    ASSUME NEW kind
    PROVE  /\ Before(kind).identity \in Identities
           /\ Before(kind).ownership \in {"none", "locked", "claimed"}
           /\ Before(kind).mapping \in Digests
           /\ Before(kind).mapping # "none" =>
                  Before(kind).identity.rev # 0 /\ Before(kind).ownership # "none"
<1>1. CASE kind = "absent"
  BY <1>1 DEF Before, NoIdentity, Identities, Digests
<1>2. CASE kind = "same"
  BY <1>2 DEF Before, Identities, Digests
<1>3. CASE kind \notin {"absent", "same"}
  BY <1>3 DEF Before, Identities, Digests
<1> QED
  BY <1>1, <1>2, <1>3

LEMMA ImportInit == Init => ImportInv
<1> SUFFICES ASSUME Init PROVE ImportInv
  OBVIOUS
<1>1. PICK kind \in Kinds :
          /\ identity = [i \in Items |-> Before(kind[i]).identity]
          /\ ownership = [i \in Items |-> Before(kind[i]).ownership]
          /\ mappings = [i \in Items |-> Before(kind[i]).mapping]
  BY DEF Init
<1>2. \A i \in Items : /\ Before(kind[i]).identity \in Identities
                       /\ Before(kind[i]).ownership \in {"none", "locked", "claimed"}
                       /\ Before(kind[i]).mapping \in Digests
  BY BeforeIs
<1>3. /\ batch = [status |-> "none", token |-> Nobody, live |-> FALSE, retryable |-> FALSE]
      /\ \A i \in Items : items[i] = [action |-> "unplanned", rev |-> 0, digest |-> "none",
                                      outcome |-> "pending"]
      /\ \A a \in AttemptIds : attempts[a] = "none"
      /\ \A w \in Workers : worker[w] = Idle
  BY DEF Init
<1>4. TypeOK
  <2>1. identity \in [Items -> Identities]
    BY <1>1, <1>2
  <2>2. ownership \in [Items -> {"none", "locked", "claimed"}] /\ mappings \in [Items -> Digests]
    BY <1>1, <1>2
  <2>3. [action |-> "unplanned", rev |-> 0, digest |-> "none", outcome |-> "pending"] \in Plans
    BY DEF Plans, Actions, Digests, Outcomes
  <2>4. items \in [Items -> Plans]
    BY <2>3 DEF Init
  <2>5. worker \in [Workers -> Calls]
    BY IdleTyped DEF Init
  <2>6. faults \in 0..MaxFaults /\ attempts \in [AttemptIds -> {"none", "pending", "done", "answered"}]
    <3>1. faults = 0
      BY DEF Init
    <3>2. attempts \in [AttemptIds -> {"none", "pending", "done", "answered"}]
      BY DEF Init
    <3> QED
      BY <3>1, <3>2, DirectoryAssumption
  <2>7. batch \in [status : {"none", "previewed", "applying", "applied", "partial", "failed"},
                   token : Workers \cup {Nobody}, live : BOOLEAN, retryable : BOOLEAN]
    BY <1>3
  <2> QED
    BY <2>1, <2>2, <2>4, <2>5, <2>6, <2>7 DEF TypeOK
<1>5. ~ Planned
  <2>1. PICK i \in Items : TRUE
    BY DirectoryAssumption
  <2>2. items[i].action = "unplanned"
    BY <1>3
  <2> QED
    BY <2>2 DEF Planned
<1>6. PlanInv
  <2>1. \A k \in Keys : <<"apply", k>> \in AttemptIds
    BY DEF AttemptIds, Ops
  <2>2. \A w \in Workers : worker[w].pc = "idle"
    BY <1>3, IdleTyped
  <2> QED
    BY <1>3, <1>5, <2>1, <2>2 DEF PlanInv, Loop, Working, Undoing
<1>7. HolderInv
  BY <1>3, IdleTyped, DirectoryAssumption DEF HolderInv, Nobody, Working, Undoing
<1> QED
  BY <1>4, <1>6, <1>7 DEF ImportInv

LEMMA ImportNext ==
    ASSUME ImportInv, [Next]_vars
    PROVE  ImportInv'
<1>1. ASSUME NEW w \in Workers, ServiceStep(w)
      PROVE  ImportInv'
  <2>1. CASE Verify(w)
    BY <2>1, UndoStep, SaveStep DEF Verify
  <2>2. CASE SaveItem(w)
    BY <2>2, UndoStep, SaveStep
  <2> QED
    BY <1>1, <2>1, <2>2, BeginStep, RetryPreviewStep, FinishStep, NextItemStep, TargetStep,
       UndoStep DEF ServiceStep
<1>2. ASSUME NEW w \in Workers, FaultStep(w)
      PROVE  ImportInv'
  BY <1>2, FinishStep, TargetStep, SaveStep, CrashStep DEF FaultStep
<1>3. ASSUME NEW w \in Workers, NEW a \in AttemptIds, Check(w, a[1], a[2])
      PROVE  ImportInv'
  <2>1. a[1] \in Ops /\ a[2] \in Keys
    BY DEF AttemptIds
  <2> QED
    BY <1>3, <2>1, CheckStep
<1> QED
  BY <1>1, <1>2, <1>3, PreviewStep, AroundStep DEF Next

(* The plan and the lease: a call of Service.run that selects or applies    *)
(* items has a complete plan before it, and what the holder of the lease    *)
(* token still has to do is unsettled.                                      *)
THEOREM ImportInvariant == Spec => []ImportInv
BY ImportInit, ImportNext, PTL DEF Spec

(* Every variable keeps its type, in particular the fault budget and the    *)
(* stored plan that CreatePreview, SavePlan and SaveItem write.             *)
THEOREM DirectoryTypeCorrect == Spec => []TypeOK
BY ImportInvariant, PTL DEF ImportInv

-----------------------------------------------------------------------------
(* Outcomes are final. *)

(* Without a complete plan nothing is settled, so a new plan unsettles      *)
(* nothing; SaveItem settles under the token an item of the call's own      *)
(* selection, and that is unsettled while the token is the call's.          *)
LEMMA OutcomeStep ==
    ASSUME ImportInv, [Next]_vars, NEW i \in Items,
           items[i].outcome \in {"applied", "unchanged", "conflict"}
    PROVE  items'[i].outcome = items[i].outcome
<1>1. TypeOK /\ PlanInv /\ HolderInv /\ items \in [Items -> Plans]
  BY DEF ImportInv, TypeOK
<1>2. Planned
  BY <1>1 DEF PlanInv
<1>3. ASSUME NEW w \in Workers, worker[w].pc = "save", batch.token = w, Stored(w)
      PROVE  items'[i].outcome = items[i].outcome
  <2>1. worker[w].pc \in Working
    BY <1>3 DEF Working
  <2>2. Item(w) \in worker[w].todo /\ Item(w) \in Items
    BY <2>1, AtWork
  <2>3. items[Item(w)].outcome \in Open
    BY <1>1, <1>3, <2>2 DEF HolderInv, TodoOK, Reading
  <2>4. i # Item(w)
    BY <2>3 DEF Open
  <2> QED
    BY <1>1, <1>3, <2>2, <2>4 DEF Stored
<1>4. CASE Preview
  BY <1>1, <1>2, <1>4 DEF Preview, PlanInv
<1>5. ASSUME NEW w \in Workers, RetryPreview(w)
      PROVE  items'[i].outcome = items[i].outcome
  BY <1>2, <1>5 DEF RetryPreview
<1>6. ASSUME NEW w \in Workers, SaveItem(w) \/ SaveFails(w)
      PROVE  items'[i].outcome = items[i].outcome
  BY <1>3, <1>6 DEF SaveItem, SaveFails
<1>7. ASSUME NEW w \in Workers, ServiceStep(w)
      PROVE  items'[i].outcome = items[i].outcome
  BY <1>5, <1>6, <1>7 DEF ServiceStep, Begin, FinishPreviewRetry, NextItem, ApplyTarget,
     Reconcile, Create, Register, Verify, Compensate, DeleteIdentity, DeleteOwnership,
     Finish, store
<1>8. ASSUME NEW w \in Workers, FaultStep(w)
      PROVE  items'[i].outcome = items[i].outcome
  BY <1>6, <1>8 DEF FaultStep, RetryPreviewFails, RegisterFails, TargetFails, Crash, store
<1>9. ASSUME NEW w \in Workers, NEW a \in AttemptIds, Check(w, a[1], a[2])
      PROVE  items'[i].outcome = items[i].outcome
  BY <1>9 DEF Check, store
<1>10. CASE \/ PreviewFails \/ Expire \/ Stall \/ UNCHANGED vars
            \/ \E j \in Items : Claim(j) \/ Edit(j)
  BY <1>10 DEF PreviewFails, Expire, Stall, Claim, Edit, vars, store
<1> QED
  BY <1>4, <1>7, <1>8, <1>9, <1>10 DEF Next

(* A settled item keeps its outcome, whatever crashes, stalls and takes     *)
(* over: SaveItem writes under the lease token, and a call selects only     *)
(* what is pending or failed after it has taken the token.                  *)
THEOREM OutcomesAreFinal == Spec => OutcomeIsFinal
<1>1. ImportInv /\ [Next]_vars =>
          [\A i \in Items : items[i].outcome \in {"applied", "unchanged", "conflict"} =>
               items'[i].outcome = items[i].outcome]_vars
  BY OutcomeStep
<1> QED
  BY <1>1, ImportInvariant, PTL DEF Spec, OutcomeIsFinal

-----------------------------------------------------------------------------
(* The holder of the token takes nothing back that is mapped. *)

(* A planned creation that is not settled has no mapping: the plan creates  *)
(* only what is unmapped, and SaveItem stores a mapping with its outcome.   *)
CreateOpen ==
    \A i \in Items : items[i].action = "create" /\ items[i].outcome \in Open =>
        mappings[i] = "none"

Undone == {"compensate", "delete", "unlock"}
Creation(k) == k.changed /\ k.seen.rev = 0

(* What a call wrote as a new identity was planned as one. *)
CreatedOK(k, its) ==
    LET i == Min(k.todo)
    IN  /\ k.pc = "reconcile" => k.seen.rev # 0
        /\ k.pc = "create" => its[i].action = "create"
        /\ k.pc \in {"register", "save"} \cup Undoing /\ Creation(k) =>
               its[i].action = "create"
        /\ k.pc \in {"delete", "unlock"} => Creation(k)

(* A save of unknown result is found again while the token is the call's,  *)
(* so what the call goes on to take back is not settled.                   *)
LookupOK(k, its, maps) ==
    LET i == Min(k.todo)
    IN  /\ k.pc = "verify" =>
               its[i].outcome \in Open \/ (its[i].outcome = k.outcome /\ maps[i] = "new")
        /\ k.pc \in Undone => its[i].outcome \in Open

UndoInv ==
    /\ CreateOpen
    /\ \A w \in Workers :
          /\ CreatedOK(worker[w], items)
          /\ batch.token = w => LookupOK(worker[w], items, mappings)

(* A step of the call of w that leaves the batch and the plan alone. *)
LEMMA KeepsStep ==
    ASSUME ImportInv, UndoInv, NEW w \in Workers, NEW s \in Calls,
           worker' = [worker EXCEPT ![w] = s], batch' = batch,
           \A i \in Items : items'[i].action = items[i].action,
           batch.token # w => UNCHANGED <<items, mappings>>,
           CreateOpen', CreatedOK(s, items'),
           batch.token = w => LookupOK(s, items', mappings')
    PROVE  UndoInv'
<1>1. worker'[w] = s /\ \A u \in Workers : u # w => worker'[u] = worker[u]
  BY DEF ImportInv, TypeOK
<1>2. ASSUME NEW u \in Workers, u # w
      PROVE  CreatedOK(worker[u], items')
  <2>1. CASE worker[u].pc \in Working
    <3>1. Min(worker[u].todo) \in Items
      BY <2>1, AtWork
    <3> QED
      BY <3>1 DEF UndoInv, CreatedOK
  <2>2. CASE worker[u].pc \notin Working
    BY <2>2 DEF CreatedOK, Working, Undoing
  <2> QED
    BY <2>1, <2>2
<1>3. ASSUME NEW u \in Workers
      PROVE  /\ CreatedOK(worker'[u], items')
             /\ batch'.token = u => LookupOK(worker'[u], items', mappings')
  <2>1. CASE u = w
    BY <1>1, <2>1
  <2>2. CASE u # w
    BY <1>1, <1>2, <2>2 DEF UndoInv
  <2> QED
    BY <2>1, <2>2
<1> QED
  BY <1>3 DEF UndoInv

(* The items and their mappings stand as they are. *)
LEMMA KeepsPrivate ==
    ASSUME ImportInv, UndoInv, UNCHANGED <<batch, items, mappings>>,
           NEW w \in Workers, NEW s \in Calls, worker' = [worker EXCEPT ![w] = s],
           CreatedOK(s, items), batch.token = w => LookupOK(s, items, mappings)
    PROVE  UndoInv'
<1>1. CreateOpen'
  BY DEF UndoInv, CreateOpen
<1> QED
  BY <1>1, KeepsStep

LEMMA KeepsReturn ==
    ASSUME ImportInv, UndoInv, NEW w \in Workers, Return(w), UNCHANGED <<batch, items, mappings>>
    PROVE  UndoInv'
<1>1. PICK s \in Calls : worker' = [worker EXCEPT ![w] = s] /\ s.pc = "idle"
  BY ReturnIs
<1>2. CreatedOK(s, items) /\ LookupOK(s, items, mappings)
  BY <1>1 DEF CreatedOK, LookupOK, Undoing, Undone
<1> QED
  BY <1>1, <1>2, KeepsPrivate

LEMMA KeepsDecide ==
    ASSUME ImportInv, UndoInv, NEW w \in Workers, NEW outcome \in Outcomes,
           Decide(w, outcome), UNCHANGED <<batch, items, mappings>>
    PROVE  UndoInv'
<1>1. PICK s \in Calls : /\ worker' = [worker EXCEPT ![w] = s] /\ s.pc = "save"
                         /\ s.changed = FALSE
  BY DecideIs DEF ImportInv
<1>2. CreatedOK(s, items) /\ LookupOK(s, items, mappings)
  BY <1>1 DEF CreatedOK, LookupOK, Undone, Creation
<1> QED
  BY <1>1, <1>2, KeepsPrivate

(* The item loop and the target. *)
LEMMA KeepsTarget ==
    ASSUME ImportInv, UndoInv, NEW w \in Workers,
           \/ NextItem(w) \/ ApplyTarget(w) \/ Reconcile(w) \/ Create(w) \/ Register(w)
           \/ RegisterFails(w) \/ TargetFails(w)
    PROVE  UndoInv'
<1>1. /\ UNCHANGED <<batch, items, mappings>> /\ TypeOK /\ worker[w] \in Calls
      /\ worker \in [Workers -> Calls]
      /\ CreatedOK(worker[w], items)
  BY DEF NextItem, ApplyTarget, Reconcile, Create, Register, RegisterFails, TargetFails,
     store, ImportInv, TypeOK, UndoInv
<1>2. ASSUME NEW outcome \in {"unchanged", "conflict", "failed"}, Decide(w, outcome)
      PROVE  UndoInv'
  <2>1. outcome \in Outcomes
    BY DEF Outcomes
  <2> QED
    BY <1>1, <1>2, <2>1, KeepsDecide
<1>3. CASE worker' = [worker EXCEPT ![w].pc = "target", ![w].seen = identity[Item(w)]]
           /\ worker[w].pc = "item" /\ worker[w].todo # {}
  <2> DEFINE s == [worker[w] EXCEPT !.pc = "target", !.seen = identity[Item(w)]]
  <2>1. identity[Item(w)] \in Identities
    BY <1>1, <1>3, ItemIn DEF TypeOK
  <2>2. s \in Calls /\ s.pc = "target" /\ worker' = [worker EXCEPT ![w] = s]
    BY <1>1, <1>3, <2>1 DEF Calls
  <2> HIDE DEF s
  <2>3. CreatedOK(s, items) /\ LookupOK(s, items, mappings)
    BY <2>2 DEF CreatedOK, LookupOK, Undoing, Undone
  <2> QED
    BY <1>1, <2>2, <2>3, KeepsPrivate
<1>4. CASE worker[w].pc = "target" /\ worker[w].seen.rev # 0 /\ Goto(w, "reconcile")
  <2>1. PICK s \in Calls : /\ worker' = [worker EXCEPT ![w] = s] /\ s.pc = "reconcile"
                           /\ s.seen = worker[w].seen
    BY <1>1, <1>4, GotoIs DEF Loop, Working
  <2>2. CreatedOK(s, items) /\ LookupOK(s, items, mappings)
    BY <1>4, <2>1 DEF CreatedOK, LookupOK, Undoing, Undone
  <2> QED
    BY <1>1, <2>1, <2>2, KeepsPrivate
<1>5. CASE /\ worker[w].pc = "target" /\ worker[w].seen.rev = 0
           /\ items[Item(w)].action = "create" /\ Goto(w, "create")
  <2>1. PICK s \in Calls : /\ worker' = [worker EXCEPT ![w] = s] /\ s.pc = "create"
                           /\ s.todo = worker[w].todo
    BY <1>1, <1>5, GotoIs DEF Loop, Working
  <2>2. CreatedOK(s, items) /\ LookupOK(s, items, mappings)
    BY <1>5, <2>1 DEF CreatedOK, LookupOK, Undoing, Undone, Item
  <2> QED
    BY <1>1, <2>1, <2>2, KeepsPrivate
<1>6. ASSUME NEW changed \in BOOLEAN,
             worker' = [worker EXCEPT ![w].pc = "register", ![w].changed = changed],
             \/ ~ changed
             \/ worker[w].pc \in {"reconcile", "create"}
      PROVE  UndoInv'
  <2>1. PICK s \in Calls :
            /\ worker' = [worker EXCEPT ![w] = s] /\ s.pc = "register"
            /\ s.todo = worker[w].todo /\ s.seen = worker[w].seen /\ s.changed = changed
    <3>1. TypeOK /\ worker' = [worker EXCEPT ![w].pc = "register", ![w].changed = changed]
      BY <1>1, <1>6
    <3> QED
      BY <3>1, WrittenIs
  <2>2. CreatedOK(s, items) /\ LookupOK(s, items, mappings)
    BY <1>1, <1>6, <2>1 DEF CreatedOK, LookupOK, Undone, Creation
  <2> QED
    BY <1>1, <2>1, <2>2, KeepsPrivate
<1>7. CASE Register(w)
  <2> DEFINE outcome == IF worker[w].changed THEN "applied" ELSE "unchanged"
             s == [worker[w] EXCEPT !.pc = "save", !.outcome = outcome]
  <2>1. outcome \in Outcomes /\ worker[w].pc = "register"
    BY <1>7 DEF Outcomes, Register
  <2>2. worker' = [worker EXCEPT ![w] = s]
    BY <1>1, <1>7 DEF Register
  <2> HIDE DEF outcome
  <2>3. /\ s \in Calls /\ s.pc = "save" /\ s.todo = worker[w].todo /\ s.seen = worker[w].seen
        /\ s.changed = worker[w].changed
    BY <1>1, <2>1 DEF Calls
  <2> HIDE DEF s
  <2>4. CreatedOK(s, items) /\ LookupOK(s, items, mappings)
    BY <1>1, <2>1, <2>3 DEF CreatedOK, LookupOK, Undone, Creation
  <2> QED
    BY <1>1, <2>2, <2>3, <2>4, KeepsPrivate
<1>8. CASE NextItem(w)
  BY <1>2, <1>3, <1>8 DEF NextItem
<1>9. CASE ApplyTarget(w)
  BY <1>2, <1>4, <1>5, <1>6, <1>9 DEF ApplyTarget
<1>10. CASE Reconcile(w) \/ Create(w)
  BY <1>2, <1>6, <1>10 DEF Reconcile, Create
<1>11. CASE RegisterFails(w) \/ TargetFails(w)
  BY <1>2, <1>11 DEF RegisterFails, TargetFails
<1> QED
  BY <1>7, <1>8, <1>9, <1>10, <1>11

(* The save, and what follows when it fails. *)
LEMMA KeepsSave ==
    ASSUME ImportInv, UndoInv, NEW w \in Workers, SaveItem(w) \/ SaveFails(w)
    PROVE  UndoInv'
<1> DEFINE i == Item(w)
<1>1. /\ worker[w].pc = "save" /\ worker[w].pc \in Working /\ batch' = batch
      /\ worker \in [Workers -> Calls] /\ TypeOK /\ HolderInv
  BY DEF SaveItem, SaveFails, Working, ImportInv, TypeOK
<1>2. /\ i \in Items /\ i = Min(worker[w].todo) /\ i \in worker[w].todo
      /\ items \in [Items -> Plans] /\ mappings \in [Items -> Digests]
      /\ worker[w].outcome \in Outcomes /\ CreatedOK(worker[w], items)
  BY <1>1, AtWork DEF TypeOK, Calls, UndoInv
<1>3. batch.token = w => items[i].outcome \in Open
  BY <1>1, <1>2 DEF HolderInv, TodoOK, Reading
<1> HIDE DEF i
<1>4. CASE batch.token = w /\ Stored(w)
  <2>1. /\ \A j \in Items : items'[j].action = items[j].action
        /\ \A j \in Items : j # i => items'[j] = items[j] /\ mappings'[j] = mappings[j]
        /\ items'[i].outcome = worker[w].outcome
        /\ mappings'[i] = IF Mapped(worker[w].outcome) THEN "new" ELSE mappings[i]
    BY <1>2, <1>4 DEF Stored, i, Plans
  <2>2. CreateOpen'
    <3>1. ASSUME NEW j \in Items, items'[j].action = "create", items'[j].outcome \in Open
          PROVE  mappings'[j] = "none"
      <4>1. CASE j # i
        BY <2>1, <3>1, <4>1 DEF UndoInv, CreateOpen
      <4>2. CASE j = i
        BY <1>3, <1>4, <2>1, <3>1, <4>2 DEF UndoInv, CreateOpen, Open, Mapped
      <4> QED
        BY <4>1, <4>2
    <3> QED
      BY <3>1 DEF CreateOpen
  <2>3. PICK s \in Calls :
            /\ worker' = [worker EXCEPT ![w] = s]
            /\ \/ s.pc \in {"idle", "item"}
               \/ /\ s.pc = "verify" /\ Mapped(worker[w].outcome)
                  /\ s.todo = worker[w].todo /\ s.seen = worker[w].seen
                  /\ s.outcome = worker[w].outcome /\ s.changed = worker[w].changed
    <3>1. "verify" \in Loop \cup {"planned"}
      BY DEF Loop, Working, Undoing
    <3>2. Advance(w) \/ Return(w) \/ (Goto(w, "verify") /\ Mapped(worker[w].outcome))
      BY DEF SaveItem, SaveFails
    <3> QED
      BY <1>1, <3>1, <3>2, AdvanceIs, ReturnIs, GotoIs
  <2>4. CreatedOK(s, items')
    BY <1>1, <1>2, <2>1, <2>3 DEF CreatedOK, Undoing, Creation
  <2>5. LookupOK(s, items', mappings')
    BY <1>2, <2>1, <2>3 DEF LookupOK, Undone
  <2> QED
    BY <1>1, <1>4, <2>1, <2>2, <2>3, <2>4, <2>5, KeepsStep
<1>5. CASE UNCHANGED <<items, mappings>> /\ Goto(w, "verify")
  <2>1. PICK s \in Calls :
            /\ worker' = [worker EXCEPT ![w] = s] /\ s.pc = "verify"
            /\ s.todo = worker[w].todo /\ s.seen = worker[w].seen
            /\ s.outcome = worker[w].outcome /\ s.changed = worker[w].changed
    BY <1>1, <1>5, GotoIs DEF Loop, Working, Undoing
  <2>2. CreatedOK(s, items)
    BY <1>1, <1>2, <2>1 DEF CreatedOK, Undoing, Creation
  <2>3. batch.token = w => LookupOK(s, items, mappings)
    BY <1>2, <1>3, <2>1 DEF LookupOK, Undone
  <2> QED
    BY <1>1, <1>5, <2>1, <2>2, <2>3, KeepsPrivate
<1>6. CASE UNCHANGED <<items, mappings>> /\ Return(w)
  BY <1>1, <1>6, KeepsReturn
<1> QED
  BY <1>4, <1>5, <1>6 DEF SaveItem, SaveFails

(* The lookup after a save of unknown result, and the steps that take the   *)
(* target back.                                                             *)
LEMMA KeepsUndo ==
    ASSUME ImportInv, UndoInv, NEW w \in Workers,
           Verify(w) \/ Compensate(w) \/ DeleteIdentity(w) \/ DeleteOwnership(w)
    PROVE  UndoInv'
<1>1. /\ UNCHANGED <<batch, items, mappings>> /\ TypeOK
      /\ worker[w].pc \in Undoing /\ worker[w].pc \in Working
  BY DEF Verify, Compensate, DeleteIdentity, DeleteOwnership, store, ImportInv, Undoing, Working
<1>2. /\ CreatedOK(worker[w], items)
      /\ batch.token = w => LookupOK(worker[w], items, mappings)
      /\ Item(w) = Min(worker[w].todo)
  BY <1>1, AtWork DEF UndoInv
<1>3. ASSUME NEW pc \in Undone, Goto(w, pc),
             pc \in {"delete", "unlock"} => Creation(worker[w]),
             batch.token = w => items[Item(w)].outcome \in Open
      PROVE  UndoInv'
  <2>1. PICK s \in Calls :
            /\ worker' = [worker EXCEPT ![w] = s] /\ s.pc = pc
            /\ s.todo = worker[w].todo /\ s.seen = worker[w].seen
            /\ s.changed = worker[w].changed
    BY <1>1, <1>3, GotoIs DEF Loop, Working, Undoing, Undone
  <2>2. CreatedOK(s, items)
    BY <1>1, <1>2, <1>3, <2>1 DEF CreatedOK, Undoing, Undone, Creation
  <2>3. batch.token = w => LookupOK(s, items, mappings)
    BY <1>2, <1>3, <2>1 DEF LookupOK, Undone
  <2> QED
    BY <1>1, <2>1, <2>2, <2>3, KeepsPrivate
<1>4. CASE Return(w)
  BY <1>1, <1>4, KeepsReturn
<1>5. CASE Advance(w)
  <2>1. PICK s \in Calls : worker' = [worker EXCEPT ![w] = s] /\ s.pc = "item"
    BY <1>1, <1>5, AdvanceIs
  <2>2. CreatedOK(s, items) /\ LookupOK(s, items, mappings)
    BY <2>1 DEF CreatedOK, LookupOK, Undoing, Undone
  <2> QED
    BY <1>1, <2>1, <2>2, KeepsPrivate
<1>6. CASE Verify(w) /\ Goto(w, "compensate")
  <2>1. batch.token = w => items[Item(w)].outcome \in Open
    <3>1. \/ /\ worker[w].pc = "verify"
             /\ ~ (items[Item(w)].outcome = worker[w].outcome /\ mappings[Item(w)] = "new")
          \/ Advance(w)
      BY <1>6 DEF Verify
    <3>2. ~ Advance(w)
      <4>1. worker'[w].pc = "compensate"
        BY <1>1, <1>6 DEF Goto, TypeOK, Calls
      <4>2. Advance(w) => worker'[w].pc = "item"
        BY <1>1 DEF Advance, TypeOK, Calls
      <4> QED
        BY <4>1, <4>2
    <3> QED
      BY <1>2, <3>1, <3>2 DEF LookupOK
  <2> QED
    BY <1>3, <1>6, <2>1 DEF Undone
<1>7. CASE Compensate(w) \/ DeleteIdentity(w) \/ DeleteOwnership(w)
  <2>1. batch.token = w => items[Item(w)].outcome \in Open
    BY <1>2, <1>7 DEF LookupOK, Undone, Compensate, DeleteIdentity, DeleteOwnership
  <2>2. CASE Compensate(w)
    BY <1>3, <1>4, <2>1, <2>2 DEF Compensate, Created, Creation, Undone
  <2>3. CASE DeleteIdentity(w)
    BY <1>2, <1>3, <1>4, <2>1, <2>3 DEF DeleteIdentity, CreatedOK, Undone
  <2>4. CASE DeleteOwnership(w)
    BY <1>4, <2>4 DEF DeleteOwnership
  <2> QED
    BY <1>7, <2>2, <2>3, <2>4
<1> QED
  BY <1>5, <1>6, <1>7 DEF Verify

(* The plan creates only what is not mapped. *)
LEMMA PlanCreates ==
    ASSUME NEW i \in Items, Plan[i].action = "create"
    PROVE  mappings[i] = "none"
<1>1. Plan[i].action = PlannedAction(i)
  BY DEF Plan
<1>2. PlannedAction(i) = "create"
  BY <1>1
<1>3. CASE mappings[i] # "none" /\ identity[i].rev = 0
  BY <1>2, <1>3 DEF PlannedAction
<1>4. CASE mappings[i] # "none" /\ identity[i].rev # 0
  BY <1>2, <1>4 DEF PlannedAction
<1> QED
  BY <1>3, <1>4

(* Steps that change the batch: no call is at work on an item when a plan   *)
(* is made, and the call that takes the token has not started on one.       *)
LEMMA KeepsBatch ==
    ASSUME ImportInv, UndoInv, ImportInv', NEW w \in Workers,
           \/ Begin(w) \/ RetryPreview(w) \/ Finish(w) \/ FinishPreviewRetry(w)
           \/ RetryPreviewFails(w) \/ \E op \in Ops, k \in Keys : Check(w, op, k)
    PROVE  UndoInv'
<1>1. /\ mappings' = mappings /\ TypeOK /\ PlanInv
      /\ worker \in [Workers -> Calls] /\ worker[w] \in Calls
  BY DEF ImportInv, TypeOK, Begin, RetryPreview, Finish, FinishPreviewRetry,
     RetryPreviewFails, Check, store
<1>2. CASE items' = items
  <2>1. /\ worker'[w].pc \notin Working
        /\ \A u \in Workers : u # w => worker'[u] = worker[u]
    <3>1. CASE Return(w)
      BY <1>1, <3>1, IdleTyped DEF Return, Working, Undoing
    <3>2. CASE Begin(w) /\ ~ Return(w)
      <4> DEFINE pc == CASE ~ worker[w].preview -> "item"
                         [] worker[w].preview /\ Planned -> "planned"
                         [] OTHER -> "pull"
      <4>1. worker' = [worker EXCEPT ![w].pc = pc,
                         ![w].resuming = @ \/ attempts[<<worker[w].op, worker[w].key>>] = "none",
                         ![w].todo = Selected(worker[w].op)]
        BY <3>2 DEF Begin
      <4>2. pc \in {"item", "planned", "pull"}
        BY <1>1 DEF Calls
      <4> HIDE DEF pc
      <4>3. worker'[w].pc = pc /\ \A u \in Workers : u # w => worker'[u] = worker[u]
        BY <1>1, <4>1 DEF Calls
      <4> QED
        BY <4>2, <4>3 DEF Working, Undoing
    <3>3. ASSUME NEW op \in Ops, NEW k \in Keys, Check(w, op, k)
          PROVE  /\ worker'[w].pc \notin Working
                 /\ \A u \in Workers : u # w => worker'[u] = worker[u]
      <4>1. /\ worker'[w].pc = "begin"
            /\ \A u \in Workers : u # w => worker'[u] = worker[u]
        BY <1>1, <3>3 DEF Check, Idle
      <4> QED
        BY <4>1 DEF Working, Undoing
    <3>4. CASE Goto(w, "planned")
      <4>1. worker'[w].pc = "planned" /\ \A u \in Workers : u # w => worker'[u] = worker[u]
        BY <1>1, <3>4 DEF Goto, Calls
      <4> QED
        BY <4>1 DEF Working, Undoing
    <3> QED
      BY <3>1, <3>2, <3>3, <3>4 DEF RetryPreview, Finish, FinishPreviewRetry,
         RetryPreviewFails, FinishOperation
  <2>2. batch' = batch \/ batch'.token \in {w, Nobody}
    <3>1. CASE Begin(w)
      BY <1>1, <3>1 DEF Begin, TypeOK
    <3>2. ASSUME NEW status, NEW retryable, FinishOperation(w, status, retryable)
          PROVE  batch' = batch \/ batch'.token \in {w, Nobody}
      BY <3>2 DEF FinishOperation
    <3>3. CASE Finish(w) \/ FinishPreviewRetry(w) \/ RetryPreviewFails(w)
      BY <3>2, <3>3 DEF Finish, FinishPreviewRetry, RetryPreviewFails
    <3>4. CASE RetryPreview(w) \/ \E op \in Ops, k \in Keys : Check(w, op, k)
      BY <3>4 DEF RetryPreview, Check, store
    <3> QED
      BY <3>1, <3>3, <3>4
  <2>3. Nobody \notin Workers
    BY DirectoryAssumption DEF Nobody
  <2>4. CreatedOK(worker'[w], items) /\ LookupOK(worker'[w], items, mappings)
    BY <2>1 DEF CreatedOK, LookupOK, Working, Undoing, Undone
  <2>5. ASSUME NEW u \in Workers
        PROVE  /\ CreatedOK(worker'[u], items')
               /\ batch'.token = u => LookupOK(worker'[u], items', mappings')
    BY <1>1, <1>2, <2>1, <2>2, <2>3, <2>4 DEF UndoInv
  <2>6. CreateOpen'
    BY <1>1, <1>2 DEF UndoInv, CreateOpen
  <2> QED
    BY <2>5, <2>6 DEF UndoInv
<1>3. CASE RetryPreview(w) /\ items' = Plan /\ Goto(w, "planned") /\ ~ Planned
  <2>1. /\ worker'[w].pc = "planned" /\ \A u \in Workers : u # w => worker'[u] = worker[u]
    BY <1>1, <1>3 DEF Goto, Calls
  <2>2. \A u \in Workers : worker'[u].pc \notin Working
    BY <1>1, <1>3, <2>1 DEF PlanInv, Loop, Working, Undoing
  <2>3. \A u \in Workers : /\ CreatedOK(worker'[u], items')
                           /\ LookupOK(worker'[u], items', mappings')
    BY <2>2 DEF CreatedOK, LookupOK, Working, Undoing, Undone
  <2>4. CreateOpen'
    BY <1>1, <1>3, PlanCreates DEF CreateOpen
  <2> QED
    BY <2>3, <2>4 DEF UndoInv
<1> QED
  BY <1>2, <1>3 DEF Begin, RetryPreview, Finish, FinishPreviewRetry, RetryPreviewFails,
     Check, store

LEMMA KeepsAround ==
    ASSUME ImportInv, UndoInv,
           \/ Preview \/ PreviewFails \/ Expire \/ Stall \/ UNCHANGED vars
           \/ \E i \in Items : Claim(i) \/ Edit(i)
    PROVE  UndoInv'
<1>1. /\ UNCHANGED <<mappings, worker>> /\ TypeOK /\ PlanInv /\ batch'.token = batch.token
  BY DEF ImportInv, Preview, PreviewFails, Expire, Stall, LeaseRunsOut, Claim, Edit, vars,
     store, TypeOK
<1>2. CASE Preview
  <2>1. \A u \in Workers : worker[u].pc = "idle"
    BY <1>1, <1>2 DEF Preview, PlanInv
  <2>2. \A u \in Workers : /\ CreatedOK(worker'[u], items')
                           /\ LookupOK(worker'[u], items', mappings')
    BY <1>1, <2>1 DEF CreatedOK, LookupOK, Undoing, Undone
  <2>3. CreateOpen'
    BY <1>1, <1>2, PlanCreates DEF Preview, CreateOpen
  <2> QED
    BY <2>2, <2>3 DEF UndoInv
<1>3. CASE items' = items
  <2>1. CreateOpen'
    BY <1>1, <1>3 DEF UndoInv, CreateOpen
  <2> QED
    BY <1>1, <1>3, <2>1 DEF UndoInv
<1> QED
  BY <1>2, <1>3 DEF PreviewFails, Expire, Stall, Claim, Edit, vars, store

LEMMA KeepsInit == Init => UndoInv
<1> SUFFICES ASSUME Init PROVE UndoInv
  OBVIOUS
<1>1. /\ \A w \in Workers : worker[w].pc = "idle"
      /\ \A i \in Items : items[i].action = "unplanned"
  BY IdleTyped DEF Init
<1>2. \A w \in Workers : /\ CreatedOK(worker[w], items)
                         /\ LookupOK(worker[w], items, mappings)
  BY <1>1 DEF CreatedOK, LookupOK, Undoing, Undone
<1>3. CreateOpen
  BY <1>1 DEF CreateOpen
<1> QED
  BY <1>2, <1>3 DEF UndoInv

LEMMA KeepsNext ==
    ASSUME ImportInv, ImportInv', UndoInv, [Next]_vars
    PROVE  UndoInv'
<1>1. ASSUME NEW w \in Workers, ServiceStep(w)
      PROVE  UndoInv'
  BY <1>1, KeepsBatch, KeepsTarget, KeepsSave, KeepsUndo DEF ServiceStep
<1>2. ASSUME NEW w \in Workers, Crash(w)
      PROVE  UndoInv'
  BY <1>2, KeepsReturn DEF Crash, store
<1>3. ASSUME NEW w \in Workers, FaultStep(w)
      PROVE  UndoInv'
  BY <1>2, <1>3, KeepsBatch, KeepsTarget, KeepsSave DEF FaultStep
<1>4. ASSUME NEW w \in Workers, NEW a \in AttemptIds, Check(w, a[1], a[2])
      PROVE  UndoInv'
  <2>1. a[1] \in Ops /\ a[2] \in Keys
    BY DEF AttemptIds
  <2> QED
    BY <1>4, <2>1, KeepsBatch
<1> QED
  BY <1>1, <1>3, <1>4, KeepsAround DEF Next

(* What an import call takes back while it has the lease token is its own   *)
(* creation, planned as one and neither settled nor mapped: the invariant   *)
(* behind Apply's rollback, itemMappingCommitted and Compensate.            *)
THEOREM UndoInvariant == Spec => []UndoInv
BY KeepsInit, KeepsNext, ImportInvariant, PTL DEF Spec

(* Only three steps take an identity or its ownership away. *)
LEMMA TakenAwayBy ==
    ASSUME ImportInv, [Next]_vars, NEW i \in Items,
           identity[i].rev # 0, ownership[i] # "none",
           identity'[i].rev = 0 \/ ownership'[i] = "none"
    PROVE  \E w \in Workers :
               /\ worker[w].pc \in Working /\ i = Item(w)
               /\ \A u \in Workers : u # w => worker'[u] = worker[u]
               /\ \/ worker[w].pc = "register" /\ Created(w)
                  \/ worker[w].pc \in {"delete", "unlock"}
<1>1. /\ TypeOK /\ identity \in [Items -> Identities] /\ worker \in [Workers -> Calls]
      /\ ownership \in [Items -> {"none", "locked", "claimed"}]
  BY DEF ImportInv, TypeOK
<1>2. identity[i].rev \in Nat
  BY <1>1 DEF Identities
<1>3. ASSUME NEW w \in Workers, RegisterFails(w) \/ DeleteIdentity(w) \/ DeleteOwnership(w)
      PROVE  /\ worker[w].pc \in Working /\ i = Item(w)
             /\ \A u \in Workers : u # w => worker'[u] = worker[u]
             /\ \/ worker[w].pc = "register" /\ Created(w)
                \/ worker[w].pc \in {"delete", "unlock"}
  <2>1. worker[w].pc \in Working
    BY <1>3 DEF RegisterFails, DeleteIdentity, DeleteOwnership, Working, Undoing
  <2>2. Item(w) \in Items
    BY <2>1, AtWork
  <2>3. \A u \in Workers : u # w => worker'[u] = worker[u]
    BY <1>1, <1>3 DEF RegisterFails, DeleteIdentity, DeleteOwnership, Decide, Goto, Return
  <2>4. CASE RegisterFails(w)
    BY <1>1, <1>2, <2>1, <2>2, <2>3, <2>4 DEF RegisterFails
  <2>5. CASE DeleteIdentity(w)
    BY <1>1, <1>2, <2>1, <2>2, <2>3, <2>5 DEF DeleteIdentity
  <2>6. CASE DeleteOwnership(w)
    BY <1>1, <1>2, <2>1, <2>2, <2>3, <2>6 DEF DeleteOwnership
  <2> QED
    BY <1>3, <2>4, <2>5, <2>6
<1>4. ASSUME NEW w \in Workers, Reconcile(w) \/ Create(w) \/ Register(w)
      PROVE  FALSE
  <2>1. worker[w].pc \in Working
    BY <1>4 DEF Reconcile, Create, Register, Working
  <2>2. Item(w) \in Items /\ identity[Item(w)].rev \in Nat
    BY <1>1, <2>1, AtWork DEF Identities
  <2>3. identity'[i].rev # 0
    BY <1>1, <1>2, <1>4, <2>2 DEF Reconcile, Create, Register
  <2>4. ownership'[i] # "none"
    BY <1>1, <1>4, <2>2 DEF Reconcile, Create, Register
  <2> QED
    BY <2>3, <2>4
<1>5. ASSUME NEW j \in Items, Claim(j) \/ Edit(j)
      PROVE  FALSE
  BY <1>1, <1>2, <1>5 DEF Claim, Edit
<1>6. CASE UNCHANGED <<identity, ownership>>
  BY <1>6
<1>7. ASSUME NEW w \in Workers, ServiceStep(w) \/ FaultStep(w)
      PROVE  \/ UNCHANGED <<identity, ownership>>
             \/ RegisterFails(w) \/ DeleteIdentity(w) \/ DeleteOwnership(w)
             \/ Reconcile(w) \/ Create(w) \/ Register(w)
  BY <1>7 DEF ServiceStep, FaultStep, Begin, RetryPreview, FinishPreviewRetry, NextItem,
     ApplyTarget, SaveItem, Verify, Compensate, Finish, RetryPreviewFails, TargetFails,
     SaveFails, Crash, target
<1>8. ASSUME NEW w \in Workers, NEW a \in AttemptIds, Check(w, a[1], a[2])
      PROVE  UNCHANGED <<identity, ownership>>
  BY <1>8 DEF Check, target
<1>9. CASE Preview \/ PreviewFails \/ Expire \/ Stall \/ UNCHANGED vars
  BY <1>6, <1>9 DEF Preview, PreviewFails, Expire, Stall, vars, target
<1> QED
  BY <1>3, <1>4, <1>5, <1>6, <1>7, <1>8, <1>9 DEF Next

(* A call that has the lease token takes away no identity that is mapped:   *)
(* neither Apply's rollback nor Compensate can, for any plan, any number of *)
(* calls, crashes, lost answers of the save, stalls and takeovers.  What    *)
(* remains is the undo of a call whose lease was taken over.                *)
THEOREM HoldersKeepMapped == Spec => HolderKeepsMapped
<1>1. ASSUME ImportInv, UndoInv, [Next]_vars, NEW i \in Items,
             mappings[i] # "none", identity[i].rev # 0, ownership[i] # "none",
             identity'[i].rev = 0 \/ ownership'[i] = "none",
             NEW w \in Workers, worker'[w] # worker[w]
      PROVE  batch.token # w
  <2>1. /\ worker[w].pc \in Working /\ i = Item(w)
        /\ \/ worker[w].pc = "register" /\ Created(w)
           \/ worker[w].pc \in {"delete", "unlock"}
    BY <1>1, TakenAwayBy
  <2>2. Item(w) = Min(worker[w].todo) /\ Item(w) \in worker[w].todo
    BY <1>1, <2>1, AtWork
  <2>3. items[i].action = "create"
    BY <1>1, <2>1, <2>2 DEF UndoInv, CreatedOK, Created, Creation, Undoing
  <2>4. batch.token = w => items[i].outcome \in Open
    BY <1>1, <2>1, <2>2 DEF UndoInv, LookupOK, Undone, ImportInv, HolderInv, TodoOK, Reading
  <2> QED
    BY <1>1, <2>3, <2>4 DEF UndoInv, CreateOpen
<1>2. ImportInv /\ UndoInv /\ [Next]_vars =>
          [\A i \in Items :
              /\ mappings[i] # "none" /\ identity[i].rev # 0 /\ ownership[i] # "none"
              /\ identity'[i].rev = 0 \/ ownership'[i] = "none"
              => \A w \in Workers : worker'[w] # worker[w] => batch.token # w]_vars
  BY <1>1
<1> QED
  BY <1>2, UndoInvariant, ImportInvariant, PTL DEF Spec, HolderKeepsMapped
=============================================================================
