-------------------------- MODULE GuardRolesProofs --------------------------
(***************************************************************************)
(* Proofs about GuardRoles, for any number of accounts, roles, assignments *)
(* and concurrent calls, and any number of failed audits.                  *)
(***************************************************************************)
EXTENDS GuardRoles, TLAPS

AtAssign(s) == s.step \in {"auditAssign", "undoAssign"}

AtRevoke(s) == s.step \in {"auditRevoke", "undoRevoke"}

(* What the state s of a call knows, when the ids u are in use and a are    *)
(* the stored assignments: a call that has deleted an assignment finds it   *)
(* still deleted.                                                          *)
CallOK(s, u, a) ==
    /\ s.step = "assign" \/ AtRevoke(s) => s.on \in Assignment /\ s.on.source = "local"
    /\ s.step = "revoke" \/ AtAssign(s) \/ AtRevoke(s) => s.id \in u
    /\ AtRevoke(s) => a[s.id] = None
    /\ s.step \in {"role", "auditRole", "undoRole"} => s.role \in Custom

(* At most one call has created, and at most one has deleted, an assignment *)
(* without having answered yet.                                            *)
Apart ==
    \A c, d \in Callers :
        c # d /\ call[c].id = call[d].id =>
            /\ ~(AtAssign(call[c]) /\ AtAssign(call[d]))
            /\ ~(AtRevoke(call[c]) /\ AtRevoke(call[d]))

Assigning(i) == \E c \in Callers : call[c].id = i /\ AtAssign(call[c])

Revoking(i) == \E c \in Callers : call[c].id = i /\ AtRevoke(call[c])

StoreOK ==
    /\ \A i \in Ids : assignment[i] # None => i \in used
    /\ created \subseteq used /\ revoked \subseteq used
    /\ accounts = {} => used = {} /\ \A c \in Callers : call[c].step = "idle"

(* How the assignment i, the audit trail and the calls at work on it agree. *)
AuditOK(i) ==
    /\ Assigning(i) => i \notin created
    /\ Revoking(i) \/ assignment[i] # None => i \notin revoked
    /\ assignment[i] # None /\ assignment[i].source = "external" =>
           i \notin created /\ ~Assigning(i)
    /\ i \notin cut =>
         /\ Revoking(i) => i \in created \/ Assigning(i)
         /\ assignment[i] # None /\ assignment[i].source = "local" =>
                i \in created \/ Assigning(i)
         /\ (i \in created \/ Assigning(i)) /\ ~Revoking(i) /\ i \notin revoked =>
                assignment[i] # None

GuardInv ==
    /\ TypeOK
    /\ \A c \in Callers : CallOK(call[c], used, assignment)
    /\ Apart
    /\ StoreOK
    /\ \A i \in Ids : AuditOK(i)

(* What a step of call c to the state s makes of the calls: the others know *)
(* as much as they did, and which assignments calls are at work on changes  *)
(* for this one only.                                                      *)
CallEffect(c, s) ==
    /\ \A d \in Callers : CallOK(call'[d], used', assignment')
    /\ Apart'
    /\ \A i \in Ids :
           /\ Assigning(i)' <=> \/ AtAssign(s) /\ s.id = i
                                \/ Assigning(i) /\ ~(AtAssign(call[c]) /\ call[c].id = i)
           /\ Revoking(i)' <=> \/ AtRevoke(s) /\ s.id = i
                               \/ Revoking(i) /\ ~(AtRevoke(call[c]) /\ call[c].id = i)

(* The private state of a call keeps its shape. *)
LEMMA CallTyped ==
    ASSUME NEW s \in Call
    PROVE  /\ IdleCall \in Call
           /\ \A step \in Steps : [s EXCEPT !.step = step] \in Call
           /\ \A a \in Assignment : /\ [s EXCEPT !.step = "assign", !.on = a] \in Call
                                    /\ [s EXCEPT !.step = "auditRevoke", !.on = a] \in Call
           /\ \A i \in Ids : /\ [s EXCEPT !.step = "auditAssign", !.id = i] \in Call
                             /\ [s EXCEPT !.step = "revoke", !.id = i] \in Call
           /\ \A r \in Custom, m \in BOOLEAN :
                  [s EXCEPT !.step = "role", !.role = r, !.manages = m] \in Call
<1>1. IdleCall \in Call
  BY DEF IdleCall, Call, Steps
<1>2. \A step \in Steps : [s EXCEPT !.step = step] \in Call
  BY DEF Call
<1>3. \A a \in Assignment : /\ [s EXCEPT !.step = "assign", !.on = a] \in Call
                            /\ [s EXCEPT !.step = "auditRevoke", !.on = a] \in Call
  BY DEF Call, Steps
<1>4. \A i \in Ids : /\ [s EXCEPT !.step = "auditAssign", !.id = i] \in Call
                     /\ [s EXCEPT !.step = "revoke", !.id = i] \in Call
  BY DEF Call, Steps
<1>5. \A r \in Custom, m \in BOOLEAN :
          [s EXCEPT !.step = "role", !.role = r, !.manages = m] \in Call
  BY DEF Call, Steps
<1> QED
  BY <1>1, <1>2, <1>3, <1>4, <1>5

(* A call may go to a state that knows no more than it may, and takes an    *)
(* assignment up only when no other call has it.                            *)
LEMMA CallStep ==
    ASSUME GuardInv, NEW c \in Callers, NEW s \in Call,
           call' = [call EXCEPT ![c] = s],
           used \subseteq used', CallOK(s, used', assignment'),
           \A i \in Ids : Revoking(i) => assignment'[i] = None \/ (AtRevoke(call[c]) /\ call[c].id = i),
           AtAssign(s) => \/ AtAssign(call[c]) /\ s.id = call[c].id
                          \/ ~Assigning(s.id),
           AtRevoke(s) => \/ AtRevoke(call[c]) /\ s.id = call[c].id
                          \/ ~Revoking(s.id)
    PROVE  CallEffect(c, s)
<1>1. /\ call \in [Callers -> Call] /\ call'[c] = s
      /\ \A d \in Callers \ {c} : call'[d] = call[d]
  BY DEF GuardInv, TypeOK
<1>2. ASSUME NEW d \in Callers PROVE CallOK(call'[d], used', assignment')
  <2>1. CASE d # c
    <3>1. CallOK(call[d], used, assignment) /\ call'[d] = call[d]
      BY <1>1, <2>1 DEF GuardInv
    <3>2. ASSUME AtRevoke(call[d]) PROVE assignment'[call[d].id] = None
      <4>1. call[d].id \in Ids /\ Revoking(call[d].id)
        BY <3>1, <3>2 DEF CallOK, GuardInv, TypeOK, Revoking
      <4>2. ~(AtRevoke(call[c]) /\ call[c].id = call[d].id)
        BY <2>1, <3>2 DEF GuardInv, Apart
      <4> QED BY <4>1, <4>2
    <3> QED BY <3>1, <3>2 DEF CallOK
  <2> QED BY <1>1, <2>1
<1>3. Apart'
  <2> SUFFICES ASSUME NEW d \in Callers \ {c}, call'[c].id = call'[d].id
               PROVE  /\ ~(AtAssign(call'[c]) /\ AtAssign(call'[d]))
                      /\ ~(AtRevoke(call'[c]) /\ AtRevoke(call'[d]))
    BY <1>1 DEF GuardInv, Apart, AtAssign, AtRevoke
  <2> QED BY <1>1 DEF GuardInv, Apart, Assigning, Revoking
<1>4. ASSUME NEW i \in Ids
      PROVE  Assigning(i)' <=> \/ AtAssign(s) /\ s.id = i
                               \/ Assigning(i) /\ ~(AtAssign(call[c]) /\ call[c].id = i)
  <2>1. ASSUME Assigning(i) /\ ~(AtAssign(call[c]) /\ call[c].id = i) PROVE Assigning(i)'
    BY <1>1, <2>1 DEF Assigning, AtAssign
  <2>2. ASSUME AtAssign(s) /\ s.id = i PROVE Assigning(i)'
    BY <1>1, <2>2 DEF Assigning, AtAssign
  <2>3. ASSUME Assigning(i)', ~(AtAssign(s) /\ s.id = i)
        PROVE  Assigning(i) /\ ~(AtAssign(call[c]) /\ call[c].id = i)
    <3>1. PICK d \in Callers : call'[d].id = i /\ AtAssign(call'[d])
      BY <2>3 DEF Assigning, AtAssign
    <3> QED BY <1>1, <2>3, <3>1 DEF Assigning, GuardInv, Apart
  <2> QED BY <2>1, <2>2, <2>3
<1>5. ASSUME NEW i \in Ids
      PROVE  Revoking(i)' <=> \/ AtRevoke(s) /\ s.id = i
                              \/ Revoking(i) /\ ~(AtRevoke(call[c]) /\ call[c].id = i)
  <2>1. ASSUME Revoking(i) /\ ~(AtRevoke(call[c]) /\ call[c].id = i) PROVE Revoking(i)'
    BY <1>1, <2>1 DEF Revoking, AtRevoke
  <2>2. ASSUME AtRevoke(s) /\ s.id = i PROVE Revoking(i)'
    BY <1>1, <2>2 DEF Revoking, AtRevoke
  <2>3. ASSUME Revoking(i)', ~(AtRevoke(s) /\ s.id = i)
        PROVE  Revoking(i) /\ ~(AtRevoke(call[c]) /\ call[c].id = i)
    <3>1. PICK d \in Callers : call'[d].id = i /\ AtRevoke(call'[d])
      BY <2>3 DEF Revoking, AtRevoke
    <3> QED BY <1>1, <2>3, <3>1 DEF Revoking, GuardInv, Apart
  <2> QED BY <2>1, <2>2, <2>3
<1> QED
  BY <1>2, <1>3, <1>4, <1>5 DEF CallEffect

(* A manager exists only once there are accounts, and so does a call. *)
LEMMA AccountsExist ==
    ASSUME GuardInv
    PROVE  /\ \A a : IsManager(a) => accounts # {}
           /\ \A c \in Callers : call[c].step # "idle" => accounts # {}
BY DEF GuardInv, StoreOK, IsManager, Managing

(* A step that changes nothing in the stores but roles, and leaves the call *)
(* with what it has created or deleted.                                     *)
LEMMA QuietStep ==
    ASSUME GuardInv, NEW c \in Callers, NEW s \in Call,
           call' = [call EXCEPT ![c] = s], accounts # {},
           role' \in [Roles -> {"absent", "plain", "manages"}], faults' \in 0..MaxFaults,
           UNCHANGED <<accounts, assignment, used, created, revoked, cut>>,
           CallOK(s, used, assignment),
           AtAssign(s) <=> AtAssign(call[c]),
           AtRevoke(s) <=> AtRevoke(call[c]),
           AtAssign(s) \/ AtRevoke(s) => s.id = call[c].id
    PROVE  GuardInv'
<1>1. TypeOK'
  BY DEF GuardInv, TypeOK
<1>2. /\ \A d \in Callers : CallOK(call'[d], used', assignment')
      /\ Apart'
      /\ \A i \in Ids : Assigning(i)' <=> Assigning(i)
      /\ \A i \in Ids : Revoking(i)' <=> Revoking(i)
  <2>1. \A i \in Ids : Revoking(i) => assignment'[i] = None
    BY DEF GuardInv, CallOK, Revoking
  <2>2. \A i \in Ids : /\ AtAssign(call[c]) /\ call[c].id = i => Assigning(i)
                       /\ AtRevoke(call[c]) /\ call[c].id = i => Revoking(i)
    BY DEF Assigning, Revoking
  <2>3. CallEffect(c, s)
    BY <2>1, CallStep
  <2> QED BY <2>2, <2>3 DEF CallEffect
<1>3. StoreOK'
  BY DEF GuardInv, StoreOK
<1>4. \A i \in Ids : AuditOK(i)'
  BY <1>2 DEF GuardInv, AuditOK
<1> QED
  BY <1>1, <1>2, <1>3, <1>4 DEF GuardInv

LEMMA BeginAssignStep ==
    ASSUME GuardInv, NEW c \in Callers, NEW actor \in Accounts, NEW new \in Assignment,
           new.source = "local", BeginAssign(c, actor, new)
    PROVE  GuardInv'
<1> DEFINE s == [call[c] EXCEPT !.step = "assign", !.on = new]
<1>1. s \in Call /\ call[c] \in Call
  BY CallTyped DEF GuardInv, TypeOK
<1>2. CallOK(s, used, assignment) /\ ~AtAssign(s) /\ ~AtRevoke(s)
  BY <1>1 DEF CallOK, AtAssign, AtRevoke, Call
<1>3. ~AtAssign(call[c]) /\ ~AtRevoke(call[c]) /\ accounts # {}
  BY AccountsExist DEF BeginAssign, AtAssign, AtRevoke
<1> QED
  BY <1>1, <1>2, <1>3, QuietStep DEF BeginAssign, audit, GuardInv, TypeOK

LEMMA BeginRevokeStep ==
    ASSUME GuardInv, NEW c \in Callers, NEW actor \in Accounts, NEW i \in Ids,
           BeginRevoke(c, actor, i)
    PROVE  GuardInv'
<1> DEFINE s == [call[c] EXCEPT !.step = "revoke", !.id = i]
<1>1. s \in Call /\ call[c] \in Call
  BY CallTyped DEF GuardInv, TypeOK
<1>2. CallOK(s, used, assignment) /\ ~AtAssign(s) /\ ~AtRevoke(s)
  BY <1>1 DEF CallOK, AtAssign, AtRevoke, Call, BeginRevoke
<1>3. ~AtAssign(call[c]) /\ ~AtRevoke(call[c]) /\ accounts # {}
  BY AccountsExist DEF BeginRevoke, AtAssign, AtRevoke
<1> QED
  BY <1>1, <1>2, <1>3, QuietStep DEF BeginRevoke, audit, GuardInv, TypeOK

LEMMA BeginRoleStep ==
    ASSUME GuardInv, NEW c \in Callers, NEW actor \in Accounts, NEW r \in Custom,
           NEW manages \in BOOLEAN, BeginRole(c, actor, r, manages)
    PROVE  GuardInv'
<1> DEFINE s == [call[c] EXCEPT !.step = "role", !.role = r, !.manages = manages]
<1>1. s \in Call /\ call[c] \in Call
  BY CallTyped DEF GuardInv, TypeOK
<1>2. CallOK(s, used, assignment) /\ ~AtAssign(s) /\ ~AtRevoke(s)
  BY <1>1 DEF CallOK, AtAssign, AtRevoke, Call
<1>3. ~AtAssign(call[c]) /\ ~AtRevoke(call[c]) /\ accounts # {}
  BY AccountsExist DEF BeginRole, AtAssign, AtRevoke
<1> QED
  BY <1>1, <1>2, <1>3, QuietStep DEF BeginRole, audit, GuardInv, TypeOK

(* A call that has nothing to take back returns. *)
LEMMA ReturnStep ==
    ASSUME GuardInv, NEW c \in Callers, call[c].step # "idle", Return(c),
           ~AtAssign(call[c]), ~AtRevoke(call[c]),
           role' \in [Roles -> {"absent", "plain", "manages"}], faults' \in 0..MaxFaults,
           UNCHANGED <<accounts, assignment, used, created, revoked, cut>>
    PROVE  GuardInv'
<1>1. IdleCall \in Call /\ accounts # {}
  BY CallTyped, AccountsExist DEF GuardInv, TypeOK
<1>2. CallOK(IdleCall, used, assignment) /\ ~AtAssign(IdleCall) /\ ~AtRevoke(IdleCall)
  BY DEF CallOK, AtAssign, AtRevoke, IdleCall
<1> QED
  BY <1>1, <1>2, QuietStep DEF Return
(* A call that moves on to another step of the same operation. *)
LEMMA GotoStep ==
    ASSUME GuardInv, NEW c \in Callers, call[c].step # "idle", NEW step \in Steps,
           Goto(c, step),
           role' \in [Roles -> {"absent", "plain", "manages"}], faults' \in 0..MaxFaults,
           UNCHANGED <<accounts, assignment, used, created, revoked, cut>>,
           \/ call[c].step = "auditAssign" /\ step = "undoAssign"
           \/ call[c].step = "auditRevoke" /\ step = "undoRevoke"
           \/ /\ call[c].step \in {"role", "auditRole"}
              /\ step \in {"auditRole", "undoRole"}
    PROVE  GuardInv'
<1> DEFINE s == [call[c] EXCEPT !.step = step]
<1>1. s \in Call /\ call[c] \in Call /\ accounts # {}
  BY CallTyped, AccountsExist DEF GuardInv, TypeOK
<1>2. /\ s.step = step /\ s.id = call[c].id /\ s.on = call[c].on /\ s.role = call[c].role
      /\ CallOK(call[c], used, assignment)
  BY <1>1 DEF Call, GuardInv
<1>3. /\ CallOK(s, used, assignment)
      /\ AtAssign(s) <=> AtAssign(call[c])
      /\ AtRevoke(s) <=> AtRevoke(call[c])
  BY <1>2 DEF CallOK, AtAssign, AtRevoke
<1>4. call' = [call EXCEPT ![c] = s]
  BY DEF Goto
<1> QED
  BY <1>1, <1>2, <1>3, <1>4, QuietStep

LEMMA RoleStep ==
    ASSUME GuardInv, NEW c \in Callers, CreateRole(c) \/ AuditRole(c) \/ UndoRole(c)
    PROVE  GuardInv'
<1> USE DEF audit
<1>1. /\ call[c].step # "idle" /\ ~AtAssign(call[c]) /\ ~AtRevoke(call[c])
      /\ call[c].role \in Custom
  BY DEF CreateRole, AuditRole, UndoRole, AtAssign, AtRevoke, GuardInv, CallOK
<1>2. CASE CreateRole(c)
  <2>1. /\ role' \in [Roles -> {"absent", "plain", "manages"}] /\ faults' \in 0..MaxFaults
        /\ UNCHANGED <<accounts, assignment, used, created, revoked, cut>>
        /\ call[c].step = "role"
    BY <1>2 DEF CreateRole, GuardInv, TypeOK
  <2>2. Return(c) \/ Goto(c, "auditRole")
    BY <1>2 DEF CreateRole
  <2>3. "auditRole" \in Steps
    BY DEF Steps
  <2> QED BY <1>1, <2>1, <2>2, <2>3, ReturnStep, GotoStep
<1>3. CASE AuditRole(c)
  <2>1. /\ role' \in [Roles -> {"absent", "plain", "manages"}] /\ faults' \in 0..MaxFaults
        /\ UNCHANGED <<accounts, assignment, used, created, revoked, cut>>
        /\ call[c].step = "auditRole"
    BY <1>3, GuardAssumption DEF AuditRole, GuardInv, TypeOK, Fault
  <2>2. Return(c) \/ Goto(c, "undoRole")
    BY <1>3 DEF AuditRole
  <2>3. "undoRole" \in Steps
    BY DEF Steps
  <2> QED BY <1>1, <2>1, <2>2, <2>3, ReturnStep, GotoStep
<1>4. CASE UndoRole(c)
  <2>1. /\ role' \in [Roles -> {"absent", "plain", "manages"}] /\ faults' \in 0..MaxFaults
        /\ UNCHANGED <<accounts, assignment, used, created, revoked, cut>>
        /\ Return(c)
    BY <1>4 DEF UndoRole, GuardInv, TypeOK
  <2> QED BY <1>1, <2>1, ReturnStep
<1> QED
  BY <1>2, <1>3, <1>4

LEMMA CreateRoleAssignmentStep ==
    ASSUME GuardInv, NEW c \in Callers, NEW i \in Ids, CreateRoleAssignment(c, i)
    PROVE  GuardInv'
<1> USE DEF audit
<1> DEFINE new == call[c].on
           s == [call[c] EXCEPT !.step = "auditAssign", !.id = i]
<1>1. /\ call[c].step = "assign" /\ accounts # {} /\ call[c] \in Call
      /\ new \in Assignment /\ new.source = "local"
      /\ ~AtAssign(call[c]) /\ ~AtRevoke(call[c])
  BY AccountsExist DEF CreateRoleAssignment, GuardInv, TypeOK, CallOK, AtAssign, AtRevoke
<1>2. CASE ~Creatable(new) /\ Return(c) /\ UNCHANGED <<assignment, used>>
  <2>1. /\ role' \in [Roles -> {"absent", "plain", "manages"}] /\ faults' \in 0..MaxFaults
        /\ UNCHANGED <<accounts, assignment, used, created, revoked, cut>>
    BY <1>2 DEF CreateRoleAssignment, GuardInv, TypeOK
  <2> QED BY <1>1, <1>2, <2>1, ReturnStep
<1>3. CASE /\ i \notin used
           /\ assignment' = [assignment EXCEPT ![i] = new]
           /\ used' = used \cup {i}
           /\ call' = [call EXCEPT ![c] = s]
  <2>1. s \in Call /\ s.id = i /\ s.step = "auditAssign" /\ AtAssign(s) /\ ~AtRevoke(s)
    BY <1>1, CallTyped DEF Call, AtAssign, AtRevoke
  <2>2. new # None /\ UNCHANGED <<accounts, role, created, revoked, cut, faults>>
    BY <1>1, GuardAssumption DEF CreateRoleAssignment
  <2>3. ~Assigning(i) /\ ~Revoking(i)
    BY <1>3 DEF GuardInv, CallOK, Assigning, Revoking
  <2>4. /\ \A j \in Ids : j # i => assignment'[j] = assignment[j]
        /\ assignment'[i] = new
    BY <1>3 DEF GuardInv, TypeOK
  <2>5. \A j \in Ids : Revoking(j) => assignment'[j] = None
    BY <2>3, <2>4 DEF GuardInv, CallOK, Revoking
  <2>6. CallOK(s, used', assignment')
    BY <1>3, <2>1 DEF CallOK, AtAssign, AtRevoke
  <2>7. /\ \A d \in Callers : CallOK(call'[d], used', assignment')
        /\ Apart'
        /\ \A j \in Ids : /\ Assigning(j)' <=> j = i \/ Assigning(j)
                          /\ Revoking(j)' <=> Revoking(j)
    <3>1. used \subseteq used'
      BY <1>3
    <3> HIDE DEF s, new
    <3>2. CallEffect(c, s)
      BY <1>3, <2>1, <2>3, <2>5, <2>6, <3>1, CallStep
    <3> QED BY <1>1, <2>1, <3>2 DEF CallEffect
  <2>8. TypeOK'
    BY <1>1, <1>3, <2>1, <2>2 DEF GuardInv, TypeOK
  <2>9. StoreOK'
    BY <1>1, <1>3, <2>2, <2>4 DEF GuardInv, StoreOK
  <2>10. ASSUME NEW j \in Ids PROVE AuditOK(j)'
    BY <1>1, <1>3, <2>2, <2>3, <2>4, <2>7 DEF GuardInv, StoreOK, AuditOK
  <2> QED BY <2>7, <2>8, <2>9, <2>10 DEF GuardInv
<1> QED
  BY <1>2, <1>3 DEF CreateRoleAssignment, Fresh
(* A call returns that had an assignment in its hands. *)
LEMMA ReturnEffect ==
    ASSUME GuardInv, NEW c \in Callers, Return(c), used' = used,
           \A i \in Ids : Revoking(i) =>
               assignment'[i] = None \/ (AtRevoke(call[c]) /\ call[c].id = i)
    PROVE  /\ CallEffect(c, IdleCall) /\ ~AtAssign(IdleCall) /\ ~AtRevoke(IdleCall)
           /\ call' \in [Callers -> Call]
<1>1. IdleCall \in Call /\ call' = [call EXCEPT ![c] = IdleCall]
  BY CallTyped DEF GuardInv, TypeOK, Return
<1>2. CallOK(IdleCall, used', assignment') /\ ~AtAssign(IdleCall) /\ ~AtRevoke(IdleCall)
  BY DEF CallOK, AtAssign, AtRevoke, IdleCall
<1>3. CallEffect(c, IdleCall)
  BY <1>1, <1>2, CallStep
<1> QED
  BY <1>1, <1>2, <1>3 DEF GuardInv, TypeOK

(* A deleted assignment is absent from the store. *)
LEMMA RevokedIsAbsent ==
    ASSUME GuardInv, NEW i \in Ids, Revoking(i)
    PROVE  assignment[i] = None
BY DEF GuardInv, CallOK, Revoking

LEMMA AuditAssignStep ==
    ASSUME GuardInv, NEW c \in Callers, AuditAssign(c)
    PROVE  GuardInv'
<1> DEFINE i == call[c].id
<1>1. /\ call[c].step = "auditAssign" /\ accounts # {} /\ i \in used /\ i \in Ids
      /\ AtAssign(call[c]) /\ ~AtRevoke(call[c]) /\ Assigning(i)
      /\ UNCHANGED <<accounts, role, assignment, used, revoked, cut>>
  BY AccountsExist DEF AuditAssign, GuardInv, TypeOK, CallOK, AtAssign, AtRevoke, Assigning
<1>2. CASE Fault /\ Goto(c, "undoAssign") /\ UNCHANGED created
  <2>1. "undoAssign" \in Steps /\ faults' \in 0..MaxFaults
    BY <1>2, GuardAssumption DEF Steps, Fault, GuardInv, TypeOK
  <2> QED BY <1>1, <1>2, <2>1, GotoStep DEF GuardInv, TypeOK
<1>3. CASE created' = created \cup {i} /\ Return(c) /\ UNCHANGED faults
  <2>1. /\ CallEffect(c, IdleCall) /\ ~AtAssign(IdleCall) /\ ~AtRevoke(IdleCall)
        /\ call' \in [Callers -> Call]
    BY <1>1, <1>3, ReturnEffect, RevokedIsAbsent
  <2>2. \A j \in Ids : /\ Assigning(j)' <=> Assigning(j) /\ j # i
                       /\ Revoking(j)' <=> Revoking(j)
    BY <1>1, <2>1 DEF CallEffect
  <2>3. TypeOK'
    BY <1>1, <1>3, <2>1 DEF GuardInv, TypeOK
  <2>4. StoreOK'
    BY <1>1, <1>3 DEF GuardInv, StoreOK
  <2>5. ASSUME NEW j \in Ids PROVE AuditOK(j)'
    BY <1>1, <1>3, <2>2 DEF GuardInv, AuditOK
  <2> QED BY <2>1, <2>3, <2>4, <2>5 DEF GuardInv, CallEffect
<1> QED
  BY <1>2, <1>3 DEF AuditAssign

LEMMA UndoAssignStep ==
    ASSUME GuardInv, NEW c \in Callers, UndoAssign(c)
    PROVE  GuardInv'
<1> DEFINE i == call[c].id
<1>1. /\ call[c].step = "undoAssign" /\ accounts # {} /\ i \in used /\ i \in Ids
      /\ AtAssign(call[c]) /\ ~AtRevoke(call[c]) /\ Assigning(i) /\ Return(c)
      /\ UNCHANGED <<accounts, role, used, created, revoked, faults>>
  BY AccountsExist DEF UndoAssign, GuardInv, TypeOK, CallOK, AtAssign, AtRevoke, Assigning
<1>2. \/ /\ assignment' = [assignment EXCEPT ![i] = None] /\ UNCHANGED cut
         /\ assignment[i] # None
      \/ cut' = cut \cup {i} /\ UNCHANGED assignment
  BY DEF UndoAssign, Deletable, InForce
<1>3. \A j \in Ids : assignment'[j] = assignment[j] \/ (assignment'[j] = None /\ j = i)
  BY <1>1, <1>2 DEF GuardInv, TypeOK
<1>5. /\ CallEffect(c, IdleCall) /\ ~AtAssign(IdleCall) /\ ~AtRevoke(IdleCall)
      /\ call' \in [Callers -> Call]
  BY <1>1, <1>3, ReturnEffect, RevokedIsAbsent
<1>6. \A j \in Ids : /\ Assigning(j)' <=> Assigning(j) /\ j # i
                     /\ Revoking(j)' <=> Revoking(j)
  BY <1>1, <1>5 DEF CallEffect
<1>7. TypeOK'
  BY <1>1, <1>2, <1>5 DEF GuardInv, TypeOK
<1>8. StoreOK'
  BY <1>1, <1>3 DEF GuardInv, StoreOK
<1>9. ASSUME NEW j \in Ids PROVE AuditOK(j)'
  <2>1. CASE j # i
    BY <1>1, <1>2, <1>3, <1>6, <2>1 DEF GuardInv, AuditOK
  <2>2. CASE /\ j = i /\ assignment' = [assignment EXCEPT ![i] = None] /\ UNCHANGED cut
             /\ assignment[i] # None
    <3>1. ~Revoking(i) /\ assignment'[i] = None
      BY <1>1, <2>2, RevokedIsAbsent DEF GuardInv, TypeOK
    <3> QED BY <1>1, <1>6, <2>2, <3>1 DEF GuardInv, AuditOK
  <2>3. CASE j = i /\ cut' = cut \cup {i} /\ UNCHANGED assignment
    BY <1>1, <1>6, <2>3 DEF GuardInv, AuditOK
  <2> QED BY <1>2, <2>1, <2>2, <2>3
<1> QED
  BY <1>5, <1>7, <1>8, <1>9 DEF GuardInv, CallEffect
LEMMA DeleteRoleAssignmentStep ==
    ASSUME GuardInv, NEW c \in Callers, DeleteRoleAssignment(c)
    PROVE  GuardInv'
<1> DEFINE i == call[c].id
           s == [call[c] EXCEPT !.step = "auditRevoke", !.on = assignment[i]]
<1>1. /\ call[c].step = "revoke" /\ accounts # {} /\ call[c] \in Call
      /\ i \in used /\ i \in Ids
      /\ ~AtAssign(call[c]) /\ ~AtRevoke(call[c])
      /\ UNCHANGED <<accounts, role, used, created, revoked, cut, faults>>
  BY AccountsExist
  DEF DeleteRoleAssignment, GuardInv, TypeOK, CallOK, AtAssign, AtRevoke, audit
<1>2. CASE Return(c) /\ UNCHANGED assignment
  BY <1>1, <1>2, ReturnStep DEF GuardInv, TypeOK
<1>3. CASE /\ assignment[i] # None /\ assignment[i].source = "local"
           /\ assignment' = [assignment EXCEPT ![i] = None]
           /\ call' = [call EXCEPT ![c] = s]
  <2>1. assignment[i] \in Assignment
    BY <1>1, <1>3 DEF GuardInv, TypeOK
  <2>2. /\ s \in Call /\ s.id = i /\ s.step = "auditRevoke" /\ s.on = assignment[i]
        /\ ~AtAssign(s) /\ AtRevoke(s)
    <3>1. s \in Call
      BY <1>1, <2>1, CallTyped
    <3>2. s.id = i /\ s.step = "auditRevoke" /\ s.on = assignment[i]
      BY <1>1 DEF Call
    <3> QED BY <3>1, <3>2 DEF AtAssign, AtRevoke
  <2>3. /\ \A j \in Ids : j # i => assignment'[j] = assignment[j]
        /\ assignment'[i] = None
    BY <1>1, <1>3 DEF GuardInv, TypeOK
  <2>4. ~Revoking(i) /\ \A j \in Ids : Revoking(j) => assignment'[j] = None
    BY <1>1, <1>3, <2>3, RevokedIsAbsent
  <2>5. CallOK(s, used', assignment')
    BY <1>1, <1>3, <2>1, <2>2, <2>3 DEF CallOK, AtAssign, AtRevoke
  <2> HIDE DEF s
  <2>6. CallEffect(c, s)
    BY <1>1, <1>3, <2>2, <2>4, <2>5, CallStep
  <2>7. \A j \in Ids : /\ Assigning(j)' <=> Assigning(j)
                       /\ Revoking(j)' <=> j = i \/ Revoking(j)
    BY <1>1, <2>2, <2>6 DEF CallEffect
  <2>8. TypeOK'
    BY <1>1, <1>3, <2>2 DEF GuardInv, TypeOK
  <2>9. StoreOK'
    BY <1>1, <2>3 DEF GuardInv, StoreOK
  <2>10. ASSUME NEW j \in Ids PROVE AuditOK(j)'
    BY <1>1, <1>3, <2>3, <2>4, <2>7 DEF GuardInv, AuditOK
  <2> QED BY <2>6, <2>8, <2>9, <2>10 DEF GuardInv, CallEffect
<1> QED
  BY <1>2, <1>3 DEF DeleteRoleAssignment, Deletable, InForce

LEMMA AuditRevokeStep ==
    ASSUME GuardInv, NEW c \in Callers, AuditRevoke(c)
    PROVE  GuardInv'
<1> DEFINE i == call[c].id
<1>1. /\ call[c].step = "auditRevoke" /\ accounts # {} /\ i \in used /\ i \in Ids
      /\ ~AtAssign(call[c]) /\ AtRevoke(call[c]) /\ Revoking(i)
      /\ UNCHANGED <<accounts, role, assignment, used, created, cut>>
  BY AccountsExist DEF AuditRevoke, GuardInv, TypeOK, CallOK, AtAssign, AtRevoke, Revoking
<1>2. CASE Fault /\ Goto(c, "undoRevoke") /\ UNCHANGED revoked
  <2>1. "undoRevoke" \in Steps /\ faults' \in 0..MaxFaults
    BY <1>2, GuardAssumption DEF Steps, Fault, GuardInv, TypeOK
  <2> QED BY <1>1, <1>2, <2>1, GotoStep DEF GuardInv, TypeOK
<1>3. CASE revoked' = revoked \cup {i} /\ Return(c) /\ UNCHANGED faults
  <2>1. /\ CallEffect(c, IdleCall) /\ ~AtAssign(IdleCall) /\ ~AtRevoke(IdleCall)
        /\ call' \in [Callers -> Call]
    BY <1>1, <1>3, ReturnEffect, RevokedIsAbsent
  <2>2. \A j \in Ids : /\ Assigning(j)' <=> Assigning(j)
                       /\ Revoking(j)' <=> Revoking(j) /\ j # i
    BY <1>1, <2>1 DEF CallEffect
  <2>3. TypeOK'
    BY <1>1, <1>3, <2>1 DEF GuardInv, TypeOK
  <2>4. StoreOK'
    BY <1>1, <1>3 DEF GuardInv, StoreOK
  <2>5. ASSUME NEW j \in Ids PROVE AuditOK(j)'
    BY <1>1, <1>3, <2>2, RevokedIsAbsent DEF GuardInv, AuditOK
  <2> QED BY <2>1, <2>3, <2>4, <2>5 DEF GuardInv, CallEffect
<1> QED
  BY <1>2, <1>3 DEF AuditRevoke

LEMMA UndoRevokeStep ==
    ASSUME GuardInv, NEW c \in Callers, UndoRevoke(c)
    PROVE  GuardInv'
<1> DEFINE i == call[c].id
           old == call[c].on
<1>1. /\ call[c].step = "undoRevoke" /\ accounts # {} /\ i \in used /\ i \in Ids
      /\ ~AtAssign(call[c]) /\ AtRevoke(call[c]) /\ Revoking(i) /\ Return(c)
      /\ old \in Assignment /\ old.source = "local" /\ old # None
      /\ UNCHANGED <<accounts, role, used, created, revoked, faults>>
  BY AccountsExist, GuardAssumption
  DEF UndoRevoke, GuardInv, TypeOK, CallOK, AtAssign, AtRevoke, Revoking
<1>2. \/ assignment' = [assignment EXCEPT ![i] = old] /\ UNCHANGED cut
      \/ cut' = cut \cup {i} /\ UNCHANGED assignment
  BY DEF UndoRevoke
<1>3. \A j \in Ids : j # i => assignment'[j] = assignment[j]
  BY <1>2 DEF GuardInv, TypeOK
<1>4. \/ assignment'[i] = old /\ UNCHANGED cut
      \/ assignment'[i] = assignment[i] /\ cut' = cut \cup {i}
  BY <1>1, <1>2 DEF GuardInv, TypeOK
<1>5. /\ CallEffect(c, IdleCall) /\ ~AtAssign(IdleCall) /\ ~AtRevoke(IdleCall)
      /\ call' \in [Callers -> Call]
  BY <1>1, <1>3, ReturnEffect, RevokedIsAbsent
<1>6. \A j \in Ids : /\ Assigning(j)' <=> Assigning(j)
                     /\ Revoking(j)' <=> Revoking(j) /\ j # i
  BY <1>1, <1>5 DEF CallEffect
<1>7. TypeOK'
  BY <1>1, <1>2, <1>5 DEF GuardInv, TypeOK
<1>8. StoreOK'
  BY <1>1, <1>3 DEF GuardInv, StoreOK
<1>9. ASSUME NEW j \in Ids PROVE AuditOK(j)'
  <2>1. CASE j # i
    BY <1>1, <1>2, <1>3, <1>6, <2>1 DEF GuardInv, AuditOK
  <2>2. CASE j = i
    <3>1. assignment[i] = None /\ i \notin revoked
      BY <1>1, RevokedIsAbsent DEF GuardInv, AuditOK
    <3>2. Assigning(i) => i \notin created
      BY <1>1 DEF GuardInv, AuditOK
    <3>3. i \notin cut => i \in created \/ Assigning(i)
      BY <1>1 DEF GuardInv, AuditOK
    <3> QED BY <1>1, <1>4, <1>6, <2>2, <3>1, <3>2, <3>3 DEF AuditOK
  <2> QED BY <2>1, <2>2
<1> QED
  BY <1>5, <1>7, <1>8, <1>9 DEF GuardInv, CallEffect
LEMMA DieStep ==
    ASSUME GuardInv, NEW c \in Callers, Die(c)
    PROVE  GuardInv'
<1> DEFINE i == call[c].id
<1>1. /\ call[c].step # "idle" /\ accounts # {} /\ call[c] \in Call /\ Return(c)
      /\ UNCHANGED <<accounts, role, assignment, used, created, revoked>>
      /\ faults' \in 0..MaxFaults
  BY AccountsExist, GuardAssumption DEF Die, Fault, GuardInv, TypeOK
<1>2. AtAssign(call[c]) \/ AtRevoke(call[c]) => i \in Ids /\ i # 0
  BY GuardAssumption DEF GuardInv, TypeOK, CallOK
<1>3. /\ cut \subseteq cut'
      /\ AtAssign(call[c]) \/ AtRevoke(call[c]) => i \in cut'
      /\ cut' \subseteq Ids
  <2>1. i = 0 \/ i \in Ids
    BY <1>1 DEF Call
  <2> QED BY <1>2, <2>1 DEF Die, GuardInv, TypeOK
<1>4. /\ CallEffect(c, IdleCall) /\ ~AtAssign(IdleCall) /\ ~AtRevoke(IdleCall)
      /\ call' \in [Callers -> Call]
  BY <1>1, ReturnEffect, RevokedIsAbsent
<1>5. \A j \in Ids : /\ Assigning(j)' => Assigning(j)
                     /\ Revoking(j)' => Revoking(j)
                     /\ j \notin cut' => /\ Assigning(j)' <=> Assigning(j)
                                         /\ Revoking(j)' <=> Revoking(j)
  BY <1>3, <1>4 DEF CallEffect
<1>6. TypeOK'
  BY <1>1, <1>3, <1>4 DEF GuardInv, TypeOK
<1>7. StoreOK'
  BY <1>1 DEF GuardInv, StoreOK
<1>8. ASSUME NEW j \in Ids PROVE AuditOK(j)'
  BY <1>1, <1>3, <1>5 DEF GuardInv, AuditOK
<1> QED
  BY <1>4, <1>6, <1>7, <1>8 DEF GuardInv, CallEffect

(* Steps that no call takes. *)
LEMMA CallsStay ==
    ASSUME GuardInv, UNCHANGED call, used \subseteq used',
           \A i \in Ids : Revoking(i) => assignment'[i] = None
    PROVE  /\ \A c \in Callers : CallOK(call'[c], used', assignment')
           /\ Apart'
           /\ \A i \in Ids : /\ Assigning(i)' <=> Assigning(i)
                             /\ Revoking(i)' <=> Revoking(i)
<1>1. ASSUME NEW c \in Callers PROVE CallOK(call[c], used', assignment')
  <2>1. CallOK(call[c], used, assignment)
    BY DEF GuardInv
  <2>2. AtRevoke(call[c]) => assignment'[call[c].id] = None
    BY <2>1 DEF CallOK, Revoking, GuardInv, TypeOK
  <2> QED BY <2>1, <2>2 DEF CallOK
<1>2. Apart'
  BY DEF GuardInv, Apart, AtAssign, AtRevoke
<1>3. \A i \in Ids : /\ Assigning(i)' <=> Assigning(i)
                     /\ Revoking(i)' <=> Revoking(i)
  BY DEF Assigning, Revoking, AtAssign, AtRevoke
<1> QED
  BY <1>1, <1>2, <1>3

LEMMA BootstrapStep ==
    ASSUME GuardInv, Bootstrap
    PROVE  GuardInv'
<1> DEFINE new == [account |-> First, role |-> Admin, scope |-> "organization",
                   source |-> "local"]
<1>1. /\ used = {} /\ created = {} /\ revoked = {}
      /\ \A c \in Callers : call[c].step = "idle"
      /\ \A i \in Ids : assignment[i] = None
  BY DEF GuardInv, StoreOK, Bootstrap
<1>2. \A i \in Ids : ~Assigning(i) /\ ~Revoking(i)
  BY <1>1 DEF Assigning, Revoking, AtAssign, AtRevoke
<1>3. /\ \A c \in Callers : CallOK(call'[c], used', assignment')
      /\ Apart'
      /\ \A i \in Ids : /\ Assigning(i)' <=> Assigning(i)
                        /\ Revoking(i)' <=> Revoking(i)
  BY <1>1, <1>2, CallsStay DEF Bootstrap
<1>4. /\ new \in Assignment /\ new # None /\ new.source = "local" /\ 1 \in Ids
  BY GuardAssumption DEF Assignment, Accounts, Roles, Scopes
<1>5. /\ \A i \in Ids : i # 1 => assignment'[i] = None
      /\ assignment'[1] = new
  BY <1>1, <1>4 DEF Bootstrap, GuardInv, TypeOK
<1>6. TypeOK'
  <2>1. accounts' \subseteq Accounts /\ role' \in [Roles -> {"absent", "plain", "manages"}]
    BY DEF Bootstrap, GuardInv, TypeOK, Accounts
  <2>2. assignment' \in [Ids -> Assignment \cup {None}]
    BY <1>4 DEF Bootstrap, GuardInv, TypeOK
  <2>3. /\ used' \subseteq Ids /\ created' \subseteq Ids /\ revoked' \subseteq Ids
        /\ cut' \subseteq Ids
    BY <1>4 DEF Bootstrap, GuardInv, TypeOK
  <2>4. faults' \in 0..MaxFaults /\ call' \in [Callers -> Call]
    BY GuardAssumption DEF Bootstrap, Fault, GuardInv, TypeOK
  <2> QED BY <2>1, <2>2, <2>3, <2>4 DEF TypeOK
<1>7. StoreOK'
  BY <1>1, <1>5 DEF StoreOK, Bootstrap
<1>8. ASSUME NEW j \in Ids PROVE AuditOK(j)'
  BY <1>1, <1>2, <1>3, <1>4, <1>5 DEF AuditOK, Bootstrap
<1> QED
  BY <1>3, <1>6, <1>7, <1>8 DEF GuardInv

LEMMA SignInStep ==
    ASSUME GuardInv, NEW x \in External, NEW administrator \in BOOLEAN,
           SignIn(x, administrator)
    PROVE  GuardInv'
<1>1. /\ accounts' # {} /\ accounts' \subseteq Accounts
      /\ UNCHANGED <<role, call, created, revoked, cut, faults>>
  BY DEF SignIn, audit, GuardInv, TypeOK, Accounts
<1>2. ASSUME NEW i \in Ids, MapAdministrator(x, i) PROVE GuardInv'
  <2> DEFINE new == [account |-> x, role |-> Admin, scope |-> "organization",
                     source |-> "external"]
  <2>1. /\ new \in Assignment /\ new # None /\ new.source = "external"
    BY GuardAssumption DEF Assignment, Accounts, Roles, Scopes
  <2>2. /\ i \notin used /\ used' = used \cup {i}
        /\ assignment' = [assignment EXCEPT ![i] = new]
    BY <1>2 DEF MapAdministrator, Fresh
  <2>3. /\ \A j \in Ids : j # i => assignment'[j] = assignment[j]
        /\ assignment'[i] = new
    BY <2>2 DEF GuardInv, TypeOK
  <2>4. i \notin created /\ i \notin revoked /\ ~Assigning(i) /\ ~Revoking(i)
    BY <2>2 DEF GuardInv, StoreOK, CallOK, Assigning, Revoking
  <2>5. /\ \A c \in Callers : CallOK(call'[c], used', assignment')
        /\ Apart'
        /\ \A j \in Ids : /\ Assigning(j)' <=> Assigning(j)
                          /\ Revoking(j)' <=> Revoking(j)
    BY <1>1, <2>2, <2>3, <2>4, CallsStay, RevokedIsAbsent
  <2>6. TypeOK'
    BY <1>1, <2>1, <2>2 DEF GuardInv, TypeOK
  <2>7. StoreOK'
    BY <1>1, <2>2, <2>3 DEF GuardInv, StoreOK
  <2>8. ASSUME NEW j \in Ids PROVE AuditOK(j)'
    BY <1>1, <2>1, <2>3, <2>4, <2>5 DEF GuardInv, AuditOK
  <2> QED BY <2>5, <2>6, <2>7, <2>8 DEF GuardInv
<1>3. ASSUME UNCHANGED used,
             \A j \in Ids :
                 \/ assignment'[j] = assignment[j]
                 \/ /\ assignment'[j] = None
                    /\ assignment[j] # None /\ assignment[j].source = "external",
             assignment' \in [Ids -> Assignment \cup {None}]
      PROVE  GuardInv'
  <2>1. /\ \A c \in Callers : CallOK(call'[c], used', assignment')
        /\ Apart'
        /\ \A j \in Ids : /\ Assigning(j)' <=> Assigning(j)
                          /\ Revoking(j)' <=> Revoking(j)
    BY <1>1, <1>3, CallsStay, RevokedIsAbsent
  <2>2. TypeOK'
    BY <1>1, <1>3 DEF GuardInv, TypeOK
  <2>3. StoreOK'
    BY <1>1, <1>3 DEF GuardInv, StoreOK
  <2>4. ASSUME NEW j \in Ids PROVE AuditOK(j)'
    BY <1>1, <1>3, <2>1 DEF GuardInv, AuditOK
  <2> QED BY <2>1, <2>2, <2>3, <2>4 DEF GuardInv
<1>4. CASE HasAdmin(x) /\ UNCHANGED <<assignment, used>>
  BY <1>3, <1>4 DEF GuardInv, TypeOK
<1>5. CASE /\ assignment' = [i \in Ids |-> IF i \in MappedBy(x) THEN None ELSE assignment[i]]
           /\ UNCHANGED used
  <2>1. \A j \in Ids :
            \/ assignment'[j] = assignment[j]
            \/ /\ assignment'[j] = None
               /\ assignment[j] # None /\ assignment[j].source = "external"
    BY <1>5 DEF MappedBy, InForce
  <2>2. assignment' \in [Ids -> Assignment \cup {None}]
    BY <1>5 DEF GuardInv, TypeOK
  <2> QED BY <1>3, <1>5, <2>1, <2>2
<1> QED
  BY <1>2, <1>4, <1>5 DEF SignIn

LEMMA InitEstablishes ==
    ASSUME Init
    PROVE  GuardInv
<1>1. TypeOK
  <2>1. IdleCall \in Call
    BY DEF IdleCall, Call, Steps
  <2> QED BY <2>1, GuardAssumption DEF Init, TypeOK
<1>2. \A c \in Callers : call[c].step = "idle"
  BY DEF Init, IdleCall
<1>3. \A i \in Ids : ~Assigning(i) /\ ~Revoking(i)
  BY <1>2 DEF Assigning, Revoking, AtAssign, AtRevoke
<1> QED
  BY <1>1, <1>2, <1>3 DEF GuardInv, Init, CallOK, Apart, StoreOK, AuditOK, AtAssign, AtRevoke

LEMMA StepPreserves ==
    ASSUME GuardInv, [Next]_vars
    PROVE  GuardInv'
<1>1. CASE UNCHANGED vars
  <2>1. UNCHANGED <<call, used, assignment, accounts, role, created, revoked, cut, faults>>
    BY <1>1 DEF vars
  <2>2. /\ \A c \in Callers : CallOK(call'[c], used', assignment')
        /\ Apart'
        /\ \A i \in Ids : /\ Assigning(i)' <=> Assigning(i)
                          /\ Revoking(i)' <=> Revoking(i)
    BY <2>1, CallsStay, RevokedIsAbsent
  <2> QED BY <2>1, <2>2 DEF GuardInv, TypeOK, StoreOK, AuditOK
<1>2. ASSUME NEW c \in Callers, NEW actor \in Accounts,
             \/ \E new \in Assignment :
                    new.source = "local" /\ new.account \in accounts
                                         /\ BeginAssign(c, actor, new)
             \/ \E i \in Ids : BeginRevoke(c, actor, i)
             \/ \E r \in Custom, manages \in BOOLEAN : BeginRole(c, actor, r, manages)
      PROVE  GuardInv'
  BY <1>2, BeginAssignStep, BeginRevokeStep, BeginRoleStep
<1>3. ASSUME NEW c \in Callers,
             \/ \E i \in Ids : CreateRoleAssignment(c, i)
             \/ AuditAssign(c) \/ UndoAssign(c)
             \/ DeleteRoleAssignment(c) \/ AuditRevoke(c) \/ UndoRevoke(c)
             \/ CreateRole(c) \/ AuditRole(c) \/ UndoRole(c)
             \/ Die(c)
      PROVE  GuardInv'
  BY <1>3, CreateRoleAssignmentStep, AuditAssignStep, UndoAssignStep,
     DeleteRoleAssignmentStep, AuditRevokeStep, UndoRevokeStep, RoleStep, DieStep
<1> QED
  BY <1>1, <1>2, <1>3, BootstrapStep, SignInStep DEF Next

(* Every reachable state satisfies the inductive invariant. *)
LEMMA Invariance == Spec => []GuardInv
BY InitEstablishes, StepPreserves, PTL DEF Spec

(* Accounts, roles, assignments, the audit trail and the private state of   *)
(* every call of guard/service.go keep their shapes.                        *)
THEOREM GuardTypeCorrect == Spec => []TypeOK
<1>1. GuardInv => TypeOK
  BY DEF GuardInv
<1> QED
  BY <1>1, Invariance, PTL

(* However many calls assign and revoke at the same time and however many   *)
(* audits fail, an assignment that no call is at work on is in force        *)
(* exactly if the audit trail says so, unless a call on it died or was      *)
(* refused its rollback.                                                   *)
THEOREM AuditTrailAgrees == Spec => []AuditAgrees
<1>1. GuardInv => AuditAgrees
  <2> SUFFICES ASSUME GuardInv, NEW i \in Ids, i \notin cut,
                      \A c \in Callers : call[c].id # i,
                      i \in InForce => assignment[i].source = "local"
               PROVE  i \in InForce <=> i \in created \ revoked
    BY DEF AuditAgrees
  <2>1. ~Assigning(i) /\ ~Revoking(i) /\ AuditOK(i)
    BY DEF Assigning, Revoking, GuardInv
  <2> QED BY <2>1 DEF AuditOK, InForce
<1> QED
  BY <1>1, Invariance, PTL
(* No step but the sign-in of an external account that lost its claim takes *)
(* the last manager away, in any state, of any number of calls.            *)
THEOREM ManagerRemains == Spec => LockedOutByProviderOnly
<1> DEFINE Provider == \E x \in External, i \in Ids :
                           i \in MappedBy(x) /\ assignment'[i] = None /\ call' = call
<1>1. ASSUME GuardInv, NEW m \in Managing,
             accounts \subseteq accounts', role'[assignment[m].role] = "manages",
             assignment'[m] = assignment[m]
      PROVE  ManagerExists'
  <2>1. /\ m \in Ids /\ assignment[m] # None /\ assignment[m].scope = "organization"
        /\ assignment[m].account \in accounts
    BY <1>1 DEF Managing, InForce
  <2> QED BY <1>1, <2>1 DEF ManagerExists, Managing, InForce
<1>2. ASSUME GuardInv, NEW m \in Managing, Next
      PROVE  ManagerExists' \/ Provider
  <2>0. /\ m \in Ids /\ m \in used /\ assignment[m] # None /\ accounts # {}
        /\ assignment[m] \in Assignment
        /\ assignment[m].role \in Roles /\ role[assignment[m].role] = "manages"
    BY <1>2 DEF Managing, InForce, GuardInv, StoreOK, TypeOK, Assignment
  <2>1. ASSUME accounts \subseteq accounts', role' = role,
               \A j \in Ids : assignment[j] # None => assignment'[j] = assignment[j]
        PROVE  ManagerExists'
    BY <1>1, <1>2, <2>0, <2>1
  <2>2. CASE Bootstrap
    BY <2>0, <2>2 DEF Bootstrap
  <2>3. ASSUME NEW x \in External, NEW administrator \in BOOLEAN, SignIn(x, administrator)
        PROVE  ManagerExists' \/ Provider
    <3>1. accounts \subseteq accounts' /\ role' = role /\ call' = call
      BY <2>3 DEF SignIn
    <3>2. ASSUME NEW i \in Ids, MapAdministrator(x, i)
          PROVE \A j \in Ids : assignment[j] # None => assignment'[j] = assignment[j]
      BY <1>2, <3>2 DEF MapAdministrator, Fresh, GuardInv, StoreOK, TypeOK
    <3>3. CASE assignment' = [i \in Ids |-> IF i \in MappedBy(x) THEN None ELSE assignment[i]]
      <4>1. CASE m \in MappedBy(x)
        BY <2>0, <3>1, <3>3, <4>1
      <4>2. CASE m \notin MappedBy(x)
        BY <1>1, <1>2, <2>0, <3>1, <3>3, <4>2
      <4> QED BY <4>1, <4>2
    <3> QED BY <2>1, <2>3, <3>1, <3>2, <3>3 DEF SignIn
  <2>4. ASSUME NEW c \in Callers, NEW i \in Ids, Deletable(i),
               assignment' = [assignment EXCEPT ![i] = None],
               UNCHANGED <<accounts, role>>
        PROVE  ManagerExists'
    <3>1. PICK n \in Managing : n # i
      BY <1>2, <2>4 DEF Deletable
    <3>2. n \in Ids /\ assignment'[n] = assignment[n] /\ role[assignment[n].role] = "manages"
      BY <1>2, <2>4, <3>1 DEF Managing, InForce, GuardInv, TypeOK
    <3> QED BY <1>1, <1>2, <2>4, <3>1, <3>2
  <2>5. ASSUME NEW c \in Callers, NEW i \in Ids, CreateRoleAssignment(c, i)
        PROVE  ManagerExists'
    <3>1. /\ UNCHANGED <<accounts, role>>
          /\ \A j \in Ids : assignment[j] # None => assignment'[j] = assignment[j]
      BY <1>2, <2>5 DEF CreateRoleAssignment, Fresh, GuardInv, StoreOK, TypeOK
    <3> QED BY <2>1, <3>1
  <2>6. ASSUME NEW c \in Callers, UndoAssign(c) PROVE ManagerExists'
    <3>1. call[c].id \in Ids /\ UNCHANGED <<accounts, role>>
      BY <1>2, <2>6 DEF UndoAssign, GuardInv, CallOK, AtAssign, TypeOK
    <3> QED BY <2>1, <2>4, <2>6, <3>1 DEF UndoAssign
  <2>7. ASSUME NEW c \in Callers, DeleteRoleAssignment(c) PROVE ManagerExists'
    <3>1. call[c].id \in Ids /\ UNCHANGED <<accounts, role>>
      BY <1>2, <2>7 DEF DeleteRoleAssignment, GuardInv, CallOK, AtAssign, TypeOK
    <3> QED BY <2>1, <2>4, <2>7, <3>1 DEF DeleteRoleAssignment
  <2>8. ASSUME NEW c \in Callers, UndoRevoke(c) PROVE ManagerExists'
    <3>1. call[c].id \in Ids /\ assignment[call[c].id] = None /\ UNCHANGED <<accounts, role>>
      BY <1>2, <2>8 DEF UndoRevoke, GuardInv, CallOK, AtRevoke, TypeOK
    <3>2. \A j \in Ids : assignment[j] # None => assignment'[j] = assignment[j]
      BY <1>2, <2>8, <3>1 DEF UndoRevoke, GuardInv, TypeOK
    <3> QED BY <2>1, <3>1, <3>2
  <2>9. ASSUME NEW c \in Callers, CreateRole(c) PROVE ManagerExists'
    <3>1. UNCHANGED <<accounts, assignment>> /\ role'[assignment[m].role] = "manages"
      BY <1>2, <2>0, <2>9 DEF CreateRole, GuardInv, TypeOK
    <3> QED BY <1>1, <1>2, <3>1
  <2>10. ASSUME NEW c \in Callers, UndoRole(c) PROVE ManagerExists'
    <3>1. UNCHANGED <<accounts, assignment>> /\ role'[assignment[m].role] = "manages"
      BY <1>2, <2>0, <2>10 DEF UndoRole, InForce, GuardInv, TypeOK
    <3> QED BY <1>1, <1>2, <3>1
  <2>11. ASSUME NEW c \in Callers,
                \/ \E actor \in Accounts :
                       \/ \E new \in Assignment : BeginAssign(c, actor, new)
                       \/ \E i \in Ids : BeginRevoke(c, actor, i)
                       \/ \E r \in Custom, manages \in BOOLEAN :
                              BeginRole(c, actor, r, manages)
                \/ AuditAssign(c) \/ AuditRevoke(c) \/ AuditRole(c) \/ Die(c)
         PROVE  ManagerExists'
    <3>1. UNCHANGED <<accounts, role, assignment>>
      BY <2>11 DEF BeginAssign, BeginRevoke, BeginRole, AuditAssign, AuditRevoke,
                   AuditRole, Die
    <3> QED BY <2>1, <3>1
  <2> QED
    BY <1>2, <2>2, <2>3, <2>5, <2>6, <2>7, <2>8, <2>9, <2>10, <2>11 DEF Next
<1>3. ASSUME GuardInv, [Next]_vars
      PROVE  [ManagerExists => ManagerExists' \/ Provider]_vars
  BY <1>2, <1>3 DEF ManagerExists
<1>4. GuardInv /\ [Next]_vars => [ManagerExists => ManagerExists' \/ Provider]_vars
  BY <1>3
<1> QED
  BY <1>4, Invariance, PTL DEF Spec, LockedOutByProviderOnly
=============================================================================
