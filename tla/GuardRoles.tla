----------------------------- MODULE GuardRoles -----------------------------
(***************************************************************************)
(* Guard decides who may do what by roles that are assigned to accounts.   *)
(* This module models the part of guard/service.go that changes them, over *)
(* the store repository/memory_guard.go: the bootstrap of the first        *)
(* administrator, the creation of roles, the assignment of roles and its   *)
(* revocation, and the sign-in of external accounts, whose administrator   *)
(* assignment follows the claims of their identity provider.               *)
(*                                                                         *)
(* A change of a role or an assignment is an operation of the store        *)
(* followed by its audit; when the audit fails, the call takes the change  *)
(* back with a second operation of the store, which may be refused because *)
(* of what others did in the meantime.  A call acts with the authority its *)
(* actor had when the request was authenticated.                           *)
(***************************************************************************)
EXTENDS Naturals

CONSTANTS
    First,        \* the account of the first administrator
    External,     \* accounts of an identity provider
    Custom,       \* roles that administrators may create
    Ids,          \* ids of assignments, numbered in the order of their use
    Callers,      \* concurrent calls
    MaxFaults,    \* bound on failed audits and on calls that die
    None

Admin == "Administrator"

Accounts == {First} \cup External
Roles == {Admin} \cup Custom
Scopes == {"organization", "site"}

(* A stored assignment, local or managed by an identity provider.            *)
Assignment ==
    [account: Accounts, role: Roles, scope: Scopes, source: {"local", "external"}]

ASSUME GuardAssumption ==
    /\ First \notin External
    /\ Admin \notin Custom
    /\ Ids \subseteq Nat \ {0} /\ 1 \in Ids
    /\ MaxFaults \in Nat
    /\ None \notin Assignment

VARIABLES
    accounts,     \* the accounts that exist
    role,         \* the stored roles: whether they grant guard.manage
    assignment,   \* the stored assignments
    used,         \* the ids given to assignments so far
    created,      \* the assignments whose creation is in the audit trail
    revoked,      \* the assignments whose revocation is in the audit trail
    call,         \* the private state of each call
    cut,          \* history: the assignments whose call died, or was refused its rollback
    faults

vars == <<accounts, role, assignment, used, created, revoked, call, cut, faults>>

audit == <<created, revoked, cut, faults>>

Steps ==
    {"idle", "assign", "auditAssign", "undoAssign", "revoke", "auditRevoke", "undoRevoke",
     "role", "auditRole", "undoRole"}

(* on: the assignment a call creates or has deleted; id: its id; role: the  *)
(* role a call creates.                                                    *)
Call ==
    [step: Steps, id: Ids \cup {0}, on: Assignment \cup {None}, role: Custom \cup {None},
     manages: BOOLEAN]

IdleCall == [step |-> "idle", id |-> 0, on |-> None, role |-> None, manages |-> FALSE]

Init ==
    /\ accounts = {}
    /\ role = [r \in Roles |-> "absent"]
    /\ assignment = [i \in Ids |-> None]
    /\ used = {} /\ created = {} /\ revoked = {} /\ cut = {}
    /\ call = [c \in Callers |-> IdleCall]
    /\ faults = 0

-----------------------------------------------------------------------------

InForce == {i \in Ids : assignment[i] # None}

(* roleGrantsPermission(guard.manage), for the whole organization.         *)
Managing ==
    {i \in InForce : /\ assignment[i].scope = "organization"
                     /\ role[assignment[i].role] = "manages"
                     /\ assignment[i].account \in accounts}

ManagerExists == Managing # {}

(* requireOrganizationManager, on the grants of the authenticated session. *)
IsManager(a) == \E i \in Managing : assignment[i].account = a

Fresh(i) == i \notin used /\ \A j \in Ids : j < i => j \in used

(* What the store requires of a new assignment and of one to be deleted.   *)
Creatable(new) ==
    /\ new.account \in accounts
    /\ role[new.role] # "absent"
    /\ \A i \in InForce :
           ~(/\ assignment[i].account = new.account
             /\ assignment[i].role = new.role
             /\ assignment[i].scope = new.scope)

(* Mutant: any other assignment of the role keeps an administrator.        *)
DeletableBesideAnother(i) ==
    /\ i \in InForce
    /\ assignment[i].source = "local"
    /\ i \in Managing => \E j \in InForce \ {i} : assignment[j].role = assignment[i].role

Deletable(i) ==
    /\ i \in InForce
    /\ assignment[i].source = "local"
    /\ i \in Managing => Managing \ {i} # {}

Return(c) == call' = [call EXCEPT ![c] = IdleCall]

Goto(c, step) == call' = [call EXCEPT ![c].step = step]

Fault == faults < MaxFaults /\ faults' = faults + 1

-----------------------------------------------------------------------------

(* Bootstrap: account, role and assignment in one operation, only while    *)
(* there is no account.  A failed audit ends the session, not the account. *)
Bootstrap ==
    /\ accounts = {}
    /\ accounts' = {First}
    /\ role' = [role EXCEPT ![Admin] = "manages"]
    /\ assignment' = [assignment EXCEPT ![1] =
           [account |-> First, role |-> Admin, scope |-> "organization", source |-> "local"]]
    /\ used' = {1}
    /\ \/ created' = {1} /\ UNCHANGED <<cut, faults>>
       \/ Fault /\ cut' = {1} /\ UNCHANGED created
    /\ UNCHANGED <<revoked, call>>

(* ProvisionExternalAccount: a sign-in creates the account when it is new, *)
(* and adds or removes the administrator assignment that the provider      *)
(* manages.  Sign-in starts only after the bootstrap.                      *)
HasAdmin(x) ==
    \E i \in InForce : /\ assignment[i].account = x /\ assignment[i].role = Admin
                       /\ assignment[i].scope = "organization"

MappedBy(x) == {i \in InForce : assignment[i].account = x /\ assignment[i].source = "external"}

MapAdministrator(x, i) ==
    /\ ~HasAdmin(x)
    /\ Fresh(i)
    /\ used' = used \cup {i}
    /\ assignment' = [assignment EXCEPT ![i] =
           [account |-> x, role |-> Admin, scope |-> "organization", source |-> "external"]]

SignIn(x, administrator) ==
    /\ accounts # {}
    /\ accounts' = accounts \cup {x}
    /\ \/ administrator /\ \E i \in Ids : MapAdministrator(x, i)
       \/ administrator /\ HasAdmin(x) /\ UNCHANGED <<assignment, used>>
       \/ /\ ~administrator
          /\ assignment' = [i \in Ids |-> IF i \in MappedBy(x) THEN None ELSE assignment[i]]
          /\ UNCHANGED used
    /\ UNCHANGED <<role, call, audit>>

-----------------------------------------------------------------------------

(* AssignRole.                                                             *)
BeginAssign(c, actor, new) ==
    /\ call[c].step = "idle" /\ IsManager(actor)
    /\ call' = [call EXCEPT ![c] = [@ EXCEPT !.step = "assign", !.on = new]]
    /\ UNCHANGED <<accounts, role, assignment, used, audit>>

CreateRoleAssignment(c, i) ==
    LET new == call[c].on
    IN  /\ call[c].step = "assign"
        /\ \/ /\ Creatable(new) /\ Fresh(i)
              /\ assignment' = [assignment EXCEPT ![i] = new]
              /\ used' = used \cup {i}
              /\ call' = [call EXCEPT ![c] = [@ EXCEPT !.step = "auditAssign", !.id = i]]
           \/ ~Creatable(new) /\ Return(c) /\ UNCHANGED <<assignment, used>>
        /\ UNCHANGED <<accounts, role, audit>>

AuditAssign(c) ==
    /\ call[c].step = "auditAssign"
    /\ \/ created' = created \cup {call[c].id} /\ Return(c) /\ UNCHANGED faults
       \/ Fault /\ Goto(c, "undoAssign") /\ UNCHANGED created
    /\ UNCHANGED <<accounts, role, assignment, used, revoked, cut>>

UndoAssign(c) ==
    LET i == call[c].id
    IN  /\ call[c].step = "undoAssign"
        /\ \/ /\ Deletable(i)
              /\ assignment' = [assignment EXCEPT ![i] = None]
              /\ UNCHANGED cut
           \/ ~Deletable(i) /\ cut' = cut \cup {i} /\ UNCHANGED assignment
        /\ Return(c)
        /\ UNCHANGED <<accounts, role, used, created, revoked, faults>>

(* RevokeRoleAssignment.                                                   *)
BeginRevoke(c, actor, i) ==
    /\ call[c].step = "idle" /\ IsManager(actor)
    /\ i \in used
    /\ call' = [call EXCEPT ![c] = [@ EXCEPT !.step = "revoke", !.id = i]]
    /\ UNCHANGED <<accounts, role, assignment, used, audit>>

DeleteRoleAssignment(c) ==
    LET i == call[c].id
    IN  /\ call[c].step = "revoke"
        /\ \/ /\ Deletable(i)
              /\ assignment' = [assignment EXCEPT ![i] = None]
              /\ call' = [call EXCEPT ![c] =
                           [@ EXCEPT !.step = "auditRevoke", !.on = assignment[i]]]
           \/ ~Deletable(i) /\ Return(c) /\ UNCHANGED assignment
        /\ UNCHANGED <<accounts, role, used, audit>>

AuditRevoke(c) ==
    /\ call[c].step = "auditRevoke"
    /\ \/ revoked' = revoked \cup {call[c].id} /\ Return(c) /\ UNCHANGED faults
       \/ Fault /\ Goto(c, "undoRevoke") /\ UNCHANGED revoked
    /\ UNCHANGED <<accounts, role, assignment, used, created, cut>>

(* Mutant: a revocation whose audit failed stays in force.                 *)
KeepRevoked(c) ==
    /\ call[c].step = "undoRevoke"
    /\ Return(c)
    /\ UNCHANGED <<accounts, role, assignment, used, audit>>

UndoRevoke(c) ==
    LET i == call[c].id
    IN  /\ call[c].step = "undoRevoke"
        /\ \/ /\ Creatable(call[c].on)
              /\ assignment' = [assignment EXCEPT ![i] = call[c].on]
              /\ UNCHANGED cut
           \/ ~Creatable(call[c].on) /\ cut' = cut \cup {i} /\ UNCHANGED assignment
        /\ Return(c)
        /\ UNCHANGED <<accounts, role, used, created, revoked, faults>>

(* CreateRole.                                                             *)
BeginRole(c, actor, r, manages) ==
    /\ call[c].step = "idle" /\ IsManager(actor)
    /\ call' = [call EXCEPT ![c] =
                  [@ EXCEPT !.step = "role", !.role = r, !.manages = manages]]
    /\ UNCHANGED <<accounts, role, assignment, used, audit>>

CreateRole(c) ==
    LET r == call[c].role
    IN  /\ call[c].step = "role"
        /\ \/ /\ role[r] = "absent"
              /\ role' = [role EXCEPT ![r] = IF call[c].manages THEN "manages" ELSE "plain"]
              /\ Goto(c, "auditRole")
           \/ role[r] # "absent" /\ Return(c) /\ UNCHANGED role
        /\ UNCHANGED <<accounts, assignment, used, audit>>

AuditRole(c) ==
    /\ call[c].step = "auditRole"
    /\ \/ Return(c) /\ UNCHANGED faults
       \/ Fault /\ Goto(c, "undoRole")
    /\ UNCHANGED <<accounts, role, assignment, used, created, revoked, cut>>

(* DeleteRole refuses a role that is assigned.                             *)
UndoRole(c) ==
    LET assigned == \E i \in InForce : assignment[i].role = call[c].role
    IN  /\ call[c].step = "undoRole"
        /\ role' = [role EXCEPT ![call[c].role] = IF assigned THEN @ ELSE "absent"]
        /\ Return(c)
        /\ UNCHANGED <<accounts, assignment, used, audit>>

(* A call dies between two operations.                                     *)
Die(c) ==
    /\ call[c].step # "idle"
    /\ Fault
    /\ cut' = IF call[c].id = 0 THEN cut ELSE cut \cup {call[c].id}
    /\ Return(c)
    /\ UNCHANGED <<accounts, role, assignment, used, created, revoked>>

Next ==
    \/ Bootstrap
    \/ \E x \in External, administrator \in BOOLEAN : SignIn(x, administrator)
    \/ \E c \in Callers :
           \/ \E actor \in Accounts :
                  \/ \E new \in Assignment :
                         new.source = "local" /\ new.account \in accounts
                                              /\ BeginAssign(c, actor, new)
                  \/ \E i \in Ids : BeginRevoke(c, actor, i)
                  \/ \E r \in Custom, manages \in BOOLEAN : BeginRole(c, actor, r, manages)
           \/ \E i \in Ids : CreateRoleAssignment(c, i)
           \/ AuditAssign(c) \/ UndoAssign(c)
           \/ DeleteRoleAssignment(c) \/ AuditRevoke(c) \/ UndoRevoke(c)
           \/ CreateRole(c) \/ AuditRole(c) \/ UndoRole(c)
           \/ Die(c)

Spec == Init /\ [][Next]_vars

-----------------------------------------------------------------------------

TypeOK ==
    /\ accounts \subseteq Accounts
    /\ role \in [Roles -> {"absent", "plain", "manages"}]
    /\ assignment \in [Ids -> Assignment \cup {None}]
    /\ used \subseteq Ids /\ created \subseteq Ids /\ revoked \subseteq Ids /\ cut \subseteq Ids
    /\ call \in [Callers -> Call]
    /\ faults \in 0..MaxFaults

(* No revocation and no rollback leaves the organization without an         *)
(* account that can manage it, also when managers revoke each other at the  *)
(* same time: only a sign-in that no longer maps the provider's own         *)
(* administrator can.                                                      *)
LockedOutByProviderOnly ==
    [][ManagerExists =>
          \/ ManagerExists'
          \/ \E x \in External, i \in Ids :
                 i \in MappedBy(x) /\ assignment'[i] = None /\ call' = call]_vars

(* An assignment is in force exactly if the audit trail says it was created *)
(* and not that it was revoked, as soon as no call is at work on it, unless *)
(* a call on it died or its rollback was refused.                          *)
AuditAgrees ==
    \A i \in Ids :
        /\ i \notin cut
        /\ \A c \in Callers : call[c].id # i
        /\ i \in InForce => assignment[i].source = "local"
        => (i \in InForce <=> i \in created \ revoked)

(* Once an administrator was created, an active account can manage the      *)
(* organization, as the documentation of assignments promises.             *)
NoLockout == accounts # {} => ManagerExists
=============================================================================
