--------------------------- MODULE AssetCheckout ---------------------------
(***************************************************************************)
(* People lends assets: an assignment gives an asset to a person, a        *)
(* department or a checkout group for a window of time.  This module       *)
(* models CreateAssetAssignment and EndAssetAssignment of                  *)
(* people/service.go, the conflict policies, group checkouts and bulk      *)
(* checkouts of people/checkout.go, and their store, repository/           *)
(* memory_people.go and memory_checkout.go.                                *)
(*                                                                         *)
(* A call looks up the assignments that overlap its window, ends the ones  *)
(* its policy replaces, and stores its own: each is one atomic operation   *)
(* of the store, and calls interleave between them.  The service asks its  *)
(* store for nothing that would notice a change in between.                *)
(***************************************************************************)
EXTENDS Naturals, FiniteSets

CONSTANTS
    Assets, People, Departments,
    Callers,          \* concurrent calls
    Groups,           \* ids of checkout groups, numbered in order of creation
    Bulks,            \* ids of bulk checkouts, numbered likewise
    Inputs,           \* the requests callers may make
    SingleAssets,     \* the assets they may ask for one by one
    BulkAssets,       \* the sets of assets they may ask for in bulk
    Returns,          \* the instants at which an operator records a return
    MaxAssignments,   \* bound on the assignments ever stored
    MaxTime,          \* bound on the instants a request may name
    MaxCalls,         \* bound on the requests
    MaxFaults,        \* bound on calls that end early
    None

(* What a caller may ask for: an assignee, a role it may have, a purpose,  *)
(* a window and a conflict policy; a reservation names its end.            *)
Kinds == {"identity", "department", "group"}
Roles == {"primary", "user", "department"}
Policies == {"", "replace", "group", "proceed"}

ValidAssignment(kind, role) == (kind = "department") <=> (role = "department")

Input ==
    {q \in [kind: Kinds, who: People \cup Departments \cup Groups, role: Roles,
            purpose: {"checkout", "reservation"}, from: 1..MaxTime, due: 0..MaxTime,
            policy: Policies] :
        /\ ValidAssignment(q.kind, q.role)
        /\ q.who \in CASE q.kind = "identity" -> People
                       [] q.kind = "department" -> Departments
                       [] q.kind = "group" -> Groups
        /\ q.purpose = "reservation" <=> q.due # 0
        /\ q.due # 0 => q.from <= q.due}

ASSUME CheckoutAssumption ==
    /\ {MaxAssignments, MaxTime, MaxCalls, MaxFaults} \subseteq Nat
    /\ Groups \cup Bulks \subseteq Nat \ {0}
    /\ Groups \cap (People \cup Departments) = {}
    /\ Inputs \subseteq Input
    /\ SingleAssets \subseteq Assets
    /\ BulkAssets \subseteq (SUBSET Assets) \ {{}}
    /\ Returns \subseteq Nat

VARIABLES
    assignment,   \* the stored assignments; those of a failed bulk are deleted
    stored,       \* how many assignments were ever stored
    group,        \* the members of each checkout group; a group has some
    bulk,         \* the bulk checkouts
    call,         \* the private state of each call
    calls, faults

vars == <<assignment, stored, group, bulk, call, calls, faults>>

counts == <<calls, faults>>

Ids == 1..MaxAssignments

Bulk ==
    [status: {"absent", "open", "done", "deleted"}, assets: SUBSET Assets, policy: Policies]

(* An assignment that is not returned has to = 0.  Three fields are        *)
(* history: whether it was deleted, the assignments known to its call when *)
(* it looked for overlaps without a policy, and the people its group has   *)
(* to contain.                                                             *)
Assignment ==
    [asset: Assets, kind: Kinds, who: People \cup Departments \cup Groups, role: Roles,
     purpose: {"checkout", "reservation"}, from: Nat, due: Nat, to: Nat,
     policy: Policies, bulk: Bulks \cup {0}, deleted: BOOLEAN, known: SUBSET Ids,
     heirs: SUBSET People]

Steps == {"idle", "lookup", "group", "end", "store", "rollback", "finish"}

(* as: what is to be stored; todo: the assets of a bulk still to come;      *)
(* ends: the checkouts to end; endAt: when; joining: people to be added to  *)
(* the group.                                                              *)
Call ==
    [step: Steps, as: Input \cup {None}, asset: Assets \cup {None}, todo: SUBSET Assets,
     bulk: Bulks \cup {0}, ends: SUBSET Ids, endAt: Nat, group: Groups \cup {0},
     joining: SUBSET People, heirs: SUBSET People, known: SUBSET Ids]

IdleCall ==
    [step |-> "idle", as |-> None, asset |-> None, todo |-> {}, bulk |-> 0, ends |-> {},
     endAt |-> 0, group |-> 0, joining |-> {}, heirs |-> {}, known |-> {}]

Init ==
    /\ assignment = [i \in Ids |-> None]
    /\ stored = 0
    /\ group = [g \in Groups |-> {}]
    /\ bulk = [b \in Bulks |-> [status |-> "absent", assets |-> {}, policy |-> ""]]
    /\ call = [c \in Callers |-> IdleCall]
    /\ calls = 0
    /\ faults = 0

-----------------------------------------------------------------------------

Stored == {i \in 1..stored : ~assignment[i].deleted}

(* Outside a reservation, DueAt is a reminder and ends no window.          *)
Until(a) == IF a.to # 0 THEN a.to ELSE a.due

Before(t, until) == until = 0 \/ t < until

Overlap(a, b) == Before(a.from, Until(b)) /\ Before(b.from, Until(a))

(* Mutant: only assignments that are not returned yet are in the way.      *)
OverlappingActive(k) ==
    {i \in Stored : /\ assignment[i].asset = k.asset /\ assignment[i].to = 0
                    /\ Overlap([from |-> k.as.from, due |-> k.as.due, to |-> 0], assignment[i])}

Overlapping(k) ==
    {i \in Stored : /\ assignment[i].asset = k.asset
                    /\ Overlap([from |-> k.as.from, due |-> k.as.due, to |-> 0], assignment[i])}

Checkouts(ids) == {i \in ids : assignment[i].purpose = "checkout"}

Active(ids) == {i \in ids : assignment[i].to = 0}

(* The order of ListAssetAssignments: the latest first, ties by random ids. *)
Latest(ids) == {i \in ids : \A j \in ids : assignment[j].from <= assignment[i].from}
Earliest(ids) == {i \in ids : \A j \in ids : assignment[i].from <= assignment[j].from}

AutoReplace(q) == q.role \in {"primary", "department"}

GroupExists(q) == q.kind = "group" => group[q.who] # {}

-----------------------------------------------------------------------------

(* The service call for one asset fails: a single call returns its error, a *)
(* bulk checkout is rolled back.                                           *)
Failed(k) == IF k.bulk = 0 THEN IdleCall ELSE [k EXCEPT !.step = "rollback"]

(* It succeeds: a bulk goes on with the next asset.                        *)
Succeeded(k) ==
    IF k.bulk = 0 THEN {IdleCall}
    ELSE IF k.todo = {} THEN {[k EXCEPT !.step = "finish"]}
    ELSE {[IdleCall EXCEPT !.step = "lookup", !.as = k.as, !.asset = a, !.todo = k.todo \ {a},
                           !.bulk = k.bulk] : a \in k.todo}

(* A checkout that meets another asks for a policy, unless its role is one  *)
(* that the store replaces; what meets a reservation asks for one too.     *)
Warned(q, checkouts, reservations) ==
    \/ /\ q.purpose = "checkout" /\ checkouts # {}
       /\ q.policy = "group" \/ (q.policy = "" /\ ~AutoReplace(q))
    \/ /\ q.policy = ""
       /\ reservations # {} \/ (q.purpose = "reservation" /\ checkouts # {})

Holders(ids) ==
    {p \in People : \E i \in ids :
        \/ assignment[i].kind = "identity" /\ assignment[i].who = p
        \/ assignment[i].kind = "group" /\ p \in group[assignment[i].who]}

InGroup(ids) == {i \in ids : assignment[i].kind = "group"}

(* What a call does once it has read the overlapping assignments (and the   *)
(* members of the groups among them).                                      *)
GroupCheckout(k, checkouts, read) ==
    LET heirs == Holders(checkouts) \cup {k.as.who}
    IN  IF InGroup(checkouts) # {}
        THEN {[read EXCEPT !.step = "group", !.group = g, !.heirs = heirs,
                           !.joining = heirs \ group[g]] :
                  g \in {assignment[i].who : i \in Earliest(InGroup(checkouts))}}
        ELSE IF Cardinality(heirs) < 2 THEN {Failed(k)}
        ELSE {[read EXCEPT !.step = "group", !.heirs = heirs]}

Decided(k) ==
    LET q == k.as
        found == Overlapping(k)
        checkouts == Checkouts(found)
        read == [k EXCEPT !.known = IF q.policy = "" THEN Stored ELSE {},
                          !.ends = Active(checkouts), !.endAt = q.from]
    IN  IF q.policy = "group" /\ q.kind = "identity" /\ checkouts # {}
        THEN GroupCheckout(k, checkouts, read)
        ELSE IF Warned(q, checkouts, found \ checkouts) THEN {Failed(k)}
        ELSE IF q.policy = "replace" /\ q.purpose = "checkout" /\ ~AutoReplace(q)
        THEN {[read EXCEPT !.step = IF read.ends = {} THEN "store" ELSE "end"]}
        ELSE {[read EXCEPT !.step = "store", !.ends = {}]}

(* A caller asks for one assignment.                                       *)
CreateAssetAssignment(c, q, a) ==
    /\ call[c].step = "idle"
    /\ calls < MaxCalls
    /\ calls' = calls + 1
    /\ GroupExists(q)
    /\ \E s \in Decided([IdleCall EXCEPT !.as = q, !.asset = a]) : call' = [call EXCEPT ![c] = s]
    /\ UNCHANGED <<assignment, stored, group, bulk, faults>>

(* A caller asks for a bulk checkout, whose record is stored before its     *)
(* first assignment.                                                       *)
NextBulk(b) == bulk[b].status = "absent" /\ \A d \in Bulks : d < b => bulk[d].status # "absent"

CreateBulkCheckout(c, q, b, as) ==
    /\ call[c].step = "idle"
    /\ calls < MaxCalls
    /\ calls' = calls + 1
    /\ q.kind # "department"
    /\ q.role = IF q.kind = "group" THEN "primary" ELSE "user"
    /\ GroupExists(q)
    /\ NextBulk(b)
    /\ bulk' = [bulk EXCEPT ![b] = [status |-> "open", assets |-> as, policy |-> q.policy]]
    /\ \E s \in Succeeded([IdleCall EXCEPT !.as = q, !.todo = as, !.bulk = b]) :
           call' = [call EXCEPT ![c] = s]
    /\ UNCHANGED <<assignment, stored, group, faults>>

NextAsset(c) ==
    /\ call[c].step = "lookup"
    /\ \E s \in Decided(call[c]) : call' = [call EXCEPT ![c] = s]
    /\ UNCHANGED <<assignment, stored, group, bulk, counts>>

(* CreateCheckoutGroup stores a new group with all its members, for a call *)
(* or for an operator; AddCheckoutGroupMember adds one person to the group *)
(* as it is stored.                                                        *)
NextGroup(g) == group[g] = {} /\ \A h \in Groups : h < g => group[h] # {}

CreateCheckoutGroup(g, people) ==
    /\ NextGroup(g)
    /\ group' = [group EXCEPT ![g] = people]

Joined(k) == [k EXCEPT !.step = IF k.ends = {} THEN "store" ELSE "end"]

FormGroup(c, g) ==
    /\ call[c].step = "group" /\ call[c].group = 0
    /\ CreateCheckoutGroup(g, call[c].heirs)
    /\ call' = [call EXCEPT ![c] = Joined([call[c] EXCEPT !.group = g])]
    /\ UNCHANGED <<assignment, stored, bulk, counts>>

(* Mutant: the group that has the asset is taken as it is.                 *)
JoinGroupAsItIs(c) ==
    /\ call[c].step = "group" /\ call[c].group # 0
    /\ call' = [call EXCEPT ![c] = Joined(call[c])]
    /\ UNCHANGED <<assignment, stored, group, bulk, counts>>

JoinGroup(c) ==
    LET k == call[c]
    IN  /\ k.step = "group" /\ k.group # 0
        /\ \/ /\ k.joining = {}
              /\ call' = [call EXCEPT ![c] = Joined(k)]
              /\ UNCHANGED group
           \/ \E p \in k.joining :
                 /\ group' = [group EXCEPT ![k.group] = @ \cup {p}]
                 /\ call' = [call EXCEPT ![c].joining = @ \ {p}]
        /\ UNCHANGED <<assignment, stored, bulk, counts>>

SameAssignee(i, q) == assignment[i].kind = q.kind /\ assignment[i].who = q.who

(* The loops of replaceOverlappingCheckouts and assignAsGroupCheckout go   *)
(* over the checkouts that were active when they were read, the latest     *)
(* first.  The first refuses to replace a checkout of the same assignee;   *)
(* the second stops at a checkout its group already has.                   *)
Stops(c, i) ==
    /\ call[c].group = 0
    /\ SameAssignee(i, call[c].as)

HasIt(c, i) ==
    /\ call[c].group # 0
    /\ assignment[i].kind = "group" /\ assignment[i].who = call[c].group

EndAt(c, i) ==
    IF call[c].endAt > assignment[i].from THEN call[c].endAt ELSE assignment[i].from + 1

(* The store ends an assignment that exists and is not yet returned.       *)
Endable(i) == i \in Active(Stored)

EndOverlap(c) ==
    /\ call[c].step = "end"
    /\ \E i \in Latest(call[c].ends) :
           \/ /\ HasIt(c, i)
              /\ assignment' = [assignment EXCEPT ![i].heirs = @ \cup call[c].heirs]
              /\ \E s \in Succeeded(call[c]) : call' = [call EXCEPT ![c] = s]
           \/ /\ ~HasIt(c, i)
              /\ Stops(c, i) \/ ~Endable(i)
              /\ call' = [call EXCEPT ![c] = Failed(call[c])]
              /\ UNCHANGED assignment
           \/ /\ ~HasIt(c, i) /\ ~Stops(c, i) /\ Endable(i)
              /\ assignment' = [assignment EXCEPT ![i].to = EndAt(c, i)]
              /\ call' = [call EXCEPT ![c] =
                    Joined([call[c] EXCEPT !.ends = @ \ {i}, !.endAt = EndAt(c, i)])]
    /\ UNCHANGED <<stored, group, bulk, counts>>

(* What is stored: the request, or the group checkout it became, which is  *)
(* an assignment of its own with the policy "proceed".                     *)
ToStore(c) ==
    IF call[c].group = 0 THEN call[c].as
    ELSE [call[c].as EXCEPT !.kind = "group", !.who = call[c].group, !.role = "primary",
                            !.policy = "proceed"]

(* The store closes the active checkout of a role that has one holder, and *)
(* refuses a second active checkout of the same user.                      *)
SameRole(c) ==
    {i \in Checkouts(Active(Stored)) :
        assignment[i].asset = call[c].asset /\ assignment[i].role = ToStore(c).role}

(* Mutant: what is closed was chosen when the overlaps were looked up.     *)
ReplacedAsRead(c) ==
    IF AutoReplace(ToStore(c)) THEN SameRole(c) \cap call[c].known ELSE {}

Replaced(c) == IF AutoReplace(ToStore(c)) THEN SameRole(c) ELSE {}

Conflict(c) ==
    /\ ToStore(c).purpose = "checkout"
    /\ IF AutoReplace(ToStore(c))
       THEN \E i \in SameRole(c) : assignment[i].from >= ToStore(c).from
       ELSE \E i \in SameRole(c) : SameAssignee(i, ToStore(c))

StoreAssignment(c) ==
    LET q == ToStore(c)
        new == [asset |-> call[c].asset, kind |-> q.kind, who |-> q.who, role |-> q.role,
                purpose |-> q.purpose, from |-> q.from, due |-> q.due, to |-> 0,
                policy |-> q.policy, bulk |-> call[c].bulk, deleted |-> FALSE,
                known |-> call[c].known, heirs |-> call[c].heirs]
        closed == IF q.purpose = "checkout" THEN Replaced(c) ELSE {}
    IN  /\ call[c].step = "store"
        /\ \/ /\ Conflict(c)
              /\ call' = [call EXCEPT ![c] = Failed(call[c])]
              /\ UNCHANGED <<assignment, stored>>
           \/ /\ ~Conflict(c)
              /\ stored < MaxAssignments
              /\ stored' = stored + 1
              /\ assignment' = [i \in Ids |->
                     IF i = stored + 1 THEN new
                     ELSE IF i \in closed THEN [assignment[i] EXCEPT !.to = q.from]
                     ELSE assignment[i]]
              /\ \E s \in Succeeded(call[c]) : call' = [call EXCEPT ![c] = s]
        /\ UNCHANGED <<group, bulk, counts>>

FinishBulk(c) ==
    /\ call[c].step = "finish"
    /\ bulk' = [bulk EXCEPT ![call[c].bulk].status = "done"]
    /\ call' = [call EXCEPT ![c] = IdleCall]
    /\ UNCHANGED <<assignment, stored, group, counts>>

(* Mutant: the rollback deletes the record alone.                          *)
DeleteBulkRecord(c) ==
    /\ call[c].step = "rollback"
    /\ bulk' = [bulk EXCEPT ![call[c].bulk].status = "deleted"]
    /\ call' = [call EXCEPT ![c] = IdleCall]
    /\ UNCHANGED <<assignment, stored, group, counts>>

(* DeleteBulkCheckout deletes the record and the assignments that name it; *)
(* what those had replaced stays ended.                                    *)
DeleteBulkCheckout(c) ==
    /\ call[c].step = "rollback"
    /\ bulk' = [bulk EXCEPT ![call[c].bulk].status = "deleted"]
    /\ assignment' = [i \in Ids |->
           IF i \in Stored /\ assignment[i].bulk = call[c].bulk
           THEN [assignment[i] EXCEPT !.deleted = TRUE] ELSE assignment[i]]
    /\ call' = [call EXCEPT ![c] = IdleCall]
    /\ UNCHANGED <<stored, group, counts>>

-----------------------------------------------------------------------------

(* An operator records a return, by default now or just after the start.   *)
EndAssetAssignment(i, t) ==
    /\ Endable(i)
    /\ t > assignment[i].from
    /\ assignment' = [assignment EXCEPT ![i].to = t]
    /\ UNCHANGED <<stored, group, bulk, call, counts>>

(* An operator makes a group for a person.                                 *)
OperatorFormsGroup(g, p) ==
    /\ CreateCheckoutGroup(g, {p})
    /\ UNCHANGED <<assignment, stored, bulk, call, counts>>

(* A store or the audit fails, which a bulk answers with its rollback, or  *)
(* the process stops.                                                      *)
Abort(c) ==
    /\ call[c].step # "idle"
    /\ faults < MaxFaults
    /\ faults' = faults + 1
    /\ UNCHANGED calls
    /\ \E s \in {IdleCall} \cup (IF call[c].step = "rollback" THEN {} ELSE {Failed(call[c])}) :
           call' = [call EXCEPT ![c] = s]
    /\ UNCHANGED <<assignment, stored, group, bulk>>

Next ==
    \/ \E c \in Callers :
           \/ \E q \in Inputs :
                  \/ \E a \in SingleAssets : CreateAssetAssignment(c, q, a)
                  \/ \E b \in Bulks, as \in BulkAssets : CreateBulkCheckout(c, q, b, as)
           \/ NextAsset(c)
           \/ \E g \in Groups : FormGroup(c, g)
           \/ JoinGroup(c)
           \/ EndOverlap(c)
           \/ StoreAssignment(c)
           \/ FinishBulk(c)
           \/ DeleteBulkCheckout(c)
           \/ Abort(c)
    \/ \E i \in Ids, t \in Returns : EndAssetAssignment(i, t)
    \/ \E g \in Groups, p \in People : OperatorFormsGroup(g, p)

Spec == Init /\ [][Next]_vars

-----------------------------------------------------------------------------

TypeOK ==
    /\ stored \in 0..MaxAssignments
    /\ assignment \in [Ids -> Assignment \cup {None}]
    /\ \A i \in 1..stored : assignment[i] \in Assignment
    /\ group \in [Groups -> SUBSET People]
    /\ bulk \in [Bulks -> Bulk]
    /\ call \in [Callers -> Call]
    /\ calls \in 0..MaxCalls
    /\ faults \in 0..MaxFaults

(* However calls interleave, an asset has at most one active primary       *)
(* checkout and one active responsible department, and nobody has it twice *)
(* as an additional user.                                                  *)
OneActiveRole ==
    \A i, j \in Checkouts(Active(Stored)) :
        /\ assignment[i].asset = assignment[j].asset
        /\ assignment[i].role = assignment[j].role
        /\ assignment[i].role = "user" => SameAssignee(i, assignment[j])
        => i = j

(* Of two assignments that overlap, the later one was stored under an       *)
(* explicit policy or in a role the store replaces, unless its call raced   *)
(* with the other one's: what was there when a call looked is never         *)
(* overlapped without a warning, also after some were returned.  (A         *)
(* reservation that is returned after its end is left out: the return      *)
(* lengthens it.)                                                          *)
Steady(a) == a.purpose = "checkout" \/ a.to = 0

UnwarnedOverlapsRaced ==
    \A j \in Stored : \A i \in assignment[j].known \cap Stored :
        LET new == assignment[j]
            old == assignment[i]
        IN  /\ new.policy = "" /\ (new.role = "user" \/ new.purpose = "reservation")
            /\ new.asset = old.asset
            /\ Steady(new) /\ Steady(old)
            => ~Overlap(new, old)

(* Whoever had the asset when a call turned its checkout into a group's,   *)
(* and whoever asked for it, is a member of the group that gets it, also   *)
(* when several calls add members to one group at a time.                  *)
GroupKeepsHolders ==
    \A i \in Stored :
        assignment[i].kind = "group" => assignment[i].heirs \subseteq group[assignment[i].who]

(* A bulk checkout is all or nothing: no stored assignment names a bulk     *)
(* that was rolled back, and one that was completed has an assignment of    *)
(* its own for each of its assets.  (With the policy "group" an asset may   *)
(* stay with the group that has it.)                                       *)
BulkIsWhole ==
    /\ \A i \in Stored :
           assignment[i].bulk # 0 => bulk[assignment[i].bulk].status \in {"open", "done"}
    /\ \A b \in Bulks : bulk[b].status = "done" /\ bulk[b].policy # "group" =>
           \A a \in bulk[b].assets : \E i \in Stored :
               assignment[i].asset = a /\ assignment[i].bulk = b
=============================================================================
