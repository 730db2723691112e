------------------------ MODULE AssetCheckoutProofs ------------------------
(***************************************************************************)
(* Proofs about AssetCheckout, for any assets, people, groups and bulks,   *)
(* any requests and any number of concurrent calls, failures and returns.  *)
(*                                                                         *)
(* The invariant says of the stored assignments what their windows, groups *)
(* and bulks promise, and of every call that what it is about to store     *)
(* keeps these promises whatever others have done since it looked.         *)
(***************************************************************************)
EXTENDS AssetCheckout, TLAPS

(* A stored assignment, when n are stored and g are the groups.             *)
AssignmentOK(a, n, g) ==
    /\ a \in Assignment
    /\ a.from # 0
    /\ a.purpose = "checkout" => a.due = 0
    /\ a.known \subseteq 1..n
    /\ a.kind = "group" => a.who \in Groups /\ a.heirs \subseteq g[a.who]

Busy == {"group", "end", "store"}

(* A call works on a request; it has an asset until it ends, and what it    *)
(* has read are stored assignments.                                        *)
RequestOK(k, n) ==
    /\ k \in Call
    /\ k.step # "idle" => k.as \in Input
    /\ k.step \in Busy \cup {"lookup"} => k.asset \in Assets
    /\ k.step \in {"lookup", "rollback", "finish"} => k.bulk # 0
    /\ k.step = "idle" => k = IdleCall
    /\ k.step = "finish" => k.todo = {}
    /\ k.ends \subseteq 1..n /\ k.known \subseteq 1..n

(* A call has a group only under the policy "group"; the people who must be *)
(* in it are, or are about to join.                                        *)
GroupOK(k, g) ==
    /\ k.step = "lookup" => k.group = 0 /\ k.heirs = {}
    /\ k.step = "group" => k.as.policy = "group"
    /\ k.step \in {"end", "store"} /\ k.group = 0 => k.heirs = {}
    /\ k.step \in Busy /\ k.group # 0 =>
          /\ k.as.policy = "group"
          /\ k.heirs \subseteq g[k.group] \cup (IF k.step = "group" THEN k.joining ELSE {})

(* The later of two assignments, new, does not overlap old unless it was    *)
(* asked to.                                                               *)
PairOK(new, old) ==
    /\ new.policy = "" /\ (new.role = "user" \/ new.purpose = "reservation")
    /\ new.asset = old.asset
    /\ Steady(new) /\ Steady(old)
    => ~Overlap(new, old)

(* What a call asks for, as an assignment.                                  *)
Asked(k) ==
    [asset |-> k.asset, role |-> k.as.role, purpose |-> k.as.purpose, from |-> k.as.from,
     due |-> k.as.due, to |-> 0, policy |-> k.as.policy]

(* It has met nothing of what was stored when the call looked, and is still *)
(* among ids.                                                              *)
WindowOK(k, ids, table) ==
    k.step \in Busy => \A i \in k.known \cap ids : PairOK(Asked(k), table[i])

(* The bulk of a call is open, and what is not to do any more is covered.   *)
Covered(a, b, ids, table) == \E i \in ids : table[i].asset = a /\ table[i].bulk = b

BulkOK(k, bulks, ids, table) ==
    k.bulk # 0 =>
        /\ bulks[k.bulk].status = "open"
        /\ k.step # "idle" /\ bulks[k.bulk].policy = k.as.policy
        /\ k.step # "rollback" /\ k.as.policy # "group" =>
              \A a \in bulks[k.bulk].assets :
                  \/ a \in k.todo
                  \/ k.step # "finish" /\ a = k.asset
                  \/ Covered(a, k.bulk, ids, table)

Apart ==
    \A c, d \in Callers : c # d /\ call[c].bulk = call[d].bulk => call[c].bulk = 0

ShapeInv ==
    /\ TypeOK
    /\ \A i \in 1..stored : AssignmentOK(assignment[i], stored, group)
    /\ \A c \in Callers : RequestOK(call[c], stored) /\ GroupOK(call[c], group)

WindowInv ==
    /\ \A c \in Callers : WindowOK(call[c], Stored, assignment)
    /\ UnwarnedOverlapsRaced

BulkInv ==
    /\ \A c \in Callers : BulkOK(call[c], bulk, Stored, assignment)
    /\ Apart
    /\ BulkIsWhole

CheckoutInv == ShapeInv /\ OneActiveRole /\ WindowInv /\ BulkInv

-----------------------------------------------------------------------------
(* Requests, and what a call becomes of one step.                           *)

LEMMA Bounds ==
    /\ MaxAssignments \in Nat /\ MaxTime \in Nat /\ MaxCalls \in Nat /\ MaxFaults \in Nat
    /\ Groups \subseteq Nat /\ 0 \notin Groups /\ Bulks \subseteq Nat /\ 0 \notin Bulks
    /\ Inputs \subseteq Input
    /\ \A n \in 0..MaxAssignments : n \in Nat /\ 1..n \subseteq Ids
BY CheckoutAssumption DEF Ids

LEMMA InputTyped ==
    ASSUME NEW q \in Input
    PROVE  /\ q \in [kind: Kinds, who: People \cup Departments \cup Groups, role: Roles,
                     purpose: {"checkout", "reservation"}, from: 1..MaxTime,
                     due: 0..MaxTime, policy: Policies]
           /\ q.from \in Nat /\ q.from # 0 /\ q.due \in Nat
           /\ q.purpose = "checkout" => q.due = 0
           /\ q.kind = "group" => q.who \in Groups
           /\ q.kind = "identity" => q.who \in People
<1>1. /\ q \in [kind: Kinds, who: People \cup Departments \cup Groups, role: Roles,
                purpose: {"checkout", "reservation"}, from: 1..MaxTime,
                due: 0..MaxTime, policy: Policies]
      /\ MaxTime \in Nat
      /\ q.purpose = "reservation" <=> q.due # 0
      /\ q.who \in CASE q.kind = "identity" -> People
                     [] q.kind = "department" -> Departments
                     [] q.kind = "group" -> Groups
  BY Bounds DEF Input
<1>2. q.kind = "group" => q.who \in Groups
  BY <1>1
<1>3. q.kind = "identity" => q.who \in People
  BY <1>1
<1> QED
  BY <1>1, <1>2, <1>3

LEMMA IdleTyped ==
    /\ IdleCall \in Call
    /\ \A n \in Nat : RequestOK(IdleCall, n)
    /\ \A g : GroupOK(IdleCall, g)
    /\ \A ids, table : WindowOK(IdleCall, ids, table)
    /\ \A bulks, ids, table : BulkOK(IdleCall, bulks, ids, table)
    /\ IdleCall.bulk = 0
<1>1. IdleCall \in Call
  BY DEF IdleCall, Call, Steps
<1> QED
  BY <1>1 DEF IdleCall, RequestOK, GroupOK, WindowOK, BulkOK, Busy

(* The call k has failed, with its bulk if it is of one.                    *)
LEMMA FailedCall ==
    ASSUME NEW k, NEW n \in Nat, RequestOK(k, n), k.step # "idle"
    PROVE  /\ RequestOK(Failed(k), n)
           /\ \A g : GroupOK(Failed(k), g)
           /\ \A ids, table : WindowOK(Failed(k), ids, table)
           /\ Failed(k).bulk = k.bulk
           /\ \A bulks, ids, table :
                  BulkOK(k, bulks, ids, table) => BulkOK(Failed(k), bulks, ids, table)
<1>1. CASE k.bulk = 0
  BY <1>1, IdleTyped DEF Failed
<1>2. CASE k.bulk # 0
  <2>1. /\ Failed(k) = [k EXCEPT !.step = "rollback"] /\ k \in Call
        /\ Failed(k) \in Call
    BY <1>2 DEF Failed, RequestOK, Call, Steps
  <2>2. /\ Failed(k).step = "rollback" /\ Failed(k).as = k.as /\ Failed(k).bulk = k.bulk
        /\ Failed(k).ends = k.ends /\ Failed(k).known = k.known
    BY <2>1 DEF Call
  <2> QED
    BY <1>2, <2>1, <2>2 DEF RequestOK, GroupOK, WindowOK, BulkOK, Busy
<1> QED
  BY <1>1, <1>2

(* The call k has finished one asset, and goes on with another of its bulk. *)
LEMMA SucceededCall ==
    ASSUME NEW k, NEW n \in Nat, RequestOK(k, n), k.step # "idle", NEW s \in Succeeded(k)
    PROVE  /\ RequestOK(s, n)
           /\ \A g : GroupOK(s, g)
           /\ \A ids, table : WindowOK(s, ids, table)
           /\ s.bulk = k.bulk
           /\ \A bulks, ids, table :
                  BulkOK(k, bulks, ids, table) /\ k.step \in Busy /\
                     (k.as.policy = "group" \/ Covered(k.asset, k.bulk, ids, table))
                  => BulkOK(s, bulks, ids, table)
<1>1. CASE k.bulk = 0
  BY <1>1, IdleTyped DEF Succeeded
<1>2. CASE k.bulk # 0 /\ k.todo = {}
  <2>1. /\ s = [k EXCEPT !.step = "finish"] /\ k \in Call
        /\ s \in Call
    BY <1>2 DEF Succeeded, RequestOK, Call, Steps
  <2>2. /\ s.step = "finish" /\ s.as = k.as /\ s.bulk = k.bulk /\ s.todo = k.todo
        /\ s.ends = k.ends /\ s.known = k.known
    BY <2>1 DEF Call
  <2> QED
    BY <1>2, <2>1, <2>2 DEF RequestOK, GroupOK, WindowOK, BulkOK, Busy
<1>3. CASE k.bulk # 0 /\ k.todo # {}
  <2>1. PICK a \in k.todo :
            s = [IdleCall EXCEPT !.step = "lookup", !.as = k.as, !.asset = a,
                                 !.todo = k.todo \ {a}, !.bulk = k.bulk]
    BY <1>3 DEF Succeeded
  <2>2. /\ k \in Call /\ a \in Assets /\ k.as \in Input
        /\ s.step = "lookup" /\ s.as = k.as /\ s.asset = a /\ s.todo = k.todo \ {a}
        /\ s.bulk = k.bulk /\ s.ends = {} /\ s.known = {} /\ s.group = 0 /\ s.heirs = {}
    BY <2>1 DEF RequestOK, Call, IdleCall
  <2>3. s \in Call
    BY <1>3, <2>1, <2>2 DEF Call, IdleCall, Steps
  <2> QED
    BY <1>3, <2>2, <2>3 DEF RequestOK, GroupOK, WindowOK, BulkOK, Busy
<1> QED
  BY <1>1, <1>2, <1>3

-----------------------------------------------------------------------------
(* What a call decides when it looks.                                       *)

(* s is the call k once it has decided to go on.                            *)
Decision(k, s) ==
    /\ RequestOK(s, stored) /\ s.step \in Busy
    /\ s.as = k.as /\ s.asset = k.asset /\ s.todo = k.todo /\ s.bulk = k.bulk
    /\ GroupOK(s, group)
    /\ WindowOK(s, Stored, assignment)

Looking(k) ==
    /\ k \in Call /\ k.as \in Input /\ k.asset \in Assets
    /\ k.group = 0 /\ k.heirs = {} /\ k.ends \subseteq 1..stored /\ k.known \subseteq 1..stored

(* What a decision sets makes a request again. *)
LEMMA ReadTyped ==
    ASSUME NEW k, Looking(k), NEW s \in Call, s.step \in Busy, s.as = k.as,
           s.asset = k.asset, s.ends \in SUBSET (1..stored), s.known \in SUBSET (1..stored)
    PROVE  RequestOK(s, stored)
BY DEF Looking, RequestOK, Busy

(* A request that is not warned and has no policy meets nothing. *)
LEMMA UnwarnedMeetsNothing ==
    ASSUME ShapeInv, NEW k, Looking(k), k.as.policy = "",
           ~Warned(k.as, Checkouts(Overlapping(k)), Overlapping(k) \ Checkouts(Overlapping(k))),
           NEW i \in Stored
    PROVE  PairOK(Asked(k), assignment[i])
<1> DEFINE q == k.as
<1>1. /\ q \in Input /\ q.purpose \in {"checkout", "reservation"} /\ q.role \in Roles
  BY InputTyped DEF Looking
<1>2. SUFFICES ASSUME q.role = "user" \/ q.purpose = "reservation",
                      assignment[i].asset = k.asset, Overlap(Asked(k), assignment[i])
               PROVE  FALSE
  BY DEF PairOK, Asked
<1>3. i \in Overlapping(k)
  BY <1>2 DEF Overlapping, Overlap, Asked, Until, Before
<1>4. CASE q.role = "user"
  BY <1>1, <1>3, <1>4 DEF Warned, AutoReplace
<1>5. CASE q.purpose = "reservation"
  BY <1>1, <1>3, <1>5 DEF Warned, AutoReplace
<1> QED
  BY <1>2, <1>4, <1>5

(* A call that turns its checkout into a group's. *)
LEMMA GroupDecided ==
    ASSUME ShapeInv, NEW k, Looking(k), k.as.policy = "group", k.as.kind = "identity",
           NEW checkouts \in SUBSET Stored, NEW read,
           read = [k EXCEPT !.known = {}, !.ends = Active(checkouts), !.endAt = k.as.from],
           NEW s \in GroupCheckout(k, checkouts, read)
    PROVE  s = Failed(k) \/ Decision(k, s)
<1> DEFINE heirs == Holders(checkouts) \cup {k.as.who}
<1>1. /\ k \in Call /\ heirs \in SUBSET People
      /\ Active(checkouts) \in SUBSET (1..stored) /\ {} \in SUBSET (1..stored)
      /\ Active(checkouts) \in SUBSET Ids
      /\ "group" \in Busy /\ k.group = 0 /\ k.as.from \in Nat
  BY InputTyped, Bounds DEF Looking, Holders, Active, Stored, Busy, ShapeInv, TypeOK, Call
<1>2. ASSUME s.step = "group", s.known = {}, s.as = k.as, s.heirs = heirs,
             s.group # 0 => s.heirs \subseteq group[s.group] \cup s.joining
      PROVE  GroupOK(s, group) /\ WindowOK(s, Stored, assignment)
  BY <1>2 DEF GroupOK, WindowOK, Busy
<1>3. CASE InGroup(checkouts) # {}
  <2>1. PICK g \in {assignment[i].who : i \in Earliest(InGroup(checkouts))} :
            s = [read EXCEPT !.step = "group", !.group = g, !.heirs = heirs,
                             !.joining = heirs \ group[g]]
    BY <1>3 DEF GroupCheckout
  <2>2. g \in Groups
    BY <2>1 DEF Earliest, InGroup, Stored, ShapeInv, AssignmentOK
  <2>3. heirs \ group[g] \in SUBSET People
    BY <1>1
  <2>4. read \in Call /\ read.as = k.as /\ read.asset = k.asset /\ read.todo = k.todo
        /\ read.bulk = k.bulk /\ read.known = {} /\ read.ends = Active(checkouts)
    BY <1>1 DEF Call
  <2> HIDE DEF heirs
  <2>5. /\ s \in Call /\ s.known = {} /\ s.step = "group" /\ s.ends = Active(checkouts)
        /\ s.group = g /\ s.heirs = heirs /\ s.joining = heirs \ group[g]
        /\ s.as = k.as /\ s.asset = k.asset /\ s.todo = k.todo /\ s.bulk = k.bulk
    <3> DEFINE joining == heirs \ group[g]
    <3>1. s = [read EXCEPT !.step = "group", !.group = g, !.heirs = heirs,
                           !.joining = joining]
      BY <2>1
    <3>2. joining \in SUBSET People /\ g \in Groups \cup {0} /\ heirs \in SUBSET People
      BY <1>1, <2>2, <2>3
    <3> HIDE DEF joining
    <3>3. read \in Call
      BY <2>4
    <3>4. /\ s \in Call /\ s.known = read.known /\ s.step = "group" /\ s.ends = read.ends
          /\ s.group = g /\ s.heirs = heirs /\ s.joining = joining
          /\ s.as = read.as /\ s.asset = read.asset /\ s.todo = read.todo
          /\ s.bulk = read.bulk
      BY <3>1, <3>2, <3>3 DEF Call, Steps
    <3> QED BY <2>4, <3>4 DEF joining
  <2>6. RequestOK(s, stored)
    BY <1>1, <2>5, ReadTyped
  <2> QED
    BY <1>1, <1>2, <2>5, <2>6 DEF Decision
<1>4. CASE InGroup(checkouts) = {} /\ s # Failed(k)
  <2>1. s = [read EXCEPT !.step = "group", !.heirs = heirs]
    BY <1>4 DEF GroupCheckout
  <2>2. read \in Call /\ read.as = k.as /\ read.asset = k.asset /\ read.todo = k.todo
        /\ read.bulk = k.bulk /\ read.known = {} /\ read.ends = Active(checkouts)
        /\ read.group = 0
    BY <1>1 DEF Call
  <2> HIDE DEF heirs
  <2>3. /\ s \in Call /\ s.known = {} /\ s.step = "group" /\ s.ends = Active(checkouts)
        /\ s.group = 0 /\ s.heirs = heirs
        /\ s.as = k.as /\ s.asset = k.asset /\ s.todo = k.todo /\ s.bulk = k.bulk
    BY <1>1, <2>1, <2>2 DEF Call, Steps
  <2>4. RequestOK(s, stored)
    BY <1>1, <2>3, ReadTyped
  <2> QED
    BY <1>1, <1>2, <2>3, <2>4 DEF Decision
<1> QED
  BY <1>3, <1>4

LEMMA DecidedCall ==
    ASSUME ShapeInv, NEW k, Looking(k), NEW s \in Decided(k)
    PROVE  s = Failed(k) \/ Decision(k, s)
<1> DEFINE q == k.as
           found == Overlapping(k)
           checkouts == Checkouts(found)
           known == IF q.policy = "" THEN Stored ELSE {}
           read == [k EXCEPT !.known = known, !.ends = Active(checkouts), !.endAt = q.from]
<1>1. /\ k \in Call /\ q \in Input /\ k.group = 0 /\ k.heirs = {} /\ q.from \in Nat
      /\ known \in SUBSET (1..stored) /\ known \in SUBSET Ids
      /\ checkouts \in SUBSET Stored
      /\ Active(checkouts) \in SUBSET (1..stored) /\ Active(checkouts) \in SUBSET Ids
  BY InputTyped, Bounds DEF Looking, Overlapping, Checkouts, Active, Stored, ShapeInv, TypeOK
<1>2. CASE q.policy = "group" /\ q.kind = "identity" /\ checkouts # {}
  <2>1. read = [k EXCEPT !.known = {}, !.ends = Active(checkouts), !.endAt = k.as.from]
    BY <1>2
  <2>2. s \in GroupCheckout(k, checkouts, read)
    BY <1>2 DEF Decided
  <2> HIDE DEF read, checkouts
  <2> QED
    BY <1>1, <1>2, <2>1, <2>2, GroupDecided
<1>3. ASSUME s # Failed(k), ~(q.policy = "group" /\ q.kind = "identity" /\ checkouts # {})
      PROVE  Decision(k, s)
  <2>1. ~Warned(q, checkouts, found \ checkouts)
    BY <1>3 DEF Decided
  <2>2. /\ read \in Call /\ read.as = k.as /\ read.asset = k.asset /\ read.todo = k.todo
        /\ read.bulk = k.bulk /\ read.known = known /\ read.ends = Active(checkouts)
        /\ read.group = 0 /\ read.heirs = {}
    <3> HIDE DEF known, checkouts
    <3> QED BY <1>1 DEF Call
  <2>3. \/ s = [read EXCEPT !.step = IF read.ends = {} THEN "store" ELSE "end"]
        \/ s = [read EXCEPT !.step = "store", !.ends = {}]
    BY <1>3, <2>1 DEF Decided
  <2>4. /\ s \in Call /\ RequestOK(s, stored) /\ s.known = known /\ s.step \in {"end", "store"}
        /\ s.group = 0 /\ s.heirs = {}
        /\ s.as = k.as /\ s.asset = k.asset /\ s.todo = k.todo /\ s.bulk = k.bulk
    <3> HIDE DEF known, checkouts, read
    <3>1. /\ s \in Call /\ s.known = known /\ s.step \in {"end", "store"}
          /\ s.group = 0 /\ s.heirs = {} /\ s.ends \in {{}, Active(checkouts)}
          /\ s.as = k.as /\ s.asset = k.asset /\ s.todo = k.todo /\ s.bulk = k.bulk
      BY <2>2, <2>3 DEF Call, Steps
    <3>2. s.step \in Busy /\ s.ends \in SUBSET (1..stored) /\ s.known \in SUBSET (1..stored)
      BY <1>1, <3>1 DEF Busy
    <3> QED BY <3>1, <3>2, ReadTyped
  <2>5. GroupOK(s, group)
    BY <2>4 DEF GroupOK, Busy
  <2>6. WindowOK(s, Stored, assignment)
    <3>1. Asked(s) = Asked(k)
      BY <2>4 DEF Asked
    <3>2. CASE q.policy = ""
      BY <2>1, <2>4, <3>1, <3>2, UnwarnedMeetsNothing DEF WindowOK
    <3>3. CASE q.policy # ""
      BY <2>4, <3>3 DEF WindowOK
    <3> QED BY <3>2, <3>3
  <2> QED
    BY <2>4, <2>5, <2>6 DEF Decision, Busy
<1> QED
  BY <1>2, <1>3

-----------------------------------------------------------------------------
(* What a step leaves of the assignments, the groups and the other calls.   *)

(* a is now b: returned, or as it was. *)
Follows(a, b) ==
    /\ b.asset = a.asset /\ b.role = a.role /\ b.purpose = a.purpose /\ b.policy = a.policy
    /\ b.from = a.from /\ b.due = a.due
    /\ b.to = a.to \/ (a.to = 0 /\ b.to # 0)

Keeps(a, b) ==
    /\ Follows(a, b)
    /\ b.kind = a.kind /\ b.who = a.who /\ b.bulk = a.bulk /\ b.known = a.known
    /\ a.deleted => b.deleted

Advance ==
    /\ stored' \in Nat /\ stored <= stored'
    /\ \A g \in Groups : group[g] \subseteq group'[g]
    /\ \A i \in 1..stored : Keeps(assignment[i], assignment'[i])

(* The window of a checkout can only shrink. *)
LEMMA PairKept ==
    ASSUME NEW a, NEW b, NEW c, NEW d, Follows(a, b), Follows(c, d),
           a.purpose = "checkout" => a.due = 0, c.purpose = "checkout" => c.due = 0,
           PairOK(a, c)
    PROVE  PairOK(b, d)
<1>1. SUFFICES ASSUME b.policy = "" /\ (b.role = "user" \/ b.purpose = "reservation"),
                      b.asset = d.asset, Steady(b), Steady(d), Overlap(b, d)
               PROVE  FALSE
  BY DEF PairOK
<1>2. Steady(a) /\ Steady(c)
  BY <1>1 DEF Steady, Follows
<1>3. Until(b) = Until(a) \/ Until(a) = 0
  BY <1>1 DEF Steady, Follows, Until
<1>4. Until(d) = Until(c) \/ Until(c) = 0
  BY <1>1 DEF Steady, Follows, Until
<1>5. Overlap(a, c)
  BY <1>1, <1>3, <1>4 DEF Overlap, Before, Follows
<1> QED
  BY <1>1, <1>2, <1>5 DEF PairOK, Follows

LEMMA RequestKept ==
    ASSUME NEW k, NEW n \in Nat, NEW m \in Nat, n <= m, RequestOK(k, n)
    PROVE  RequestOK(k, m)
<1>1. 1..n \subseteq 1..m
  OBVIOUS
<1> QED
  BY <1>1 DEF RequestOK

LEMMA GroupKept ==
    ASSUME NEW k, NEW n, RequestOK(k, n), NEW g, NEW h, GroupOK(k, g),
           \A x \in Groups : g[x] \subseteq h[x]
    PROVE  GroupOK(k, h)
<1>1. k.group \in Groups \cup {0}
  BY DEF RequestOK, Call
<1>2. k.step \in Busy /\ k.group # 0 =>
          k.heirs \subseteq h[k.group] \cup (IF k.step = "group" THEN k.joining ELSE {})
  BY <1>1 DEF GroupOK
<1> QED
  BY <1>2 DEF GroupOK

LEMMA AssignmentKept ==
    ASSUME NEW a, NEW b \in Assignment, NEW n \in Nat, NEW m \in Nat, n <= m, NEW g, NEW h,
           AssignmentOK(a, n, g), Keeps(a, b), \A x \in Groups : g[x] \subseteq h[x],
           b.kind = "group" /\ b.heirs # a.heirs => b.heirs \subseteq h[b.who]
    PROVE  AssignmentOK(b, m, h)
<1>1. 1..n \subseteq 1..m
  OBVIOUS
<1> QED
  BY <1>1 DEF AssignmentOK, Keeps, Follows

(* The shape of the state, when each call that moves is well-formed. *)
LEMMA ShapeKept ==
    ASSUME ShapeInv, TypeOK', Advance,
           \A i \in 1..stored : assignment'[i].kind = "group"
               /\ assignment'[i].heirs # assignment[i].heirs
               => assignment'[i].heirs \subseteq group'[assignment'[i].who],
           \A i \in 1..stored' : i > stored => AssignmentOK(assignment'[i], stored', group'),
           \A c \in Callers : \/ call'[c] = call[c]
                              \/ RequestOK(call'[c], stored') /\ GroupOK(call'[c], group')
    PROVE  ShapeInv'
<1>1. /\ stored \in Nat /\ stored' \in Nat /\ stored <= stored'
      /\ \A x \in Groups : group[x] \subseteq group'[x]
  BY Bounds DEF Advance, ShapeInv, TypeOK
<1>2. ASSUME NEW i \in 1..stored'
      PROVE  AssignmentOK(assignment'[i], stored', group')
  <2>1. CASE i \in 1..stored
    <3>1. AssignmentOK(assignment[i], stored, group) /\ Keeps(assignment[i], assignment'[i])
      BY <2>1 DEF ShapeInv, Advance
    <3>2. assignment'[i] \in Assignment
      BY <1>2 DEF TypeOK
    <3> QED
      BY <1>1, <2>1, <3>1, <3>2, AssignmentKept
  <2>2. CASE i \notin 1..stored
    BY <1>1, <2>2
  <2> QED
    BY <2>1, <2>2
<1>3. ASSUME NEW c \in Callers
      PROVE  RequestOK(call'[c], stored') /\ GroupOK(call'[c], group')
  <2>1. RequestOK(call[c], stored) /\ GroupOK(call[c], group)
    BY DEF ShapeInv
  <2>2. RequestOK(call[c], stored') /\ GroupOK(call[c], group')
    BY <1>1, <2>1, RequestKept, GroupKept
  <2> QED
    BY <2>2
<1> QED
  BY <1>2, <1>3 DEF ShapeInv

(* What was stored before the step and is not deleted was not before. *)
LEMMA StillStored ==
    ASSUME Advance, stored \in Nat, NEW i \in 1..stored, i \in Stored'
    PROVE  i \in Stored /\ Keeps(assignment[i], assignment'[i])
BY DEF Advance, Stored, Keeps

LEMMA WindowKept ==
    ASSUME ShapeInv, WindowInv, Advance,
           \A i \in 1..stored' : i > stored => \A j \in assignment'[i].known \cap Stored' :
               PairOK(assignment'[i], assignment'[j]),
           \A c \in Callers : \/ call'[c] = call[c]
                              \/ WindowOK(call'[c], Stored', assignment')
    PROVE  WindowInv'
<1>1. stored \in Nat /\ stored' \in Nat
  BY Bounds DEF Advance, ShapeInv, TypeOK
<1>2. ASSUME NEW i \in 1..stored
      PROVE  assignment[i].purpose = "checkout" => assignment[i].due = 0
  BY DEF ShapeInv, AssignmentOK
<1>3. ASSUME NEW c \in Callers, call'[c] = call[c]
      PROVE  WindowOK(call'[c], Stored', assignment')
  <2>1. SUFFICES ASSUME call[c].step \in Busy, NEW i \in call[c].known, i \in Stored'
                 PROVE  PairOK(Asked(call[c]), assignment'[i])
    BY <1>3 DEF WindowOK
  <2>2. /\ RequestOK(call[c], stored) /\ call[c].as \in Input
        /\ call[c].as.purpose = "checkout" => call[c].as.due = 0
    BY <2>1, InputTyped DEF ShapeInv, RequestOK, Busy
  <2>3. i \in 1..stored
    BY <2>2 DEF RequestOK
  <2>4. i \in Stored /\ Keeps(assignment[i], assignment'[i])
    BY <1>1, <2>1, <2>3, StillStored
  <2>5. PairOK(Asked(call[c]), assignment[i])
    BY <2>1, <2>4 DEF WindowInv, WindowOK
  <2>6. /\ Follows(assignment[i], assignment'[i]) /\ Follows(Asked(call[c]), Asked(call[c]))
        /\ Asked(call[c]).purpose = "checkout" => Asked(call[c]).due = 0
    BY <2>2, <2>4 DEF Keeps, Follows, Asked
  <2> QED
    BY <1>2, <2>3, <2>5, <2>6, PairKept
<1>4. ASSUME NEW j \in Stored', NEW i \in assignment'[j].known, i \in Stored'
      PROVE  PairOK(assignment'[j], assignment'[i])
  <2>1. j \in 1..stored'
    BY DEF Stored
  <2>2. CASE j > stored
    BY <1>4, <2>1, <2>2
  <2>3. CASE j \in 1..stored
    <3>1. j \in Stored /\ Keeps(assignment[j], assignment'[j])
      BY <1>1, <1>4, <2>3, StillStored
    <3>2. i \in assignment[j].known /\ i \in 1..stored
      BY <1>4, <2>3, <3>1 DEF Keeps, ShapeInv, AssignmentOK
    <3>3. i \in Stored /\ Keeps(assignment[i], assignment'[i])
      BY <1>1, <1>4, <3>2, StillStored
    <3>4. PairOK(assignment[j], assignment[i])
      BY <3>1, <3>2, <3>3 DEF WindowInv, UnwarnedOverlapsRaced, PairOK
    <3> QED
      BY <1>2, <2>3, <3>1, <3>2, <3>3, <3>4, PairKept DEF Keeps
  <2> QED
    BY <1>1, <2>1, <2>2, <2>3
<1>5. UnwarnedOverlapsRaced'
  BY <1>4 DEF UnwarnedOverlapsRaced, PairOK
<1> QED
  BY <1>3, <1>5 DEF WindowInv

LEMMA CoveredKept ==
    ASSUME Advance, stored \in Nat, NEW a, NEW b, Covered(a, b, Stored, assignment),
           \A i \in 1..stored : assignment[i].bulk = b => assignment'[i].deleted = assignment[i].deleted
    PROVE  Covered(a, b, Stored', assignment')
<1>1. PICK i \in Stored : assignment[i].asset = a /\ assignment[i].bulk = b
  BY DEF Covered
<1>2. /\ i \in 1..stored /\ stored <= stored' /\ stored' \in Nat
      /\ Keeps(assignment[i], assignment'[i]) /\ ~assignment[i].deleted
  BY DEF Stored, Advance
<1>3. i \in 1..stored' /\ ~assignment'[i].deleted
  BY <1>1, <1>2
<1> QED
  BY <1>1, <1>2, <1>3 DEF Covered, Stored, Keeps, Follows

LEMMA BulkOKKept ==
    ASSUME Advance, stored \in Nat, NEW k, NEW bulks, BulkOK(k, bulk, Stored, assignment),
           k.bulk # 0 => bulks[k.bulk] = bulk[k.bulk],
           \A i \in 1..stored : assignment[i].bulk = k.bulk
               => assignment'[i].deleted = assignment[i].deleted
    PROVE  BulkOK(k, bulks, Stored', assignment')
<1>1. ASSUME NEW a, Covered(a, k.bulk, Stored, assignment)
      PROVE  Covered(a, k.bulk, Stored', assignment')
  BY <1>1, CoveredKept
<1> QED
  BY <1>1 DEF BulkOK

LEMMA BulkKept ==
    ASSUME ShapeInv, BulkInv, Advance, bulk' = bulk,
           \A i \in 1..stored : assignment'[i].deleted = assignment[i].deleted,
           \A i \in 1..stored' : i > stored /\ assignment'[i].bulk # 0
               => bulk[assignment'[i].bulk].status = "open",
           \A c \in Callers : \/ call'[c] = call[c]
                              \/ /\ BulkOK(call'[c], bulk, Stored', assignment')
                                 /\ call'[c].bulk \in {0, call[c].bulk}
    PROVE  BulkInv'
<1>1. stored \in Nat /\ stored' \in Nat /\ stored <= stored'
  BY Bounds DEF Advance, ShapeInv, TypeOK
<1>2. \A c \in Callers : BulkOK(call'[c], bulk', Stored', assignment')
  BY <1>1, BulkOKKept DEF BulkInv
<1>3. Apart'
  BY DEF Apart, BulkInv
<1>4. ASSUME NEW i \in Stored', assignment'[i].bulk # 0
      PROVE  bulk[assignment'[i].bulk].status \in {"open", "done"}
  <2>1. i \in 1..stored'
    BY DEF Stored
  <2>2. CASE i \in 1..stored
    <3>1. i \in Stored /\ assignment'[i].bulk = assignment[i].bulk
      BY <1>1, <1>4, <2>2, StillStored DEF Keeps
    <3> QED
      BY <1>4, <3>1 DEF BulkInv, BulkIsWhole
  <2>3. CASE i > stored
    BY <1>4, <2>1, <2>3
  <2> QED
    BY <1>1, <2>1, <2>2, <2>3
<1>5. ASSUME NEW b \in Bulks, bulk[b].status = "done", bulk[b].policy # "group",
             NEW a \in bulk[b].assets
      PROVE  Covered(a, b, Stored', assignment')
  <2>1. Covered(a, b, Stored, assignment)
    BY <1>5 DEF BulkInv, BulkIsWhole, Covered
  <2> QED
    BY <1>1, <2>1, CoveredKept
<1>6. BulkIsWhole'
  BY <1>4, <1>5 DEF BulkIsWhole, Covered
<1> QED
  BY <1>2, <1>3, <1>6 DEF BulkInv

(* A checkout that is active after the step and stored before it was active. *)
LEMMA StillActive ==
    ASSUME ShapeInv, Advance, NEW i \in 1..stored, i \in Checkouts(Active(Stored))'
    PROVE  i \in Checkouts(Active(Stored)) /\ Keeps(assignment[i], assignment'[i])
<1>1. stored \in Nat /\ i \in Stored' /\ assignment'[i].to = 0
      /\ assignment'[i].purpose = "checkout"
  BY Bounds DEF Checkouts, Active, ShapeInv, TypeOK
<1>2. i \in Stored /\ Keeps(assignment[i], assignment'[i])
  BY <1>1, StillStored
<1> QED
  BY <1>1, <1>2 DEF Checkouts, Active, Keeps, Follows

(* Returns and deletions take no role. *)
LEMMA RoleKept ==
    ASSUME ShapeInv, OneActiveRole, Advance, stored' = stored
    PROVE  OneActiveRole'
<1>1. stored \in Nat
  BY Bounds DEF ShapeInv, TypeOK
<1>2. ASSUME NEW i \in Checkouts(Active(Stored))'
      PROVE  i \in Checkouts(Active(Stored)) /\ Keeps(assignment[i], assignment'[i])
  <2>1. i \in 1..stored
    BY DEF Checkouts, Active, Stored
  <2> QED
    BY <2>1, StillActive
<1>3. ASSUME NEW i \in Checkouts(Active(Stored))', NEW j \in Checkouts(Active(Stored))',
             assignment'[i].asset = assignment'[j].asset,
             assignment'[i].role = assignment'[j].role,
             assignment'[i].role = "user" =>
                 assignment'[i].kind = assignment'[j].kind /\ assignment'[i].who = assignment'[j].who
      PROVE  i = j
  <2>1. /\ i \in Checkouts(Active(Stored)) /\ Keeps(assignment[i], assignment'[i])
        /\ j \in Checkouts(Active(Stored)) /\ Keeps(assignment[j], assignment'[j])
    BY <1>2
  <2> QED
    BY <1>3, <2>1, ZenonT(60) DEF OneActiveRole, SameAssignee, Keeps, Follows
<1> QED
  BY <1>3 DEF OneActiveRole, SameAssignee

(* A step that stores no assignment and leaves them all, or returns some. *)
LEMMA QuietStep ==
    ASSUME CheckoutInv, TypeOK', Advance, stored' = stored, bulk' = bulk,
           \A i \in 1..stored : assignment'[i].deleted = assignment[i].deleted,
           \A i \in 1..stored : assignment'[i].kind = "group"
               /\ assignment'[i].heirs # assignment[i].heirs
               => assignment'[i].heirs \subseteq group'[assignment'[i].who],
           \A c \in Callers : \/ call'[c] = call[c]
                              \/ /\ RequestOK(call'[c], stored) /\ GroupOK(call'[c], group')
                                 /\ WindowOK(call'[c], Stored', assignment')
                                 /\ BulkOK(call'[c], bulk, Stored', assignment')
                                 /\ call'[c].bulk \in {0, call[c].bulk}
    PROVE  CheckoutInv'
<1>0. ShapeInv /\ OneActiveRole /\ WindowInv /\ BulkInv /\ stored \in Nat
  BY Bounds DEF CheckoutInv, ShapeInv, TypeOK
<1>1. \A i \in 1..stored' : ~(i > stored)
  BY <1>0
<1>2. ShapeInv'
  BY <1>0, <1>1, ShapeKept
<1>3. WindowInv'
  BY <1>0, <1>1, WindowKept
<1>4. BulkInv'
  BY <1>0, <1>1, BulkKept
<1>5. OneActiveRole'
  BY <1>0, RoleKept
<1> QED
  BY <1>2, <1>3, <1>4, <1>5 DEF CheckoutInv

(* A step of one call that touches no assignment. *)
LEMMA CallStep ==
    ASSUME CheckoutInv, UNCHANGED <<assignment, stored, bulk>>,
           group' \in [Groups -> SUBSET People], \A g \in Groups : group[g] \subseteq group'[g],
           calls' \in 0..MaxCalls, faults' \in 0..MaxFaults,
           NEW c \in Callers, NEW s, call' = [call EXCEPT ![c] = s],
           RequestOK(s, stored), GroupOK(s, group'), WindowOK(s, Stored, assignment),
           BulkOK(s, bulk, Stored, assignment), s.bulk \in {0, call[c].bulk}
    PROVE  CheckoutInv'
<1>1. ShapeInv /\ TypeOK /\ stored \in Nat
  BY Bounds DEF CheckoutInv, ShapeInv, TypeOK
<1>2. TypeOK'
  BY <1>1 DEF TypeOK, RequestOK
<1>3. Advance
  BY <1>1 DEF Advance, Keeps, Follows
<1>4. Stored' = Stored
  BY DEF Stored
<1>5. \A d \in Callers : d # c => call'[d] = call[d]
  BY <1>1 DEF TypeOK
<1>6. call'[c] = s
  BY <1>1 DEF TypeOK
<1> QED
  BY <1>1, <1>2, <1>3, <1>4, <1>5, <1>6, QuietStep

-----------------------------------------------------------------------------
(* The actions.                                                             *)

(* What a call decides of a request it has not begun to serve. *)
LEMMA DecidedOK ==
    ASSUME CheckoutInv, NEW k, Looking(k), NEW s \in Decided(k),
           s = Failed(k) => /\ RequestOK(s, stored) /\ GroupOK(s, group)
                            /\ WindowOK(s, Stored, assignment)
                            /\ BulkOK(s, bulk, Stored, assignment)
                            /\ s.bulk = k.bulk,
           BulkOK(k, bulk, Stored, assignment) \/ k.bulk = 0,
           k.step \notin {"finish", "rollback"}
    PROVE  /\ RequestOK(s, stored) /\ GroupOK(s, group)
           /\ WindowOK(s, Stored, assignment)
           /\ BulkOK(s, bulk, Stored, assignment)
           /\ s.bulk = k.bulk
<1>1. s = Failed(k) \/ Decision(k, s)
  BY DecidedCall DEF CheckoutInv
<1>2. CASE Decision(k, s)
  <2>1. BulkOK(s, bulk, Stored, assignment)
    BY <1>2 DEF Decision, BulkOK, Busy
  <2> QED
    BY <1>2, <2>1 DEF Decision
<1> QED
  BY <1>1, <1>2

LEMMA CreateAssetAssignmentKeeps ==
    ASSUME CheckoutInv, NEW c \in Callers, NEW q \in Inputs, NEW a \in SingleAssets,
           CreateAssetAssignment(c, q, a)
    PROVE  CheckoutInv'
<1> DEFINE k == [IdleCall EXCEPT !.as = q, !.asset = a]
<1>1. /\ ShapeInv /\ TypeOK /\ q \in Input /\ a \in Assets /\ stored \in Nat
      /\ MaxCalls \in Nat /\ calls \in Nat
  BY Bounds, CheckoutAssumption DEF CheckoutInv, ShapeInv, TypeOK
<1>2. PICK s \in Decided(k) : call' = [call EXCEPT ![c] = s]
  BY DEF CreateAssetAssignment
<1>3. k \in Call /\ k.step = "idle" /\ k.as = q /\ k.asset = a /\ k.bulk = 0 /\ k.group = 0
      /\ k.heirs = {} /\ k.ends = {} /\ k.known = {}
  BY <1>1 DEF IdleCall, Call, Steps
<1>4. Looking(k)
  BY <1>1, <1>3 DEF Looking
<1>5. Failed(k) = IdleCall
  BY <1>3 DEF Failed
<1> HIDE DEF k
<1>6. /\ RequestOK(s, stored) /\ GroupOK(s, group) /\ WindowOK(s, Stored, assignment)
      /\ BulkOK(s, bulk, Stored, assignment) /\ s.bulk = k.bulk
  BY <1>1, <1>2, <1>3, <1>4, <1>5, IdleTyped, DecidedOK
<1>7. /\ UNCHANGED <<assignment, stored, bulk>> /\ group' = group /\ faults' = faults
      /\ calls' \in 0..MaxCalls
  BY <1>1 DEF CreateAssetAssignment
<1> QED
  BY <1>1, <1>2, <1>3, <1>6, <1>7, CallStep DEF TypeOK

(* What holds of a call before its step. *)
LEMMA CallHas ==
    ASSUME CheckoutInv, NEW c \in Callers
    PROVE  /\ stored \in Nat /\ ShapeInv /\ TypeOK /\ call[c] \in Call
           /\ RequestOK(call[c], stored) /\ GroupOK(call[c], group)
           /\ WindowOK(call[c], Stored, assignment)
           /\ BulkOK(call[c], bulk, Stored, assignment)
BY Bounds DEF CheckoutInv, ShapeInv, TypeOK, WindowInv, BulkInv

LEMMA NextAssetKeeps ==
    ASSUME CheckoutInv, NEW c \in Callers, NextAsset(c)
    PROVE  CheckoutInv'
<1> DEFINE k == call[c]
<1>1. /\ stored \in Nat /\ TypeOK /\ RequestOK(k, stored) /\ GroupOK(k, group)
      /\ BulkOK(k, bulk, Stored, assignment) /\ k.step = "lookup"
  BY CallHas DEF NextAsset
<1>2. PICK s \in Decided(k) : call' = [call EXCEPT ![c] = s]
  BY DEF NextAsset
<1>3. Looking(k)
  BY <1>1 DEF Looking, RequestOK, GroupOK
<1> HIDE DEF k
<1>4. /\ RequestOK(Failed(k), stored) /\ GroupOK(Failed(k), group)
      /\ WindowOK(Failed(k), Stored, assignment)
      /\ BulkOK(Failed(k), bulk, Stored, assignment) /\ Failed(k).bulk = k.bulk
  BY <1>1, FailedCall
<1>5. /\ RequestOK(s, stored) /\ GroupOK(s, group) /\ WindowOK(s, Stored, assignment)
      /\ BulkOK(s, bulk, Stored, assignment) /\ s.bulk = k.bulk
  BY <1>1, <1>2, <1>3, <1>4, DecidedOK
<1>6. UNCHANGED <<assignment, stored, bulk>> /\ group' = group /\ UNCHANGED <<calls, faults>>
  BY DEF NextAsset, counts
<1> QED
  BY <1>1, <1>2, <1>5, <1>6, CallStep DEF TypeOK, k

LEMMA AbortKeeps ==
    ASSUME CheckoutInv, NEW c \in Callers, Abort(c)
    PROVE  CheckoutInv'
<1> DEFINE k == call[c]
<1>1. /\ stored \in Nat /\ TypeOK /\ RequestOK(k, stored)
      /\ BulkOK(k, bulk, Stored, assignment) /\ k.step # "idle"
  BY CallHas DEF Abort
<1>2. PICK s \in {IdleCall, Failed(k)} : call' = [call EXCEPT ![c] = s]
  BY DEF Abort
<1>3. /\ RequestOK(s, stored) /\ GroupOK(s, group) /\ WindowOK(s, Stored, assignment)
      /\ BulkOK(s, bulk, Stored, assignment) /\ s.bulk \in {0, k.bulk}
  BY <1>1, <1>2, FailedCall, IdleTyped
<1>4. /\ UNCHANGED <<assignment, stored, bulk>> /\ group' = group /\ calls' = calls
      /\ faults' \in 0..MaxFaults
  BY <1>1, Bounds DEF Abort, TypeOK
<1> QED
  BY <1>1, <1>2, <1>3, <1>4, CallStep DEF TypeOK

(* A call that has its group, or has ended a checkout, goes on. *)
LEMMA JoinedCall ==
    ASSUME NEW k \in Call, NEW n, k.step \in Busy, RequestOK(k, n)
    PROVE  /\ RequestOK(Joined(k), n) /\ Joined(k).step \in {"end", "store"}
           /\ Joined(k).as = k.as /\ Joined(k).asset = k.asset /\ Joined(k).todo = k.todo
           /\ Joined(k).bulk = k.bulk /\ Joined(k).group = k.group
           /\ Joined(k).heirs = k.heirs /\ Joined(k).known = k.known
<1>1. /\ Joined(k) \in Call /\ Joined(k).step \in {"end", "store"}
      /\ Joined(k).as = k.as /\ Joined(k).asset = k.asset /\ Joined(k).todo = k.todo
      /\ Joined(k).bulk = k.bulk /\ Joined(k).group = k.group
      /\ Joined(k).heirs = k.heirs /\ Joined(k).known = k.known /\ Joined(k).ends = k.ends
  BY DEF Joined, Call, Steps
<1> QED
  BY <1>1 DEF RequestOK, Busy

(* A busy call that stays busy with the same request and the same reading. *)
LEMMA BusyCall ==
    ASSUME NEW k, NEW s, k.step \in Busy, s.step \in Busy, s.as = k.as, s.asset = k.asset,
           s.todo = k.todo, s.bulk = k.bulk, s.known = k.known
    PROVE  /\ \A ids, table : WindowOK(k, ids, table) => WindowOK(s, ids, table)
           /\ \A bulks, ids, table : BulkOK(k, bulks, ids, table) => BulkOK(s, bulks, ids, table)
<1>1. Asked(s) = Asked(k)
  BY DEF Asked
<1> QED
  BY <1>1 DEF WindowOK, BulkOK, Busy

LEMMA FormGroupKeeps ==
    ASSUME CheckoutInv, NEW c \in Callers, NEW g \in Groups, FormGroup(c, g)
    PROVE  CheckoutInv'
<1> DEFINE k == call[c]
           m == [k EXCEPT !.group = g]
           s == Joined(m)
<1>1. /\ stored \in Nat /\ TypeOK /\ k \in Call /\ RequestOK(k, stored) /\ GroupOK(k, group)
      /\ WindowOK(k, Stored, assignment) /\ BulkOK(k, bulk, Stored, assignment)
      /\ k.step = "group" /\ k.step \in Busy /\ k.heirs \in SUBSET People
      /\ group \in [Groups -> SUBSET People]
  BY CallHas DEF FormGroup, Busy, Call, TypeOK
<1>2. /\ group[g] = {} /\ group' = [group EXCEPT ![g] = k.heirs]
      /\ call' = [call EXCEPT ![c] = s]
      /\ UNCHANGED <<assignment, stored, bulk, calls, faults>>
  BY DEF FormGroup, CreateCheckoutGroup, NextGroup, counts
<1>3. /\ m \in Call /\ m.step = k.step /\ m.as = k.as /\ m.asset = k.asset /\ m.todo = k.todo
      /\ m.bulk = k.bulk /\ m.ends = k.ends /\ m.known = k.known /\ m.heirs = k.heirs
      /\ m.group = g
  BY <1>1 DEF Call
<1> HIDE DEF m
<1>4. RequestOK(m, stored) /\ m.step \in Busy
  BY <1>1, <1>3 DEF RequestOK, Busy
<1>5. /\ RequestOK(s, stored) /\ s.step \in {"end", "store"} /\ s.as = k.as /\ s.asset = k.asset
      /\ s.todo = k.todo /\ s.bulk = k.bulk /\ s.group = g /\ s.heirs = k.heirs
      /\ s.known = k.known
  BY <1>3, <1>4, JoinedCall
<1>6. /\ group' \in [Groups -> SUBSET People] /\ group'[g] = k.heirs
      /\ \A x \in Groups : group[x] \subseteq group'[x]
  BY <1>1, <1>2
<1> HIDE DEF s
<1>7. GroupOK(s, group')
  BY <1>1, <1>5, <1>6, Bounds DEF GroupOK
<1>8. WindowOK(s, Stored, assignment) /\ BulkOK(s, bulk, Stored, assignment)
  <2>1. s.step \in Busy
    BY <1>5 DEF Busy
  <2> QED
    BY <1>1, <1>5, <2>1, BusyCall
<1> QED
  BY <1>1, <1>2, <1>5, <1>6, <1>7, <1>8, CallStep DEF TypeOK

LEMMA JoinGroupKeeps ==
    ASSUME CheckoutInv, NEW c \in Callers, JoinGroup(c)
    PROVE  CheckoutInv'
<1> DEFINE k == call[c]
<1>1. /\ stored \in Nat /\ TypeOK /\ k \in Call /\ RequestOK(k, stored) /\ GroupOK(k, group)
      /\ WindowOK(k, Stored, assignment) /\ BulkOK(k, bulk, Stored, assignment)
      /\ k.step = "group" /\ k.step \in Busy /\ k.group \in Groups
      /\ k.joining \in SUBSET People /\ group \in [Groups -> SUBSET People]
      /\ UNCHANGED <<assignment, stored, bulk, calls, faults>>
  BY CallHas DEF JoinGroup, Busy, Call, TypeOK, counts
<1>2. CASE k.joining = {} /\ call' = [call EXCEPT ![c] = Joined(k)] /\ group' = group
  <2> DEFINE s == Joined(k)
  <2>1. /\ RequestOK(s, stored) /\ s.step \in {"end", "store"} /\ s.as = k.as /\ s.asset = k.asset
        /\ s.todo = k.todo /\ s.bulk = k.bulk /\ s.group = k.group /\ s.heirs = k.heirs
        /\ s.known = k.known
    BY <1>1, JoinedCall
  <2> HIDE DEF s
  <2>2. GroupOK(s, group')
    BY <1>1, <1>2, <2>1, Bounds DEF GroupOK
  <2>3. WindowOK(s, Stored, assignment) /\ BulkOK(s, bulk, Stored, assignment)
    <3>1. s.step \in Busy
      BY <2>1 DEF Busy
    <3> QED
      BY <1>1, <2>1, <3>1, BusyCall
  <2> QED
    BY <1>1, <1>2, <2>1, <2>2, <2>3, CallStep DEF TypeOK, s
<1>3. ASSUME NEW p \in k.joining, group' = [group EXCEPT ![k.group] = @ \cup {p}],
             call' = [call EXCEPT ![c].joining = @ \ {p}]
      PROVE  CheckoutInv'
  <2> DEFINE s == [k EXCEPT !.joining = k.joining \ {p}]
  <2>1. call' = [call EXCEPT ![c] = s]
    BY <1>1, <1>3 DEF TypeOK
  <2>2. /\ s \in Call /\ s.step = k.step /\ s.as = k.as /\ s.asset = k.asset /\ s.todo = k.todo
        /\ s.bulk = k.bulk /\ s.ends = k.ends /\ s.known = k.known /\ s.heirs = k.heirs
        /\ s.group = k.group /\ s.joining = k.joining \ {p}
    BY <1>1 DEF Call
  <2> HIDE DEF s
  <2>3. RequestOK(s, stored) /\ s.step \in Busy
    BY <1>1, <2>2 DEF RequestOK, Busy
  <2>4. /\ group' \in [Groups -> SUBSET People] /\ group'[k.group] = group[k.group] \cup {p}
        /\ \A x \in Groups : group[x] \subseteq group'[x]
    BY <1>1, <1>3
  <2>5. k.as.policy = "group" /\ k.heirs \subseteq group[k.group] \cup k.joining
    BY <1>1, Bounds DEF GroupOK
  <2>6. GroupOK(s, group')
    BY <1>1, <2>2, <2>4, <2>5 DEF GroupOK, Busy
  <2>7. WindowOK(s, Stored, assignment) /\ BulkOK(s, bulk, Stored, assignment)
    BY <1>1, <2>2, <2>3, BusyCall
  <2> QED
    BY <1>1, <2>1, <2>2, <2>3, <2>4, <2>6, <2>7, CallStep DEF TypeOK
<1> QED
  BY <1>2, <1>3 DEF JoinGroup

(* One assignment is returned, gets the people its group took in, or is     *)
(* deleted.                                                                *)
LEMMA Returned ==
    ASSUME NEW a \in Assignment, a.to = 0, NEW t \in Nat, t # 0
    PROVE  LET b == [a EXCEPT !.to = t]
           IN  /\ b \in Assignment /\ Keeps(a, b) /\ b.to = t
               /\ b.deleted = a.deleted /\ b.heirs = a.heirs
BY DEF Assignment, Keeps, Follows

LEMMA Inherited ==
    ASSUME NEW a \in Assignment, NEW people \in SUBSET People
    PROVE  LET b == [a EXCEPT !.heirs = people]
           IN  /\ b \in Assignment /\ Keeps(a, b)
               /\ b.deleted = a.deleted /\ b.heirs = people
BY DEF Assignment, Keeps, Follows

LEMMA Deleted ==
    ASSUME NEW a \in Assignment
    PROVE  LET b == [a EXCEPT !.deleted = TRUE]
           IN  b \in Assignment /\ Keeps(a, b) /\ b.heirs = a.heirs /\ b.deleted
BY DEF Assignment, Keeps, Follows

(* The step that changes the assignment i to b, and the call c to s. *)
LEMMA ChangedStep ==
    ASSUME CheckoutInv, NEW i \in 1..stored, NEW b \in Assignment, Keeps(assignment[i], b),
           b.deleted = assignment[i].deleted,
           b.heirs # assignment[i].heirs /\ b.kind = "group" => b.heirs \subseteq group[b.who],
           assignment' = [assignment EXCEPT ![i] = b],
           UNCHANGED <<stored, group, bulk, calls, faults>>,
           call' \in [Callers -> Call],
           \A c \in Callers : \/ call'[c] = call[c]
                              \/ /\ RequestOK(call'[c], stored) /\ GroupOK(call'[c], group)
                                 /\ WindowOK(call'[c], Stored', assignment')
                                 /\ BulkOK(call'[c], bulk, Stored', assignment')
                                 /\ call'[c].bulk \in {0, call[c].bulk}
    PROVE  CheckoutInv'
<1>1. /\ TypeOK /\ stored \in Nat /\ i \in Ids /\ assignment \in [Ids -> Assignment \cup {None}]
      /\ \A j \in 1..stored : j \in Ids /\ assignment[j] \in Assignment
  BY Bounds DEF CheckoutInv, ShapeInv, TypeOK
<1>2. \A j \in 1..stored : assignment'[j] = IF j = i THEN b ELSE assignment[j]
  BY <1>1
<1>3. assignment' \in [Ids -> Assignment \cup {None}]
  BY <1>1
<1>4. TypeOK'
  BY <1>1, <1>2, <1>3 DEF TypeOK
<1>5. Advance
  BY <1>1, <1>2 DEF Advance, Keeps, Follows
<1> QED
  BY <1>2, <1>4, <1>5, QuietStep

LEMMA EndAssetAssignmentKeeps ==
    ASSUME CheckoutInv, NEW i \in Ids, NEW t \in Returns, EndAssetAssignment(i, t)
    PROVE  CheckoutInv'
<1>1. /\ i \in 1..stored /\ assignment[i] \in Assignment /\ assignment[i].to = 0
      /\ assignment[i].from \in Nat /\ t \in Nat /\ t > assignment[i].from
      /\ call \in [Callers -> Call] /\ assignment \in [Ids -> Assignment \cup {None}]
  BY CheckoutAssumption DEF EndAssetAssignment, Endable, Active, Stored, CheckoutInv, ShapeInv,
     AssignmentOK, TypeOK, Assignment
<1> DEFINE b == [assignment[i] EXCEPT !.to = t]
<1>2. /\ b \in Assignment /\ Keeps(assignment[i], b)
      /\ b.deleted = assignment[i].deleted /\ b.heirs = assignment[i].heirs
  BY <1>1, Returned
<1>3. /\ assignment' = [assignment EXCEPT ![i] = b] /\ call' = call
      /\ UNCHANGED <<stored, group, bulk, calls, faults>>
  BY <1>1 DEF EndAssetAssignment, counts
<1> HIDE DEF b
<1> QED
  BY <1>1, <1>2, <1>3, ChangedStep

LEMMA OperatorFormsGroupKeeps ==
    ASSUME CheckoutInv, NEW g \in Groups, NEW p \in People, OperatorFormsGroup(g, p)
    PROVE  CheckoutInv'
<1>1. /\ TypeOK /\ stored \in Nat /\ group[g] = {} /\ group' = [group EXCEPT ![g] = {p}]
      /\ UNCHANGED <<assignment, stored, bulk, call, calls, faults>>
  BY Bounds DEF OperatorFormsGroup, CreateCheckoutGroup, NextGroup, counts, CheckoutInv,
     ShapeInv, TypeOK
<1>2. /\ group' \in [Groups -> SUBSET People]
      /\ \A x \in Groups : group[x] \subseteq group'[x]
  BY <1>1 DEF TypeOK
<1>3. TypeOK'
  BY <1>1, <1>2 DEF TypeOK
<1>4. Advance
  BY <1>1, <1>2 DEF Advance, Keeps, Follows
<1> QED
  BY <1>1, <1>3, <1>4, QuietStep

LEMMA EndOverlapKeeps ==
    ASSUME CheckoutInv, NEW c \in Callers, EndOverlap(c)
    PROVE  CheckoutInv'
<1> DEFINE k == call[c]
<1>1. /\ stored \in Nat /\ TypeOK /\ k \in Call /\ RequestOK(k, stored) /\ GroupOK(k, group)
      /\ WindowOK(k, Stored, assignment) /\ BulkOK(k, bulk, Stored, assignment)
      /\ k.step = "end" /\ k.step \in Busy /\ call \in [Callers -> Call]
      /\ k.heirs \in SUBSET People /\ k.endAt \in Nat
      /\ assignment \in [Ids -> Assignment \cup {None}]
      /\ UNCHANGED <<stored, group, bulk, calls, faults>>
  BY CallHas DEF EndOverlap, Busy, Call, TypeOK, counts
<1>2. PICK i \in Latest(k.ends) :
         \/ /\ HasIt(c, i)
            /\ assignment' = [assignment EXCEPT ![i].heirs = @ \cup k.heirs]
            /\ \E s \in Succeeded(k) : call' = [call EXCEPT ![c] = s]
         \/ /\ call' = [call EXCEPT ![c] = Failed(k)]
            /\ UNCHANGED assignment
         \/ /\ Endable(i)
            /\ assignment' = [assignment EXCEPT ![i].to = EndAt(c, i)]
            /\ call' = [call EXCEPT ![c] =
                  Joined([k EXCEPT !.ends = @ \ {i}, !.endAt = EndAt(c, i)])]
  BY DEF EndOverlap
<1>3. /\ i \in 1..stored /\ i \in Ids /\ assignment[i] \in Assignment
      /\ AssignmentOK(assignment[i], stored, group) /\ assignment[i].from \in Nat
      /\ i \in k.ends
  BY <1>1, <1>2, Bounds DEF Latest, RequestOK, CheckoutInv, ShapeInv, TypeOK, Assignment
<1>4. ASSUME NEW s, call' = [call EXCEPT ![c] = s], RequestOK(s, stored)
      PROVE  /\ call' \in [Callers -> Call] /\ call'[c] = s
             /\ \A d \in Callers : d # c => call'[d] = call[d]
  BY <1>1, <1>4 DEF RequestOK
(* The bulk of k, after an assignment that follows the one that was i. *)
<1>5. ASSUME NEW b \in Assignment, assignment' = [assignment EXCEPT ![i] = b],
             Keeps(assignment[i], b), b.deleted = assignment[i].deleted
      PROVE  /\ BulkOK(k, bulk, Stored', assignment')
             /\ WindowOK(k, Stored', assignment')
  <2>1. \A j \in 1..stored : assignment'[j] = IF j = i THEN b ELSE assignment[j]
    BY <1>1, <1>5, Bounds DEF TypeOK
  <2>2. Advance
    BY <1>1, <1>5, <2>1 DEF Advance, Keeps, Follows
  <2>3. \A j \in 1..stored : assignment'[j].deleted = assignment[j].deleted
    BY <1>5, <2>1
  <2>4. BulkOK(k, bulk, Stored', assignment')
    BY <1>1, <2>2, <2>3, BulkOKKept
  <2>5. ASSUME NEW j \in k.known, j \in Stored'
        PROVE  PairOK(Asked(k), assignment'[j])
    <3>1. j \in 1..stored /\ k.as \in Input
      BY <1>1 DEF RequestOK
    <3>2. j \in Stored /\ Keeps(assignment[j], assignment'[j])
      BY <1>1, <2>2, <2>5, <3>1, StillStored
    <3>3. PairOK(Asked(k), assignment[j])
      BY <1>1, <3>2 DEF WindowOK
    <3>4. /\ Follows(assignment[j], assignment'[j]) /\ Follows(Asked(k), Asked(k))
          /\ Asked(k).purpose = "checkout" => Asked(k).due = 0
          /\ assignment[j].purpose = "checkout" => assignment[j].due = 0
      BY <3>1, <3>2, InputTyped DEF Keeps, Follows, Asked, CheckoutInv, ShapeInv, AssignmentOK
    <3> QED
      BY <3>3, <3>4, PairKept
  <2> QED
    BY <2>4, <2>5 DEF WindowOK
<1>6. ASSUME HasIt(c, i), assignment' = [assignment EXCEPT ![i].heirs = @ \cup k.heirs],
             NEW s \in Succeeded(k), call' = [call EXCEPT ![c] = s]
      PROVE  CheckoutInv'
  <2> DEFINE b == [assignment[i] EXCEPT !.heirs = assignment[i].heirs \cup k.heirs]
  <2>1. assignment' = [assignment EXCEPT ![i] = b]
    BY <1>1, <1>3, <1>6
  <2>2. assignment[i].heirs \cup k.heirs \in SUBSET People
    BY <1>1, <1>3 DEF Assignment
  <2>3. /\ b \in Assignment /\ Keeps(assignment[i], b) /\ b.deleted = assignment[i].deleted
        /\ b.heirs = assignment[i].heirs \cup k.heirs
    BY <1>3, <2>2, Inherited
  <2> HIDE DEF b
  <2>4. k.group # 0 /\ assignment[i].kind = "group" /\ assignment[i].who = k.group
    BY <1>6 DEF HasIt
  <2>5. k.as.policy = "group" /\ k.heirs \subseteq group[k.group]
    BY <1>1, <2>4 DEF GroupOK
  <2>6. b.heirs \subseteq group[b.who]
    BY <1>3, <2>3, <2>4, <2>5 DEF AssignmentOK, Keeps
  <2>7. BulkOK(k, bulk, Stored', assignment')
    BY <1>5, <2>1, <2>3
  <2>8. /\ RequestOK(s, stored) /\ GroupOK(s, group) /\ WindowOK(s, Stored', assignment')
        /\ s.bulk = k.bulk /\ BulkOK(s, bulk, Stored', assignment')
    BY <1>1, <1>6, <2>5, <2>7, SucceededCall
  <2> QED
    BY <1>1, <1>3, <1>4, <1>6, <2>1, <2>3, <2>6, <2>8, ChangedStep
<1>7. CASE call' = [call EXCEPT ![c] = Failed(k)] /\ UNCHANGED assignment
  <2>1. /\ RequestOK(Failed(k), stored) /\ GroupOK(Failed(k), group')
        /\ WindowOK(Failed(k), Stored, assignment)
        /\ BulkOK(Failed(k), bulk, Stored, assignment) /\ Failed(k).bulk = k.bulk
    BY <1>1, FailedCall
  <2> QED
    BY <1>1, <1>7, <2>1, CallStep DEF TypeOK
<1>8. CASE /\ Endable(i)
           /\ assignment' = [assignment EXCEPT ![i].to = EndAt(c, i)]
           /\ call' = [call EXCEPT ![c] =
                 Joined([k EXCEPT !.ends = @ \ {i}, !.endAt = EndAt(c, i)])]
  <2> DEFINE t == EndAt(c, i)
             b == [assignment[i] EXCEPT !.to = t]
             m == [k EXCEPT !.ends = k.ends \ {i}, !.endAt = t]
             s == Joined(m)
  <2>1. t \in Nat /\ t # 0 /\ assignment[i].to = 0
    BY <1>1, <1>3, <1>8 DEF EndAt, Endable, Active
  <2> HIDE DEF t
  <2>2. assignment' = [assignment EXCEPT ![i] = b] /\ call' = [call EXCEPT ![c] = s]
    BY <1>1, <1>3, <1>8 DEF t
  <2>3. /\ b \in Assignment /\ Keeps(assignment[i], b) /\ b.deleted = assignment[i].deleted
        /\ b.heirs = assignment[i].heirs
    BY <1>3, <2>1, Returned
  <2>4. /\ m \in Call /\ m.step = k.step /\ m.as = k.as /\ m.asset = k.asset /\ m.todo = k.todo
        /\ m.bulk = k.bulk /\ m.known = k.known /\ m.heirs = k.heirs /\ m.group = k.group
        /\ m.ends = k.ends \ {i}
    BY <1>1, <2>1 DEF Call
  <2> HIDE DEF b, m
  <2>5. RequestOK(m, stored) /\ m.step \in Busy
    BY <1>1, <2>4 DEF RequestOK, Busy
  <2>6. /\ RequestOK(s, stored) /\ s.step \in {"end", "store"} /\ s.as = k.as
        /\ s.asset = k.asset /\ s.todo = k.todo /\ s.bulk = k.bulk /\ s.group = k.group
        /\ s.heirs = k.heirs /\ s.known = k.known
    BY <2>4, <2>5, JoinedCall
  <2> HIDE DEF s
  <2>7. GroupOK(s, group)
    BY <1>1, <2>6 DEF GroupOK, Busy
  <2>8. s.step \in Busy
    BY <2>6 DEF Busy
  <2>9. WindowOK(s, Stored', assignment') /\ BulkOK(s, bulk, Stored', assignment')
    BY <1>1, <1>5, <2>2, <2>3, <2>6, <2>8, BusyCall
  <2> QED
    BY <1>1, <1>3, <1>4, <2>2, <2>3, <2>6, <2>7, <2>9, ChangedStep
<1> QED
  BY <1>2, <1>6, <1>7, <1>8

(* What a call stores. *)
LEMMA ToStoreOK ==
    ASSUME CheckoutInv, NEW c \in Callers, call[c].step = "store"
    PROVE  LET q == ToStore(c)
               k == call[c]
           IN  /\ q.kind \in Kinds /\ q.who \in People \cup Departments \cup Groups
               /\ q.role \in Roles /\ q.purpose \in {"checkout", "reservation"}
               /\ q.from \in Nat /\ q.from # 0 /\ q.due \in Nat /\ q.policy \in Policies
               /\ q.purpose = "checkout" => q.due = 0
               /\ q.kind = "group" => q.who \in Groups /\ k.heirs \subseteq group[q.who]
               /\ k.group = 0 => q = k.as
               /\ k.group # 0 => q.policy = "proceed"
<1> DEFINE k == call[c]
<1>1. /\ k \in Call /\ RequestOK(k, stored) /\ GroupOK(k, group) /\ k.step \in Busy
      /\ k.as \in Input /\ k.group \in Groups \cup {0}
  BY CallHas DEF RequestOK, Busy, Call
<1>2. /\ k.as \in [kind: Kinds, who: People \cup Departments \cup Groups, role: Roles,
                   purpose: {"checkout", "reservation"}, from: 1..MaxTime,
                   due: 0..MaxTime, policy: Policies]
      /\ k.as.from \in Nat /\ k.as.from # 0 /\ k.as.due \in Nat
      /\ k.as.purpose = "checkout" => k.as.due = 0
      /\ k.as.kind = "group" => k.as.who \in Groups
  BY <1>1, InputTyped
<1>3. CASE k.group = 0
  <2>1. ToStore(c) = k.as /\ k.heirs = {}
    BY <1>1, <1>3 DEF ToStore, GroupOK
  <2> QED
    BY <1>2, <1>3, <2>1
<1>4. CASE k.group # 0
  <2> DEFINE q == ToStore(c)
  <2>1. /\ q = [k.as EXCEPT !.kind = "group", !.who = k.group, !.role = "primary",
                            !.policy = "proceed"]
    BY <1>4 DEF ToStore
  <2>2. /\ q.kind = "group" /\ q.who = k.group /\ q.role = "primary" /\ q.policy = "proceed"
        /\ q.from = k.as.from /\ q.due = k.as.due /\ q.purpose = k.as.purpose
    BY <1>2, <2>1
  <2>3. k.heirs \subseteq group[k.group]
    BY <1>1, <1>4 DEF GroupOK
  <2> HIDE DEF q
  <2>4. q.purpose \in {"checkout", "reservation"} /\ q.kind \in Kinds /\ q.role \in Roles
        /\ q.policy \in Policies
    BY <1>2, <2>2 DEF Kinds, Roles, Policies
  <2> QED
    BY <1>1, <1>2, <1>4, <2>2, <2>3, <2>4 DEF q
<1> QED
  BY <1>3, <1>4

LEMMA StoreAssignmentKeeps ==
    ASSUME CheckoutInv, NEW c \in Callers, StoreAssignment(c)
    PROVE  CheckoutInv'
<1> DEFINE k == call[c]
           q == ToStore(c)
           n == stored + 1
           closed == IF q.purpose = "checkout" THEN Replaced(c) ELSE {}
           new == [asset |-> k.asset, kind |-> q.kind, who |-> q.who, role |-> q.role,
                   purpose |-> q.purpose, from |-> q.from, due |-> q.due, to |-> 0,
                   policy |-> q.policy, bulk |-> k.bulk, deleted |-> FALSE,
                   known |-> k.known, heirs |-> k.heirs]
<1>1. /\ stored \in Nat /\ TypeOK /\ ShapeInv /\ k \in Call /\ RequestOK(k, stored)
      /\ GroupOK(k, group) /\ WindowOK(k, Stored, assignment)
      /\ BulkOK(k, bulk, Stored, assignment) /\ OneActiveRole /\ WindowInv /\ BulkInv
      /\ k.step = "store" /\ k.step \in Busy /\ call \in [Callers -> Call]
      /\ assignment \in [Ids -> Assignment \cup {None}]
      /\ UNCHANGED <<group, bulk, calls, faults>>
  BY CallHas DEF StoreAssignment, Busy, TypeOK, counts, CheckoutInv
<1>2. CASE call' = [call EXCEPT ![c] = Failed(k)] /\ UNCHANGED <<assignment, stored>>
  <2>1. /\ RequestOK(Failed(k), stored) /\ GroupOK(Failed(k), group')
        /\ WindowOK(Failed(k), Stored, assignment)
        /\ BulkOK(Failed(k), bulk, Stored, assignment) /\ Failed(k).bulk = k.bulk
    BY <1>1, FailedCall
  <2> QED
    BY <1>1, <1>2, <2>1, CallStep DEF TypeOK
<1>3. ASSUME ~Conflict(c), stored < MaxAssignments, stored' = n,
             assignment' = [i \in Ids |->
                IF i = n THEN new
                ELSE IF i \in closed THEN [assignment[i] EXCEPT !.to = q.from]
                ELSE assignment[i]],
             NEW s \in Succeeded(k), call' = [call EXCEPT ![c] = s]
      PROVE  CheckoutInv'
  <2>1. /\ q.kind \in Kinds /\ q.who \in People \cup Departments \cup Groups
        /\ q.role \in Roles /\ q.purpose \in {"checkout", "reservation"}
        /\ q.from \in Nat /\ q.from # 0 /\ q.due \in Nat /\ q.policy \in Policies
        /\ q.purpose = "checkout" => q.due = 0
        /\ q.kind = "group" => q.who \in Groups /\ k.heirs \subseteq group[q.who]
        /\ k.group = 0 => q = k.as
        /\ k.group # 0 => q.policy = "proceed"
    BY <1>1, ToStoreOK
  <2>2. /\ closed \subseteq Checkouts(Active(Stored))
        /\ \A i \in closed : i \in 1..stored /\ assignment[i].to = 0
    BY DEF Replaced, SameRole, Checkouts, Active, Stored
  <2>3. /\ k.asset \in Assets /\ k.known \subseteq 1..stored /\ k.as \in Input
        /\ k.bulk \in Bulks \cup {0} /\ k.heirs \in SUBSET People /\ k.known \in SUBSET Ids
        /\ s.bulk = k.bulk /\ RequestOK(s, n)
        /\ GroupOK(s, group) /\ WindowOK(s, Stored', assignment')
    <3>1. n \in Nat /\ stored <= n
      BY <1>1
    <3>2. RequestOK(s, stored) /\ GroupOK(s, group) /\ WindowOK(s, Stored', assignment')
          /\ s.bulk = k.bulk
      BY <1>1, SucceededCall
    <3>3. RequestOK(s, n)
      BY <1>1, <3>1, <3>2, RequestKept
    <3> QED
      BY <1>1, <3>2, <3>3 DEF RequestOK, Busy, Call
  <2>4. /\ n \in Ids /\ n \in Nat /\ n <= MaxAssignments /\ stored \in Nat
        /\ n \notin 1..stored /\ 1..n = 1..stored \cup {n}
        /\ \A i \in 1..stored : i \in Ids /\ i # n
    BY <1>1, <1>3, Bounds DEF Ids
  <2>5. /\ assignment'[n] = new
        /\ \A i \in 1..stored : assignment'[i] =
              IF i \in closed THEN [assignment[i] EXCEPT !.to = q.from] ELSE assignment[i]
    BY <1>3, <2>4
  <2>6. /\ new \in Assignment /\ new.asset = k.asset /\ new.kind = q.kind /\ new.who = q.who
        /\ new.role = q.role /\ new.purpose = q.purpose /\ new.from = q.from /\ new.due = q.due
        /\ new.to = 0 /\ new.policy = q.policy /\ new.bulk = k.bulk /\ ~new.deleted
        /\ new.known = k.known /\ new.heirs = k.heirs
    <3> HIDE DEF q, k
    <3> QED
      BY <2>1, <2>3 DEF Assignment
  <2> HIDE DEF new, closed, q
  <2>7. ASSUME NEW i \in 1..stored
        PROVE  /\ assignment'[i] \in Assignment /\ Keeps(assignment[i], assignment'[i])
               /\ assignment'[i].deleted = assignment[i].deleted
               /\ assignment'[i].heirs = assignment[i].heirs
               /\ i \in closed => assignment'[i].to # 0
    <3>1. assignment[i] \in Assignment
      BY <1>1 DEF TypeOK
    <3>2. CASE i \in closed
      <4>1. assignment[i].to = 0 /\ assignment'[i] = [assignment[i] EXCEPT !.to = q.from]
        BY <2>2, <2>5, <3>2
      <4> QED
        BY <2>1, <3>1, <4>1, Returned
    <3>3. CASE i \notin closed
      BY <2>5, <3>1, <3>3 DEF Keeps, Follows
    <3> QED
      BY <3>2, <3>3
  <2>8. Advance
    <3>1. stored' \in Nat /\ stored <= stored'
      BY <1>3, <2>4
    <3>2. \A g \in Groups : group[g] \subseteq group'[g]
      BY <1>1
    <3> QED
      BY <2>7, <3>1, <3>2 DEF Advance
  <2>9. TypeOK'
    <3>1. assignment' \in [Ids -> Assignment \cup {None}]
      <4>1. \A i \in closed : i \in 1..stored
        BY <2>2
      <4>2. ASSUME NEW i \in Ids
            PROVE  assignment'[i] \in Assignment \cup {None}
        <5>1. CASE i = n
          BY <2>5, <2>6, <5>1
        <5>2. CASE i \in 1..stored
          BY <2>7, <5>2
        <5>3. CASE i # n /\ i \notin 1..stored
          BY <1>1, <1>3, <4>1, <5>3
        <5> QED
          BY <5>1, <5>2, <5>3
      <4>3. assignment' = [i \in Ids |-> assignment'[i]]
        BY <1>3
      <4> QED
        BY <4>2, <4>3
    <3>2. \A i \in 1..stored' : assignment'[i] \in Assignment
      BY <1>3, <2>4, <2>5, <2>6, <2>7
    <3>3. call' \in [Callers -> Call]
      BY <1>1, <1>3, <2>3 DEF RequestOK
    <3>4. stored' \in 0..MaxAssignments
      BY <1>3, <2>4, Bounds
    <3> QED
      BY <1>1, <3>1, <3>2, <3>3, <3>4 DEF TypeOK
  <2>10. call'[c] = s /\ \A d \in Callers : d # c => call'[d] = call[d]
    BY <1>1, <1>3
  <2>11. \A i \in 1..stored' : i > stored => i = n
    BY <1>1, <1>3
  <2>12. ShapeInv'
    <3>1. AssignmentOK(assignment'[n], stored', group')
      BY <1>1, <1>3, <2>1, <2>3, <2>4, <2>5, <2>6 DEF AssignmentOK
    <3> QED
      BY <1>1, <1>3, <2>3, <2>7, <2>8, <2>9, <2>10, <2>11, <3>1, ShapeKept
  <2>13. WindowInv'
    <3>1. ASSUME NEW j \in assignment'[n].known, j \in Stored'
          PROVE  PairOK(assignment'[n], assignment'[j])
      <4>1. j \in k.known /\ j \in 1..stored
        BY <2>3, <2>5, <2>6
      <4>2. j \in Stored /\ Keeps(assignment[j], assignment'[j])
        BY <1>1, <2>8, <3>1, <4>1, StillStored
      <4>3. CASE k.group = 0
        <5>1. PairOK(Asked(k), assignment[j])
          BY <1>1, <4>1, <4>2 DEF WindowOK
        <5>2. /\ Follows(Asked(k), new) /\ Follows(assignment[j], assignment'[j])
              /\ Asked(k).purpose = "checkout" => Asked(k).due = 0
              /\ assignment[j].purpose = "checkout" => assignment[j].due = 0
          BY <1>1, <2>1, <2>6, <4>1, <4>2, <4>3 DEF Keeps, Follows, Asked, ShapeInv, AssignmentOK
        <5> QED
          BY <2>5, <5>1, <5>2, PairKept
      <4>4. CASE k.group # 0
        BY <2>1, <2>5, <2>6, <4>4 DEF PairOK
      <4> QED
        BY <4>3, <4>4
    <3> QED
      BY <1>1, <2>3, <2>8, <2>10, <2>11, <3>1, WindowKept
  <2>14. BulkInv'
    <3>1. BulkOK(k, bulk, Stored', assignment')
      BY <1>1, <2>7, <2>8, BulkOKKept
    <3>2. Covered(k.asset, k.bulk, Stored', assignment')
      <4>1. n \in Stored'
        BY <1>3, <2>4, <2>5, <2>6 DEF Stored
      <4> QED
        BY <2>5, <2>6, <4>1 DEF Covered
    <3>3. BulkOK(s, bulk, Stored', assignment')
      BY <1>1, <3>1, <3>2, SucceededCall
    <3>4. assignment'[n].bulk # 0 => bulk[assignment'[n].bulk].status = "open"
      BY <1>1, <2>5, <2>6 DEF BulkOK
    <3> QED
      BY <1>1, <2>3, <2>7, <2>8, <2>10, <2>11, <3>3, <3>4, BulkKept
  <2>15. OneActiveRole'
    <3>1. ASSUME NEW j \in 1..stored, j \in Checkouts(Active(Stored))',
                 n \in Checkouts(Active(Stored))',
                 assignment'[n].asset = assignment'[j].asset,
                 assignment'[n].role = assignment'[j].role,
                 assignment'[n].role = "user" => /\ assignment'[n].kind = assignment'[j].kind
                                                 /\ assignment'[n].who = assignment'[j].who
          PROVE  FALSE
      <4>1. j \in Checkouts(Active(Stored)) /\ Keeps(assignment[j], assignment'[j])
        BY <1>1, <2>8, <3>1, StillActive
      <4>2. q.purpose = "checkout" /\ assignment'[j].to = 0
        BY <2>5, <2>6, <3>1 DEF Checkouts, Active
      <4>3. j \in SameRole(c)
        BY <2>5, <2>6, <3>1, <4>1 DEF SameRole, Keeps, Follows, q
      <4>4. CASE AutoReplace(q)
        <5>1. j \in closed
          BY <4>2, <4>3, <4>4 DEF closed, Replaced, q
        <5> QED
          BY <2>7, <4>2, <5>1
      <4>5. CASE ~AutoReplace(q)
        <5>1. q.role = "user"
          BY <2>1, <4>5 DEF AutoReplace, Roles
        <5>2. SameAssignee(j, q)
          BY <2>5, <2>6, <3>1, <4>1, <5>1 DEF SameAssignee, Keeps
        <5> QED
          BY <1>3, <4>2, <4>3, <4>5, <5>2 DEF Conflict, q
      <4> QED
        BY <4>4, <4>5
    <3>2. ASSUME NEW i \in Checkouts(Active(Stored))', NEW j \in Checkouts(Active(Stored))',
                 assignment'[i].asset = assignment'[j].asset,
                 assignment'[i].role = assignment'[j].role,
                 assignment'[i].role = "user" => /\ assignment'[i].kind = assignment'[j].kind
                                                 /\ assignment'[i].who = assignment'[j].who
          PROVE  i = j
      <4>1. i \in 1..stored' /\ j \in 1..stored'
        BY DEF Checkouts, Active, Stored
      <4>2. CASE i \in 1..stored /\ j \in 1..stored
        <5>1. /\ i \in Checkouts(Active(Stored)) /\ Keeps(assignment[i], assignment'[i])
              /\ j \in Checkouts(Active(Stored)) /\ Keeps(assignment[j], assignment'[j])
          BY <1>1, <2>8, <3>2, <4>2, StillActive
        <5>2. /\ assignment[i].asset = assignment[j].asset
              /\ assignment[i].role = assignment[j].role
              /\ assignment[i].role = "user" => SameAssignee(i, assignment[j])
          BY <3>2, <5>1 DEF SameAssignee, Keeps, Follows
        <5> QED
          BY <1>1, <5>1, <5>2 DEF OneActiveRole
      <4>3. CASE i = n /\ j \in 1..stored
        BY <3>1, <3>2, <4>3
      <4>4. CASE j = n /\ i \in 1..stored
        BY <3>1, <3>2, <4>4
      <4> QED
        BY <1>3, <2>4, <4>1, <4>2, <4>3, <4>4
    <3> QED
      BY <3>2 DEF OneActiveRole, SameAssignee
  <2> QED
    BY <2>12, <2>13, <2>14, <2>15 DEF CheckoutInv
<1> QED
  BY <1>2, <1>3 DEF StoreAssignment

(* The record of a new bulk: nothing names it yet. *)
LEMMA CreateBulkCheckoutKeeps ==
    ASSUME CheckoutInv, NEW c \in Callers, NEW q \in Inputs, NEW b \in Bulks,
           NEW as \in BulkAssets, CreateBulkCheckout(c, q, b, as)
    PROVE  CheckoutInv'
<1> DEFINE k == [IdleCall EXCEPT !.as = q, !.todo = as, !.bulk = b]
           new == [status |-> "open", assets |-> as, policy |-> q.policy]
<1>1. /\ ShapeInv /\ OneActiveRole /\ WindowInv /\ BulkInv /\ TypeOK
      /\ q \in Input /\ q.policy \in Policies /\ as \in SUBSET Assets /\ as # {}
      /\ stored \in Nat /\ b # 0 /\ calls \in Nat /\ MaxCalls \in Nat
      /\ bulk \in [Bulks -> Bulk] /\ call \in [Callers -> Call]
  <2>1. /\ ShapeInv /\ OneActiveRole /\ WindowInv /\ BulkInv /\ TypeOK
        /\ stored \in Nat /\ calls \in Nat /\ MaxCalls \in Nat
        /\ bulk \in [Bulks -> Bulk] /\ call \in [Callers -> Call]
    BY Bounds DEF CheckoutInv, ShapeInv, TypeOK
  <2>2. q \in Input /\ b # 0
    BY Bounds
  <2>3. q.policy \in Policies
    BY <2>2, InputTyped
  <2>4. as \in SUBSET Assets /\ as # {}
    BY CheckoutAssumption
  <2> QED
    BY <2>1, <2>2, <2>3, <2>4
<1>2. PICK s \in Succeeded(k) : call' = [call EXCEPT ![c] = s]
  BY DEF CreateBulkCheckout
<1>3. /\ bulk[b].status = "absent" /\ bulk' = [bulk EXCEPT ![b] = new] /\ calls' = calls + 1
      /\ calls < MaxCalls /\ UNCHANGED <<assignment, stored, group, faults>>
  BY DEF CreateBulkCheckout, NextBulk
<1>4. /\ k.bulk = b /\ k.todo = as /\ k.as = q
  BY DEF IdleCall
<1>5. PICK a \in as : s = [IdleCall EXCEPT !.step = "lookup", !.as = q, !.asset = a,
                                           !.todo = as \ {a}, !.bulk = b]
  <2> HIDE DEF k
  <2> QED
    BY <1>1, <1>2, <1>4 DEF Succeeded
<1>6. /\ s \in Call /\ s.step = "lookup" /\ s.as = q /\ s.asset = a /\ s.todo = as \ {a}
      /\ s.bulk = b /\ s.ends = {} /\ s.known = {} /\ s.group = 0 /\ s.heirs = {}
  BY <1>1, <1>5 DEF IdleCall, Call, Steps
<1>7. RequestOK(s, stored) /\ GroupOK(s, group) /\ WindowOK(s, Stored, assignment)
  BY <1>1, <1>6 DEF RequestOK, GroupOK, WindowOK, Busy
<1>8. new \in Bulk /\ new.status = "open" /\ new.assets = as /\ new.policy = q.policy
  BY <1>1 DEF Bulk
<1> HIDE DEF new, k
<1>9. bulk'[b] = new /\ \A d \in Bulks : d # b => bulk'[d] = bulk[d]
  BY <1>1, <1>3
<1>10. BulkOK(s, bulk', Stored, assignment)
  BY <1>6, <1>8, <1>9 DEF BulkOK
<1>11. call'[c] = s /\ \A d \in Callers : d # c => call'[d] = call[d]
  BY <1>1, <1>2
<1>12. Stored' = Stored
  BY <1>3 DEF Stored
<1>13. TypeOK'
  BY <1>1, <1>2, <1>3, <1>6, <1>8 DEF TypeOK
<1>14. Advance
  BY <1>1, <1>3 DEF Advance, Keeps, Follows
<1>15. \A i \in 1..stored' : ~(i > stored)
  BY <1>1, <1>3
<1>16. ShapeInv'
  BY <1>1, <1>3, <1>7, <1>11, <1>13, <1>14, <1>15, ShapeKept
<1>17. WindowInv'
  BY <1>1, <1>3, <1>7, <1>11, <1>12, <1>14, <1>15, WindowKept
<1>18. OneActiveRole'
  BY <1>1, <1>3, <1>14, RoleKept
<1>19. ASSUME NEW d \in Callers
       PROVE  call[d].bulk # b /\ BulkOK(call'[d], bulk', Stored', assignment')
  <2>1. BulkOK(call[d], bulk, Stored, assignment) /\ call[d].bulk \in Bulks \cup {0}
    BY <1>1 DEF BulkInv, Call
  <2>2. call[d].bulk # b
    BY <1>1, <1>3, <2>1 DEF BulkOK
  <2>3. BulkOK(call[d], bulk', Stored, assignment)
    BY <1>9, <2>1, <2>2 DEF BulkOK
  <2> QED
    BY <1>3, <1>10, <1>11, <1>12, <2>2, <2>3
<1>20. Apart'
  BY <1>1, <1>6, <1>11, <1>19 DEF Apart, BulkInv
<1>21. BulkIsWhole'
  <2>1. ASSUME NEW i \in Stored', assignment'[i].bulk # 0
        PROVE  bulk'[assignment'[i].bulk].status \in {"open", "done"}
    <3>1. i \in Stored /\ assignment[i] \in Assignment /\ assignment[i].bulk \in Bulks
      BY <1>1, <1>3, <1>12, <2>1 DEF TypeOK, Stored, Assignment
    <3>2. bulk[assignment[i].bulk].status \in {"open", "done"}
      BY <1>1, <1>3, <2>1, <3>1 DEF BulkInv, BulkIsWhole
    <3> QED
      BY <1>3, <1>9, <3>1, <3>2
  <2>2. ASSUME NEW d \in Bulks, bulk'[d].status = "done", bulk'[d].policy # "group",
               NEW x \in bulk'[d].assets
        PROVE  \E i \in Stored' : assignment'[i].asset = x /\ assignment'[i].bulk = d
    <3>1. d # b /\ bulk'[d] = bulk[d]
      BY <1>8, <1>9, <2>2
    <3> QED
      BY <1>1, <1>3, <1>12, <2>2, <3>1 DEF BulkInv, BulkIsWhole
  <2> QED
    BY <2>1, <2>2 DEF BulkIsWhole
<1> QED
  BY <1>16, <1>17, <1>18, <1>19, <1>20, <1>21 DEF CheckoutInv, BulkInv

(* A call ends with its bulk, which no other call works on. *)
LEMMA BulkEnds ==
    ASSUME CheckoutInv, NEW c \in Callers, call[c].step \in {"finish", "rollback"},
           call' = [call EXCEPT ![c] = IdleCall], NEW status \in {"done", "deleted"},
           bulk' = [bulk EXCEPT ![call[c].bulk].status = status],
           UNCHANGED <<stored, group, calls, faults>>,
           assignment' \in [Ids -> Assignment \cup {None}],
           \A i \in 1..stored :
               /\ assignment'[i] \in Assignment /\ Keeps(assignment[i], assignment'[i])
               /\ assignment'[i].heirs = assignment[i].heirs
               /\ assignment[i].bulk # call[c].bulk =>
                      assignment'[i].deleted = assignment[i].deleted
    PROVE  /\ ShapeInv' /\ OneActiveRole' /\ WindowInv' /\ Advance
           /\ \A d \in Callers : BulkOK(call'[d], bulk', Stored', assignment')
           /\ Apart'
           /\ call[c].bulk \in Bulks /\ bulk[call[c].bulk].status = "open"
           /\ bulk'[call[c].bulk].status = status
           /\ bulk'[call[c].bulk].policy = bulk[call[c].bulk].policy
           /\ bulk'[call[c].bulk].assets = bulk[call[c].bulk].assets
           /\ \A d \in Bulks : d # call[c].bulk => bulk'[d] = bulk[d]
<1> DEFINE k == call[c]
           b == call[c].bulk
<1>1. /\ ShapeInv /\ OneActiveRole /\ WindowInv /\ BulkInv /\ TypeOK /\ stored \in Nat
      /\ bulk \in [Bulks -> Bulk] /\ call \in [Callers -> Call]
      /\ RequestOK(k, stored) /\ BulkOK(k, bulk, Stored, assignment)
  BY CallHas DEF CheckoutInv, TypeOK
<1>2. b \in Bulks /\ b # 0 /\ bulk[b].status = "open" /\ bulk[b] \in Bulk
  BY <1>1 DEF RequestOK, BulkOK, Call
<1>3. /\ bulk' \in [Bulks -> Bulk] /\ bulk'[b].status = status
      /\ bulk'[b].policy = bulk[b].policy /\ bulk'[b].assets = bulk[b].assets
      /\ \A d \in Bulks : d # b => bulk'[d] = bulk[d]
  BY <1>1, <1>2 DEF Bulk
<1>4. call'[c] = IdleCall /\ \A d \in Callers : d # c => call'[d] = call[d]
  BY <1>1
<1>5. TypeOK'
  BY <1>1, <1>3, IdleTyped DEF TypeOK
<1>6. Advance
  BY <1>1 DEF Advance
<1>7. \A i \in 1..stored' : ~(i > stored)
  BY <1>1
<1>8. ShapeInv'
  BY <1>1, <1>4, <1>5, <1>6, <1>7, IdleTyped, ShapeKept
<1>9. WindowInv'
  BY <1>1, <1>4, <1>6, <1>7, IdleTyped, WindowKept
<1>10. OneActiveRole'
  BY <1>1, <1>6, RoleKept
<1>11. ASSUME NEW d \in Callers
       PROVE  BulkOK(call'[d], bulk', Stored', assignment')
  <2>1. CASE d = c
    BY <1>4, <2>1, IdleTyped
  <2>2. CASE d # c
    <3>1. BulkOK(call[d], bulk, Stored, assignment) /\ call[d].bulk # b
          /\ call[d].bulk \in Bulks \cup {0}
      BY <1>1, <1>2, <2>2 DEF BulkInv, Apart, Call
    <3>2. call[d].bulk # 0 => bulk'[call[d].bulk] = bulk[call[d].bulk]
      BY <1>3, <3>1
    <3>3. \A i \in 1..stored : assignment[i].bulk = call[d].bulk
               => assignment'[i].deleted = assignment[i].deleted
      BY <3>1
    <3> QED
      BY <1>1, <1>4, <1>6, <2>2, <3>1, <3>2, <3>3, BulkOKKept
  <2> QED
    BY <2>1, <2>2
<1>12. Apart'
  BY <1>1, <1>4, IdleTyped DEF Apart, BulkInv
<1> QED
  BY <1>2, <1>3, <1>6, <1>8, <1>9, <1>10, <1>11, <1>12

LEMMA FinishBulkKeeps ==
    ASSUME CheckoutInv, NEW c \in Callers, FinishBulk(c)
    PROVE  CheckoutInv'
<1> DEFINE b == call[c].bulk
<1>1. /\ BulkInv /\ TypeOK /\ stored \in Nat /\ call[c].step = "finish"
      /\ RequestOK(call[c], stored) /\ BulkOK(call[c], bulk, Stored, assignment)
      /\ bulk' = [bulk EXCEPT ![b].status = "done"] /\ call' = [call EXCEPT ![c] = IdleCall]
      /\ UNCHANGED <<assignment, stored, group, calls, faults>>
  BY CallHas DEF FinishBulk, counts, CheckoutInv
<1>2. \A i \in 1..stored :
         /\ assignment'[i] \in Assignment /\ Keeps(assignment[i], assignment'[i])
         /\ assignment'[i].heirs = assignment[i].heirs
         /\ assignment'[i].deleted = assignment[i].deleted
  BY <1>1 DEF TypeOK, Keeps, Follows
<1>3. assignment' \in [Ids -> Assignment \cup {None}]
  BY <1>1 DEF TypeOK
<1>4. /\ ShapeInv' /\ OneActiveRole' /\ WindowInv'
      /\ \A d \in Callers : BulkOK(call'[d], bulk', Stored', assignment')
      /\ Apart'
      /\ b \in Bulks /\ bulk[b].status = "open" /\ bulk'[b].status = "done"
      /\ bulk'[b].policy = bulk[b].policy /\ bulk'[b].assets = bulk[b].assets
      /\ \A d \in Bulks : d # b => bulk'[d] = bulk[d]
  BY <1>1, <1>2, <1>3, BulkEnds
<1>5. Stored' = Stored
  BY <1>1 DEF Stored
<1>6. ASSUME NEW i \in Stored', assignment'[i].bulk # 0
      PROVE  bulk'[assignment'[i].bulk].status \in {"open", "done"}
  <2>1. i \in Stored /\ assignment[i] \in Assignment /\ assignment[i].bulk \in Bulks
    BY <1>1, <1>5, <1>6 DEF TypeOK, Stored, Assignment
  <2>2. bulk[assignment[i].bulk].status \in {"open", "done"}
    BY <1>1, <1>6, <2>1 DEF BulkInv, BulkIsWhole
  <2> QED
    BY <1>1, <1>4, <2>1, <2>2
<1>7. ASSUME NEW d \in Bulks, bulk'[d].status = "done", bulk'[d].policy # "group",
             NEW x \in bulk'[d].assets
      PROVE  \E i \in Stored' : assignment'[i].asset = x /\ assignment'[i].bulk = d
  <2>1. CASE d = b
    <3>1. b # 0 /\ call[c].todo = {}
      BY <1>1 DEF RequestOK
    <3>2. Covered(x, b, Stored, assignment)
      BY <1>1, <1>4, <1>7, <2>1, <3>1 DEF BulkOK
    <3> QED
      BY <1>1, <1>5, <2>1, <3>2 DEF Covered
  <2>2. CASE d # b
    BY <1>1, <1>4, <1>5, <1>7, <2>2 DEF BulkInv, BulkIsWhole
  <2> QED
    BY <2>1, <2>2
<1>8. BulkIsWhole'
  BY <1>6, <1>7 DEF BulkIsWhole
<1> QED
  BY <1>4, <1>8 DEF CheckoutInv, BulkInv

LEMMA DeleteBulkCheckoutKeeps ==
    ASSUME CheckoutInv, NEW c \in Callers, DeleteBulkCheckout(c)
    PROVE  CheckoutInv'
<1> DEFINE b == call[c].bulk
<1>1. /\ BulkInv /\ TypeOK /\ stored \in Nat /\ call[c].step = "rollback"
      /\ bulk' = [bulk EXCEPT ![b].status = "deleted"] /\ call' = [call EXCEPT ![c] = IdleCall]
      /\ assignment' = [i \in Ids |->
           IF i \in Stored /\ assignment[i].bulk = b
           THEN [assignment[i] EXCEPT !.deleted = TRUE] ELSE assignment[i]]
      /\ UNCHANGED <<stored, group, calls, faults>>
  BY CallHas DEF DeleteBulkCheckout, counts, CheckoutInv
<1>2. ASSUME NEW i \in 1..stored
      PROVE  /\ assignment'[i] \in Assignment /\ Keeps(assignment[i], assignment'[i])
             /\ assignment'[i].heirs = assignment[i].heirs
             /\ assignment[i].bulk # b => assignment'[i].deleted = assignment[i].deleted
             /\ assignment[i].bulk = b => assignment'[i].deleted
  <2>1. i \in Ids /\ assignment[i] \in Assignment
    BY <1>1, Bounds DEF TypeOK
  <2>2. CASE i \in Stored /\ assignment[i].bulk = b
    <3>1. assignment'[i] = [assignment[i] EXCEPT !.deleted = TRUE]
      BY <1>1, <2>1, <2>2
    <3> QED
      BY <2>1, <2>2, <3>1, Deleted
  <2>3. CASE ~(i \in Stored /\ assignment[i].bulk = b)
    <3>1. assignment'[i] = assignment[i]
      BY <1>1, <2>1, <2>3
    <3> QED
      BY <2>1, <2>3, <3>1 DEF Keeps, Follows, Stored
  <2> QED
    BY <2>2, <2>3
<1>3. assignment' \in [Ids -> Assignment \cup {None}]
  <2>1. ASSUME NEW i \in Ids
        PROVE  assignment'[i] \in Assignment \cup {None}
    <3>1. CASE i \in 1..stored
      BY <1>2, <3>1
    <3>2. CASE i \notin 1..stored
      BY <1>1, <3>2 DEF TypeOK, Stored
    <3> QED
      BY <3>1, <3>2
  <2>2. assignment' = [i \in Ids |-> assignment'[i]]
    BY <1>1
  <2> QED
    BY <2>1, <2>2
<1>4. /\ ShapeInv' /\ OneActiveRole' /\ WindowInv' /\ Advance
      /\ \A d \in Callers : BulkOK(call'[d], bulk', Stored', assignment')
      /\ Apart'
      /\ b \in Bulks /\ bulk[b].status = "open" /\ bulk'[b].status = "deleted"
      /\ \A d \in Bulks : d # b => bulk'[d] = bulk[d]
  BY <1>1, <1>2, <1>3, BulkEnds, ZenonT(60)
<1>5. ASSUME NEW i \in Stored', assignment'[i].bulk # 0
      PROVE  bulk'[assignment'[i].bulk].status \in {"open", "done"}
  <2>1. i \in 1..stored /\ ~assignment'[i].deleted
    BY <1>1 DEF Stored
  <2>2. /\ i \in Stored /\ assignment'[i].bulk = assignment[i].bulk
        /\ assignment[i].bulk # b
    BY <1>1, <1>2, <1>4, <1>5, <2>1, StillStored DEF Keeps
  <2>3. assignment[i] \in Assignment /\ assignment[i].bulk \in Bulks
    BY <1>1, <1>5, <2>1, <2>2 DEF TypeOK, Assignment
  <2>4. bulk[assignment[i].bulk].status \in {"open", "done"}
    BY <1>1, <1>5, <2>2 DEF BulkInv, BulkIsWhole
  <2> QED
    BY <1>4, <2>2, <2>3, <2>4
<1>6. ASSUME NEW d \in Bulks, bulk'[d].status = "done", bulk'[d].policy # "group",
             NEW x \in bulk'[d].assets
      PROVE  Covered(x, d, Stored', assignment')
  <2>1. d # b /\ bulk'[d] = bulk[d]
    BY <1>4, <1>6
  <2>2. Covered(x, d, Stored, assignment)
    BY <1>1, <1>6, <2>1 DEF BulkInv, BulkIsWhole, Covered
  <2>3. \A i \in 1..stored : assignment[i].bulk = d
            => assignment'[i].deleted = assignment[i].deleted
    BY <1>2, <2>1
  <2> QED
    BY <1>1, <1>4, <2>2, <2>3, CoveredKept
<1>7. BulkIsWhole'
  BY <1>5, <1>6 DEF BulkIsWhole, Covered
<1> QED
  BY <1>4, <1>7 DEF CheckoutInv, BulkInv

-----------------------------------------------------------------------------

LEMMA InitInv == Init => CheckoutInv
<1> SUFFICES ASSUME Init PROVE CheckoutInv
  OBVIOUS
<1>1. /\ stored = 0 /\ 1..stored = {} /\ Stored = {} /\ \A c \in Callers : call[c] = IdleCall
  <2>1. stored = 0 /\ \A c \in Callers : call[c] = IdleCall
    BY DEF Init
  <2>2. 1..stored = {}
    BY <2>1
  <2> QED
    BY <2>1, <2>2 DEF Stored
<1>2. TypeOK
  <2>1. [status |-> "absent", assets |-> {}, policy |-> ""] \in Bulk
    BY DEF Bulk, Policies
  <2>2. /\ stored \in 0..MaxAssignments /\ calls \in 0..MaxCalls /\ faults \in 0..MaxFaults
    <3>1. stored = 0 /\ calls = 0 /\ faults = 0
      BY DEF Init
    <3> QED
      BY <3>1, Bounds
  <2>3. assignment \in [Ids -> Assignment \cup {None}] /\ group \in [Groups -> SUBSET People]
    BY DEF Init
  <2>4. bulk \in [Bulks -> Bulk] /\ call \in [Callers -> Call]
    BY <2>1, IdleTyped DEF Init
  <2> QED
    BY <1>1, <2>2, <2>3, <2>4 DEF TypeOK
<1>3. ShapeInv
  BY <1>1, <1>2, IdleTyped DEF ShapeInv
<1>4. OneActiveRole /\ WindowInv
  BY <1>1, IdleTyped DEF OneActiveRole, Checkouts, Active, WindowInv, UnwarnedOverlapsRaced
<1>5. \A b \in Bulks : bulk[b].status = "absent"
  BY DEF Init
<1>6. BulkInv
  BY <1>1, <1>5, IdleTyped DEF BulkInv, Apart, BulkIsWhole
<1> QED
  BY <1>3, <1>4, <1>6 DEF CheckoutInv

LEMMA StutterInv ==
    ASSUME CheckoutInv, UNCHANGED vars
    PROVE  CheckoutInv'
<1>1. TypeOK /\ stored \in Nat
  BY Bounds DEF CheckoutInv, ShapeInv, TypeOK
<1>2. UNCHANGED <<assignment, stored, group, bulk, call, calls, faults>>
  BY DEF vars
<1>3. TypeOK' /\ Advance
  BY <1>1, <1>2 DEF TypeOK, Advance, Keeps, Follows
<1> QED
  BY <1>2, <1>3, QuietStep

LEMMA NextInv ==
    ASSUME CheckoutInv, [Next]_vars
    PROVE  CheckoutInv'
<1>1. CASE Next
  BY <1>1, CreateAssetAssignmentKeeps, CreateBulkCheckoutKeeps, NextAssetKeeps, FormGroupKeeps,
     JoinGroupKeeps, EndOverlapKeeps, StoreAssignmentKeeps, FinishBulkKeeps,
     DeleteBulkCheckoutKeeps, AbortKeeps, EndAssetAssignmentKeeps, OperatorFormsGroupKeeps
     DEF Next
<1> QED
  BY <1>1, StutterInv

(* The invariant holds in every state of every behaviour: whatever calls,  *)
(* returns and failures interleave with the steps of the service.          *)
THEOREM CheckoutInvariant == Spec => []CheckoutInv
BY InitInv, NextInv, PTL DEF Spec

(* Every variable keeps its type: the store never reads a missing row, a    *)
(* call never ends or joins what is not stored.                            *)
THEOREM CheckoutTypeCorrect == Spec => []TypeOK
<1>1. CheckoutInv => TypeOK
  BY DEF CheckoutInv, ShapeInv
<1> QED
  BY <1>1, CheckoutInvariant, PTL

(* An asset has one active primary checkout and one responsible department *)
(* at most, and nobody has it twice as an additional user: the store closes *)
(* or refuses whatever the service decided on a stale reading.             *)
THEOREM RolesAreExclusive == Spec => []OneActiveRole
<1>1. CheckoutInv => OneActiveRole
  BY DEF CheckoutInv
<1> QED
  BY <1>1, CheckoutInvariant, PTL

(* An assignment that was stored without a policy overlaps none that its    *)
(* call could see when it looked, also after returns shortened either.      *)
THEOREM OverlapsAreRaces == Spec => []UnwarnedOverlapsRaced
<1>1. CheckoutInv => UnwarnedOverlapsRaced
  BY DEF CheckoutInv, WindowInv
<1> QED
  BY <1>1, CheckoutInvariant, PTL

(* A checkout that became a group's has everybody who held the asset, and   *)
(* whoever asked for it, among the members of its group.                   *)
THEOREM HoldersAreKept == Spec => []GroupKeepsHolders
<1>1. CheckoutInv => GroupKeepsHolders
  BY DEF CheckoutInv, ShapeInv, GroupKeepsHolders, AssignmentOK, Stored
<1> QED
  BY <1>1, CheckoutInvariant, PTL

(* A bulk checkout is all or nothing: what it stored goes with it when it   *)
(* is rolled back, and is complete when it is done.                        *)
THEOREM BulksAreWhole == Spec => []BulkIsWhole
<1>1. CheckoutInv => BulkIsWhole
  BY DEF CheckoutInv, BulkInv
<1> QED
  BY <1>1, CheckoutInvariant, PTL
=============================================================================
