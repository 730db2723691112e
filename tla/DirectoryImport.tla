--------------------------- MODULE DirectoryImport ---------------------------
(***************************************************************************)
(* Directory expansion: one import batch and the calls that work on it.    *)
(* A preview persists a plan (one item per source record); Apply and Retry *)
(* (Service.run) take a lease on the batch, write each item's target (a    *)
(* People identity and its Guard ownership), save the item together with   *)
(* its mapping under the lease, and finish by storing the batch status and *)
(* the attempt's result.  A call may die or stall at any point, the lease  *)
(* expires, and another call with the same or with another idempotency key *)
(* takes over.  Administrators claim identities and edit what they own.    *)
(*                                                                         *)
(* Item i is the i-th item of the plan; its target identity is             *)
(* stableTargetID, so it is indexed by i too.  The digest of what the      *)
(* source wants for it is "new".                                           *)
(***************************************************************************)
EXTENDS Integers, FiniteSets, FiniteSetsExt

CONSTANTS
    Items,            \* the plan's ordinals
    Kinds,            \* the states the targets can be in before the preview
    Keys,             \* idempotency keys the callers use
    Workers,          \* calls of run in flight at once
    MaximumAttempts,  \* attempts one batch retains
    MaxFaults,        \* failed calls, crashes and stalls of one behaviour
    MaxRevision,      \* revisions an identity can reach by local edits
    AttemptsById      \* does the store finish an attempt by its id (PostgreSQL)
                      \* or by its idempotency key (the memory store)

ASSUME DirectoryAssumption ==
    /\ IsFiniteSet(Items) /\ Items \subseteq Nat /\ Items # {}
    /\ Kinds \subseteq [Items -> {"absent", "stale", "same", "claimed"}]
    /\ MaximumAttempts \in Nat /\ MaxFaults \in Nat /\ MaxRevision \in Nat
    /\ AttemptsById \in BOOLEAN
    /\ "nobody" \notin Workers

Ops == {"apply", "retry"}
AttemptIds == Ops \X Keys
Nobody == "nobody"
Digests == {"none", "old", "new", "local"}
Outcomes == {"pending", "applied", "unchanged", "conflict", "failed"}
Actions == {"unplanned", "create", "update", "unchanged", "conflict"}

VARIABLES
    batch,      \* its row: status, lease token, is the lease unexpired, and
                \* Retryable of the last attempt that has a result
    items,      \* the plan and the outcomes
    attempts,   \* "none", "pending" (no Result), "done", or "answered": the
                \* idempotency key has a result and the listed attempt has not
    mappings,   \* the digest recorded for each source record
    identity,   \* People identities: revision 0 when there is none
    ownership,  \* Guard's resource ownership: "none", "locked", "claimed"
    worker,     \* the calls in flight
    faults

vars == <<batch, items, attempts, mappings, identity, ownership, worker, faults>>
store == <<batch, items, attempts, mappings>>
target == <<identity, ownership>>

NoIdentity == [rev |-> 0, digest |-> "none"]
Idle == [pc |-> "idle", op |-> "apply", key |-> "none", resuming |-> FALSE,
         preview |-> FALSE, todo |-> {}, seen |-> NoIdentity,
         outcome |-> "pending", changed |-> FALSE]

Plans == [action : Actions, rev : Nat, digest : Digests, outcome : Outcomes]
Identities == [rev : Nat, digest : Digests]
Calls ==
    [pc : {"idle", "begin", "pull", "planned", "item", "target", "reconcile", "create",
           "register", "save", "verify", "compensate", "delete", "unlock"},
     op : Ops, key : Keys \cup {"none"}, resuming : BOOLEAN, preview : BOOLEAN,
     todo : SUBSET Items, seen : Identities, outcome : Outcomes, changed : BOOLEAN]

TypeOK ==
    /\ batch \in [status : {"none", "previewed", "applying", "applied", "partial", "failed"},
                  token : Workers \cup {Nobody}, live : BOOLEAN, retryable : BOOLEAN]
    /\ items \in [Items -> Plans]
    /\ attempts \in [AttemptIds -> {"none", "pending", "done", "answered"}]
    /\ mappings \in [Items -> Digests]
    /\ identity \in [Items -> Identities]
    /\ ownership \in [Items -> {"none", "locked", "claimed"}]
    /\ worker \in [Workers -> Calls]
    /\ faults \in 0..MaxFaults

\* What an earlier import, or nobody, left behind for one source record.
Before(kind) ==
    [identity |-> IF kind = "absent" THEN NoIdentity
                  ELSE [rev |-> 1, digest |-> IF kind = "same" THEN "new" ELSE "old"],
     ownership |-> CASE kind = "absent" -> "none" [] kind = "claimed" -> "claimed" [] OTHER -> "locked",
     mapping |-> CASE kind = "absent" -> "none" [] kind = "same" -> "new" [] OTHER -> "old"]

Init ==
    /\ batch = [status |-> "none", token |-> Nobody, live |-> FALSE, retryable |-> FALSE]
    /\ items = [i \in Items |-> [action |-> "unplanned", rev |-> 0, digest |-> "none", outcome |-> "pending"]]
    /\ attempts = [a \in AttemptIds |-> "none"]
    /\ \E kind \in Kinds :
          /\ identity = [i \in Items |-> Before(kind[i]).identity]
          /\ ownership = [i \in Items |-> Before(kind[i]).ownership]
          /\ mappings = [i \in Items |-> Before(kind[i]).mapping]
    /\ worker = [w \in Workers |-> Idle]
    /\ faults = 0

-----------------------------------------------------------------------------
(* Planning. *)

Fault == faults < MaxFaults /\ faults' = faults + 1

\* planRecord over PeopleTarget.Preview.  A claimed target that differs from
\* the source, a mapped target that is gone and one that changed since it was
\* mapped are conflicts.
PlannedAction(i) ==
    LET differs == identity[i].digest # "new"
        mapped == mappings[i] # "none"
        changed == mapped /\ mappings[i] # identity[i].digest
        claimed == ownership[i] = "claimed" /\ differs
    IN  IF identity[i].rev = 0 THEN IF mapped THEN "conflict" ELSE "create"
        ELSE IF claimed \/ changed THEN "conflict"
        ELSE IF differs THEN "update" ELSE "unchanged"

Plan == [i \in Items |-> [action |-> PlannedAction(i), rev |-> identity[i].rev,
                          digest |-> identity[i].digest, outcome |-> "pending"]]

Planned == \A i \in Items : items[i].action # "unplanned"

\* Preview: the pull and the plan succeed and CreatePreview stores them.
Preview ==
    /\ batch.status = "none"
    /\ batch' = [batch EXCEPT !.status = "previewed"]
    /\ items' = Plan
    /\ UNCHANGED <<attempts, mappings, target, worker, faults>>

\* persistFailedPreview: a transient connector error; the batch has no items.
PreviewFails ==
    /\ batch.status = "none"
    /\ Fault
    /\ batch' = [batch EXCEPT !.status = "failed", !.retryable = TRUE]
    /\ UNCHANGED <<items, attempts, mappings, target, worker>>

-----------------------------------------------------------------------------
(* Service.run: the checks before the lease, and BeginOperation. *)

Goto(w, pc) == worker' = [worker EXCEPT ![w].pc = pc]
Return(w) == worker' = [worker EXCEPT ![w] = Idle]

Leased == batch.token # Nobody /\ batch.live
HasRetryableFailure == \E i \in Items : items[i].outcome = "failed"
AllItemsPending == Planned /\ \A i \in Items : items[i].outcome = "pending"
AttemptCount == 1 + Cardinality({a \in AttemptIds : attempts[a] # "none"})

Replayed(a) == attempts[a] \in {"done", "answered"}
Unfinished(a) == attempts[a] \in {"pending", "answered"}

\* Mutant: the lease's token is looked at, its expiry is not.
BusyWhileTokenSet(op, k) ==
    ~ (Replayed(<<op, k>>) \/ (attempts[<<op, k>>] = "pending" /\ batch.token # Nobody))

\* exactReplay answers a finished attempt from its stored result, and a pending
\* one as busy while the lease is unexpired.
NotReplayed(op, k) == ~ (Replayed(<<op, k>>) \/ (attempts[<<op, k>>] = "pending" /\ Leased))

\* The replay, busy, conflict and not-retryable answers change nothing.
Check(w, op, k) ==
    LET resuming == attempts[<<op, k>>] = "pending"
        preview == op = "retry" /\ batch.retryable
                     /\ (~ Planned \/ (resuming /\ AllItemsPending))
    IN  /\ worker[w].pc = "idle" /\ batch.status # "none"
        /\ NotReplayed(op, k)
        /\ resuming \/ AttemptCount < MaximumAttempts
        /\ op = "retry" /\ ~ resuming => \A q \in Keys : ~ Unfinished(<<"retry", q>>)
        /\ op = "apply" => batch.status = "previewed" \/ (resuming /\ batch.status = "applying")
        /\ op = "retry" /\ ~ resuming => preview \/ HasRetryableFailure
        /\ worker' = [worker EXCEPT ![w] = [Idle EXCEPT !.pc = "begin", !.op = op, !.key = k,
                                              !.resuming = resuming, !.preview = preview]]
        /\ UNCHANGED <<store, target, faults>>

\* Apply takes the pending items, Retry the failed ones (every failure of the
\* People target that is not a conflict is retryable here).
Selected(op) == {i \in Items : items[i].outcome = IF op = "apply" THEN "pending" ELSE "failed"}

\* BeginOperation: replay, busy, or the lease and (unless it is there) the
\* attempt.  A caller that found no attempt in Check but finds one here works
\* under an attempt id that is not the stored one: resuming stays FALSE.
Begin(w) ==
    LET a == <<worker[w].op, worker[w].key>>
    IN  /\ worker[w].pc = "begin"
        /\ \/ /\ Replayed(a) \/ Leased
              /\ Return(w)
              /\ UNCHANGED <<batch, attempts>>
           \/ /\ ~ Replayed(a) /\ ~ Leased
              /\ batch' = [batch EXCEPT !.status = "applying", !.token = w, !.live = TRUE]
              /\ attempts' = [attempts EXCEPT ![a] = "pending"]
              /\ worker' = [worker EXCEPT ![w].pc = CASE ~ worker[w].preview -> "item"
                                                      [] worker[w].preview /\ Planned -> "planned"
                                                      [] OTHER -> "pull",
                                          ![w].resuming = @ \/ attempts[a] = "none",
                                          ![w].todo = Selected(worker[w].op)]
        /\ UNCHANGED <<items, mappings, target, faults>>

\* FinishOperation: the batch and the attempt, under the lease token.  For an
\* attempt id that is not the stored one PostgreSQL stores nothing; the memory
\* store finishes the batch and the idempotency key, not the listed attempt.
FinishOperation(w, status, retryable) ==
    LET known == worker[w].resuming
    IN  /\ IF batch.token = w /\ (known \/ ~ AttemptsById)
           THEN /\ batch' = [status |-> status, token |-> Nobody, live |-> FALSE,
                             retryable |-> IF known THEN retryable ELSE batch.retryable]
                /\ attempts' = [attempts EXCEPT ![<<worker[w].op, worker[w].key>>] =
                                    IF known THEN "done" ELSE "answered"]
           ELSE UNCHANGED <<batch, attempts>>
        /\ Return(w)

\* retryPreview: pull and plan again, then SavePlan under the lease.
RetryPreview(w) ==
    /\ worker[w].pc = "pull"
    /\ IF batch.token = w /\ ~ Planned
       THEN items' = Plan /\ Goto(w, "planned")
       ELSE Return(w) /\ UNCHANGED items
    /\ UNCHANGED <<batch, attempts, mappings, target, faults>>

RetryPreviewFails(w) ==
    /\ worker[w].pc = "pull"
    /\ Fault
    /\ FinishOperation(w, "failed", TRUE)
    /\ UNCHANGED <<items, mappings, target>>

\* finishPreviewRetry.
FinishPreviewRetry(w) ==
    /\ worker[w].pc = "planned"
    /\ FinishOperation(w, "previewed", FALSE)
    /\ UNCHANGED <<items, mappings, target, faults>>

-----------------------------------------------------------------------------
(* The item loop and PeopleTarget.Apply. *)

Item(w) == Min(worker[w].todo)
Decide(w, outcome) ==
    worker' = [worker EXCEPT ![w].pc = "save", ![w].outcome = outcome, ![w].changed = FALSE]

\* The next item: a planned conflict is only recorded, any other is applied,
\* which starts by reading the identity.
NextItem(w) ==
    /\ worker[w].pc = "item" /\ worker[w].todo # {}
    /\ IF items[Item(w)].action = "conflict"
       THEN Decide(w, "conflict")
       ELSE worker' = [worker EXCEPT ![w].pc = "target", ![w].seen = identity[Item(w)]]
    /\ UNCHANGED <<store, target, faults>>

\* The ownership is read, and what to do with the target follows from it and
\* from the identity read before.
ApplyTarget(w) ==
    LET i == Item(w)
        seen == worker[w].seen
    IN  /\ worker[w].pc = "target"
        /\ \/ /\ seen.rev # 0 /\ ownership[i] = "claimed"
              /\ Decide(w, IF items[i].action = "unchanged" /\ seen.digest = "new"
                           THEN "unchanged" ELSE "conflict")
           \/ /\ seen.rev # 0 /\ ownership[i] # "claimed" /\ seen.digest = "new"
              /\ worker' = [worker EXCEPT ![w].pc = "register", ![w].changed = FALSE]
           \/ /\ seen.rev # 0 /\ ownership[i] # "claimed" /\ seen.digest # "new"
              /\ IF seen = [rev |-> items[i].rev, digest |-> items[i].digest]
                 THEN Goto(w, "reconcile") ELSE Decide(w, "conflict")
           \/ /\ seen.rev = 0
              /\ IF items[i].action = "create" THEN Goto(w, "create") ELSE Decide(w, "conflict")
        /\ UNCHANGED <<store, target, faults>>

\* ReconcileIdentity, a compare-and-set on the revision.
Reconcile(w) ==
    LET i == Item(w)
    IN  /\ worker[w].pc = "reconcile"
        /\ IF identity[i].rev = worker[w].seen.rev
           THEN /\ identity' = [identity EXCEPT ![i] = [rev |-> @.rev + 1, digest |-> "new"]]
                /\ worker' = [worker EXCEPT ![w].pc = "register", ![w].changed = TRUE]
           ELSE /\ Decide(w, IF identity[i].rev = 0 THEN "failed" ELSE "conflict")
                /\ UNCHANGED identity
        /\ UNCHANGED <<store, ownership, faults>>

\* CreateIdentity; the identity being there by now is a conflict.
Create(w) ==
    LET i == Item(w)
    IN  /\ worker[w].pc = "create"
        /\ IF identity[i].rev = 0
           THEN /\ identity' = [identity EXCEPT ![i] = [rev |-> 1, digest |-> "new"]]
                /\ worker' = [worker EXCEPT ![w].pc = "register", ![w].changed = TRUE]
           ELSE Decide(w, "conflict") /\ UNCHANGED identity
        /\ UNCHANGED <<store, ownership, faults>>

\* registerOwnership: an ownership of the same source record is left as it is.
Register(w) ==
    LET i == Item(w)
    IN  /\ worker[w].pc = "register"
        /\ ownership' = [ownership EXCEPT ![i] = IF @ = "none" THEN "locked" ELSE @]
        /\ worker' = [worker EXCEPT ![w].pc = "save",
                         ![w].outcome = IF worker[w].changed THEN "applied" ELSE "unchanged"]
        /\ UNCHANGED <<store, identity, faults>>

Created(w) == worker[w].changed /\ worker[w].seen.rev = 0

\* The registration fails: an identity this call created is deleted again,
\* with nothing but its revision (1) as a check.
RegisterFails(w) ==
    LET i == Item(w)
    IN  /\ worker[w].pc = "register"
        /\ Fault
        /\ identity' = [identity EXCEPT ![i] = IF Created(w) /\ @.rev = 1 THEN NoIdentity ELSE @]
        /\ Decide(w, "failed")
        /\ UNCHANGED <<store, ownership>>

\* The identity or its ownership cannot be read or written: transient.
TargetFails(w) ==
    /\ worker[w].pc \in {"target", "reconcile", "create"}
    /\ Fault
    /\ Decide(w, "failed")
    /\ UNCHANGED <<store, target>>

-----------------------------------------------------------------------------
(* SaveItem, what follows when it fails, and the end of the call. *)

Mapped(outcome) == outcome \in {"applied", "unchanged"}
Stored(w) ==
    /\ items' = [items EXCEPT ![Item(w)].outcome = worker[w].outcome]
    /\ mappings' = [mappings EXCEPT ![Item(w)] = IF Mapped(worker[w].outcome) THEN "new" ELSE @]

Advance(w) == worker' = [worker EXCEPT ![w].pc = "item", ![w].todo = @ \ {Item(w)}]

\* Mutant: the item is saved by its id alone.
SaveUnfenced(w) ==
    /\ worker[w].pc = "save"
    /\ Stored(w) /\ Advance(w)
    /\ UNCHANGED <<batch, attempts, target, faults>>

\* The item and its mapping are one transaction under the lease token.  On
\* ErrLeaseLost the target is left to the call that took over.
SaveItem(w) ==
    /\ worker[w].pc = "save"
    /\ \/ batch.token = w /\ Stored(w) /\ Advance(w)
       \/ batch.token # w /\ Return(w) /\ UNCHANGED <<items, mappings>>
    /\ UNCHANGED <<batch, attempts, target, faults>>

\* SaveItem returns another error, its transaction committed or not.  Without
\* a mapping the call ends; with one the commit is looked up.
SaveFails(w) ==
    /\ worker[w].pc = "save"
    /\ Fault
    /\ (batch.token = w /\ Stored(w)) \/ UNCHANGED <<items, mappings>>
    /\ IF Mapped(worker[w].outcome) THEN Goto(w, "verify") ELSE Return(w)
    /\ UNCHANGED <<batch, attempts, target>>

\* Mutant: a save that returned an error is taken not to have committed.
VerifyNothing(w) ==
    /\ worker[w].pc = "verify"
    /\ Goto(w, "compensate")
    /\ UNCHANGED <<store, target, faults>>

\* itemMappingCommitted.
Verify(w) ==
    LET i == Item(w)
        committed == items[i].outcome = worker[w].outcome /\ mappings[i] = "new"
    IN  /\ worker[w].pc = "verify"
        /\ IF committed THEN Advance(w) ELSE Goto(w, "compensate")
        /\ UNCHANGED <<store, target, faults>>

\* Compensate: only what this call created, and only while the import owns it.
Compensate(w) ==
    /\ worker[w].pc = "compensate"
    /\ IF Created(w) /\ ownership[Item(w)] = "locked" THEN Goto(w, "delete") ELSE Return(w)
    /\ UNCHANGED <<store, target, faults>>

DeleteIdentity(w) ==
    LET i == Item(w)
    IN  /\ worker[w].pc = "delete"
        /\ IF identity[i].rev = 1
           THEN identity' = [identity EXCEPT ![i] = NoIdentity] /\ Goto(w, "unlock")
           ELSE Return(w) /\ UNCHANGED identity
        /\ UNCHANGED <<store, ownership, faults>>

DeleteOwnership(w) ==
    LET i == Item(w)
    IN  /\ worker[w].pc = "unlock"
        /\ ownership' = [ownership EXCEPT ![i] = IF @ = "locked" THEN "none" ELSE @]
        /\ Return(w)
        /\ UNCHANGED <<store, identity, faults>>

\* countItems and the batch status that follows from it.
FinalStatus ==
    LET with(o) == {i \in Items : items[i].outcome = o}
        conflicts == with("conflict") \cup {i \in Items : items[i].action = "conflict"}
    IN  IF with("failed") \cup conflicts = {} THEN "applied"
        ELSE IF with("failed") = Items THEN "failed" ELSE "partial"

\* The batch is read, counted and finished: only the lease holder writes items,
\* so between the read and a FinishOperation that succeeds nothing changes.
Finish(w) ==
    /\ worker[w].pc = "item" /\ worker[w].todo = {}
    /\ FinishOperation(w, FinalStatus, HasRetryableFailure)
    /\ UNCHANGED <<items, mappings, target, faults>>

\* The process dies, or a read of the store fails and the call returns.
Crash(w) ==
    /\ worker[w].pc # "idle"
    /\ Fault
    /\ Return(w)
    /\ UNCHANGED <<store, target>>

-----------------------------------------------------------------------------
(* Around the calls. *)

Ended == {"idle", "begin"}
Undoing == {"verify", "compensate", "delete", "unlock"}
LeaseRunsOut == Leased /\ batch' = [batch EXCEPT !.live = FALSE]

\* leaseDuration passes and the call that held the lease is over.
Expire ==
    /\ LeaseRunsOut
    /\ worker[batch.token].pc \in Ended
    /\ UNCHANGED <<items, attempts, mappings, target, worker, faults>>

\* It passes under a call that is still running, wherever that call is: one
\* lease covers the whole batch and is never renewed.
Stall ==
    /\ LeaseRunsOut
    /\ Fault
    /\ worker[batch.token].pc \notin Ended
    /\ UNCHANGED <<items, attempts, mappings, target, worker>>

\* ClaimResourceOwnership.
Claim(i) ==
    /\ ownership[i] = "locked" /\ identity[i].rev # 0
    /\ ownership' = [ownership EXCEPT ![i] = "claimed"]
    /\ UNCHANGED <<store, identity, worker, faults>>

\* UpdateIdentity of the People service: refused while the import owns it.
Edit(i) ==
    /\ ownership[i] # "locked" /\ identity[i].rev \in 1..MaxRevision - 1
    /\ identity' = [identity EXCEPT ![i] = [rev |-> @.rev + 1, digest |-> "local"]]
    /\ UNCHANGED <<store, ownership, worker, faults>>

ServiceStep(w) ==
    \/ Begin(w) \/ RetryPreview(w) \/ FinishPreviewRetry(w)
    \/ NextItem(w) \/ ApplyTarget(w) \/ Reconcile(w) \/ Create(w) \/ Register(w)
    \/ SaveItem(w) \/ Verify(w) \/ Compensate(w) \/ DeleteIdentity(w) \/ DeleteOwnership(w)
    \/ Finish(w)

FaultStep(w) ==
    RetryPreviewFails(w) \/ RegisterFails(w) \/ TargetFails(w) \/ SaveFails(w) \/ Crash(w)

Next ==
    \/ Preview \/ PreviewFails \/ Expire \/ Stall
    \/ \E w \in Workers : ServiceStep(w) \/ FaultStep(w) \/ \E a \in AttemptIds : Check(w, a[1], a[2])
    \/ \E i \in Items : Claim(i) \/ Edit(i)

Spec == Init /\ [][Next]_vars

\* A call that has not died goes on, time passes, and whoever got no answer
\* repeats its request under the same key.
Resume == \E w \in Workers, a \in AttemptIds : attempts[a] = "pending" /\ Check(w, a[1], a[2])
Fairness ==
    /\ \A w \in Workers : WF_vars(ServiceStep(w))
    /\ WF_vars(Expire)
    /\ WF_vars(Resume)

FairSpec == Spec /\ Fairness

-----------------------------------------------------------------------------
(* Properties. *)

\* What a mapping names is there: the identity exists and has an ownership
\* record, so that it is either locked or claimed and never simply editable.
\* Created identities are deleted again by two undo paths (a registration that
\* fails, a save that fails) while other calls reuse the same deterministic
\* identity, so a late undo could remove what a mapping names.
MappedTargetIsOwned ==
    \A i \in Items : mappings[i] # "none" => identity[i].rev # 0 /\ ownership[i] # "none"

\* A call that has the lease token never takes away what a mapping names: an
\* identity that is mapped, there and owned loses its record or its ownership
\* only in a step of a call whose lease another call has taken over (the undo
\* of Apply, Compensate, and the lookup before it).
HolderKeepsMapped ==
    [][\A i \in Items :
          /\ mappings[i] # "none" /\ identity[i].rev # 0 /\ ownership[i] # "none"
          /\ identity'[i].rev = 0 \/ ownership'[i] = "none"
          => \A w \in Workers : worker'[w] # worker[w] => batch.token # w]_vars

\* An item that has been settled is not settled again: a call that lost its
\* lease while it was writing a target cannot overwrite the outcome its
\* successor recorded, and only a failed item is taken up again.
OutcomeIsFinal ==
    [][\A i \in Items : items[i].outcome \in {"applied", "unchanged", "conflict"} =>
            items'[i].outcome = items[i].outcome]_vars

\* A batch does not stay "applying": a call that died is taken over when its
\* request is repeated after the lease has expired.
BatchSettles == batch.status = "applying" ~> batch.status # "applying"

\* A batch that reports "applied" has applied its whole plan: Apply's promise
\* to execute the persisted plan, once the batch says that it was.
AppliedIsComplete ==
    batch.status = "applied" => \A i \in Items : items[i].outcome # "pending"
=============================================================================
