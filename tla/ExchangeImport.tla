---------------------------- MODULE ExchangeImport -----------------------------
(***************************************************************************)
(* Service.Import of the Exchange: concurrent calls that import the same   *)
(* archive, the durable receipt they share, Guard's ownership locks and    *)
(* the domain providers.                                                   *)
(*                                                                         *)
(* One step is one call that leaves the process: a receipt compare-and-    *)
(* swap, a Guard store operation, a provider call or an audit delivery.    *)
(* Between two such calls a worker's state is private (wk), so it may      *)
(* crash there, and other workers and the administrator may act.           *)
(*                                                                         *)
(* Faults names the failures the environment may produce and MaxFaults     *)
(* how many of them.  "store": a receipt update fails without effect.      *)
(* "audit": an audit delivery fails.  "guard": a Guard store operation     *)
(* fails without effect.  "lookup": the read that reconciles an ownership  *)
(* fails.  "provider": a provider call returns an error, with or without   *)
(* its effect.  "verify": an exact provider read fails.  "schema": the     *)
(* preflight rejects the archive.  "unlink": an outside dependency is      *)
(* removed.  "crash": the process stops.  "stall": a running call outlives *)
(* its own lease.  "claim": an administrator claims a lock.                *)
(***************************************************************************)
EXTENDS ExchangeReceipt, Sequences

CONSTANTS
    Worker,        \* concurrent Import calls
    Order,         \* the archive's records in topological order
    Deps,          \* Deps[r]: the packaged records that record r depends on
    Blocked,       \* records whose outside dependency is missing at first
    Owned,         \* the Guard states a record may have at first
    Faults,        \* the kinds of failure that may happen
    MaxFaults,     \* bound: how many failures happen
    MaxUpdates     \* bound: no retry past this version of the receipt

FaultKinds == {"store", "audit", "guard", "lookup", "provider", "verify",
               "schema", "unlink", "crash", "stall", "claim"}

(* What topologicalRecords returns: every record once, after the packaged  *)
(* records that it depends on.  An archive with a cycle has no such order  *)
(* and is refused before anything is stored.                               *)
Topological(order, deps) ==
    \A r \in Record : \E i \in DOMAIN order :
        /\ order[i] = r
        /\ \A j \in DOMAIN order : order[j] = r => j = i
        /\ \A d \in deps[r] : \E j \in 1..(i - 1) : order[j] = d

ASSUME OrderAssumption == Order \in Seq(Record)
ASSUME DepsAssumption == Deps \in [Record -> SUBSET Record]
ASSUME TopologicalAssumption == Topological(Order, Deps)
ASSUME BlockedAssumption == Blocked \subseteq Record
ASSUME OwnedAssumption == Owned \subseteq {"free", "locked", "claimed", "foreign"}
ASSUME BoundsAssumption == MaxFaults \in Nat /\ MaxUpdates \in Nat
ASSUME FaultsAssumption == Faults \subseteq FaultKinds

VARIABLES
    receipt,       \* the stored receipt of the package
    leaseExpired,  \* UpdatedAt + processingLease has passed
    reported,      \* the receipt's terminal state has reached the audit log
    own,           \* Guard's ownership entry of each record
    stored,        \* stored[r]: the provider holds the exact record
    wrote,         \* wrote[r]: an import of this package put it there
    provAudited,   \* provAudited[r]: the provider's import audit is delivered
    waiting,       \* records whose outside dependency is still missing
    claiming,      \* claims that Guard has stored but not yet audited
    marks,         \* history: what befell the lock of each record
    faults,        \* failures so far
    wk             \* the private state of each running call

providerVars == <<stored, wrote, provAudited>>
vars == <<receipt, leaseExpired, reported, own, stored, wrote, provAudited,
          waiting, claiming, marks, faults, wk>>

--------------------------------------------------------------------------------
(* Private state of a call.  outs is outcomesByKey, prog is pending.Progress *)
(* (and progressByKey), at is pending.UpdatedAt, reg is the ownership value  *)
(* Guard returned, err is what the last provider call reported.              *)

Steps == {"idle", "resume", "preflight", "record", "intent", "register",
          "regAudit", "rollback", "lockError", "ownership", "cleanup", "calling",
          "verify", "commit", "clear", "compensate", "hold", "fail", "report"}

Registration == [stamp : Nat, locked : BOOLEAN, created : BOOLEAN]

CallState == [pc   : Steps,
              at   : Nat,
              outs : [Record -> Outcome],
              prog : [Record -> Progress],
              i    : Nat,
              held : SUBSET Record,
              reg  : Registration,
              err  : {"none", "error", "dependency", "leaseLost"}]

NoRegistration == [stamp |-> 0, locked |-> FALSE, created |-> FALSE]

IdleCall == [pc |-> "idle", at |-> 0,
             outs |-> [r \in Record |-> NoOutcome],
             prog |-> [r \in Record |-> NoProgress],
             i |-> 1, held |-> {}, reg |-> NoRegistration, err |-> "none"]

(* Guard's entry of a record.  stamp stands for RegisteredAt; 0 is a lock  *)
(* that was there before this package arrived; "foreign" is an entry from  *)
(* a different source record.                                              *)
Ownership == [state : {"free", "locked", "claimed", "foreign"}, stamp : Nat]

(* What the promises about locks make exceptions of.  "guard": Guard failed  *)
(* on it without effect.  "crash": a call stopped before it had recorded the *)
(* lock.  "claim": an administrator claimed it.  "stale": a call that had    *)
(* lost the receipt's lease deleted it.                                      *)
Mark == {"guard", "crash", "claim", "stale"}

TypeOK ==
    /\ receipt \in Receipt
    /\ leaseExpired \in BOOLEAN
    /\ reported \in BOOLEAN
    /\ own \in [Record -> Ownership]
    /\ stored \in [Record -> BOOLEAN]
    /\ wrote \in [Record -> BOOLEAN]
    /\ provAudited \in [Record -> BOOLEAN]
    /\ waiting \in SUBSET Record
    /\ claiming \in SUBSET Record
    /\ marks \in [Record -> SUBSET Mark]
    /\ faults \in Nat
    /\ wk \in [Worker -> CallState]

Init ==
    /\ receipt = AbsentReceipt
    /\ leaseExpired = FALSE
    /\ reported = FALSE
    /\ own \in [Record -> {[state |-> s, stamp |-> 0] : s \in Owned}]
    /\ stored \in [Record -> BOOLEAN]
    /\ wrote = [r \in Record |-> FALSE]
    /\ provAudited = [r \in Record |-> FALSE]
    /\ waiting = Blocked
    /\ claiming = {}
    /\ marks = [r \in Record |-> {}]
    /\ faults = 0
    /\ wk = [w \in Worker |-> IdleCall]

--------------------------------------------------------------------------------
(* Helpers. *)

Fault(kind) ==
    /\ kind \in Faults
    /\ faults < MaxFaults
    /\ faults' = faults + 1

Befell(r, mark) == marks' = [marks EXCEPT ![r] = @ \cup {mark}]

Go(w, state) == wk' = [wk EXCEPT ![w] = state]

At(w, step) == wk[w].pc = step

InLoop(w, step) == At(w, step) /\ wk[w].i \in DOMAIN Order

Current(w) == Order[wk[w].i]

Prog(w) == wk[w].prog[Current(w)]

(* Updates of a call's private state. *)
To(s, step) == [s EXCEPT !.pc = step]

WithProgress(s, r, g) == [s EXCEPT !.prog = [s.prog EXCEPT ![r] = g]]

WithOutcome(s, r, o) == [s EXCEPT !.outs = [s.outs EXCEPT ![r] = o]]

WithError(s, e) == [s EXCEPT !.err = e]

WithRegistration(s, stamp, locked, created) ==
    [s EXCEPT !.reg = [stamp |-> stamp, locked |-> locked, created |-> created]]

NextRecord(s) == [s EXCEPT !.pc = "record", !.i = s.i + 1, !.reg = NoRegistration,
                           !.err = "none"]

(* failImportResult(candidate): the receipt will be marked failed with this *)
(* recovery state for the current record.                                   *)
FailingWith(w, g) == To(WithProgress(wk[w], Current(w), g), "fail")

(* The receipt a call writes: pending with its outcomes and progress. *)
Candidate(w, status, outs, prog) ==
    [status |-> status, at |-> wk[w].at + 1, outcome |-> outs, progress |-> prog]

(* Mutant: the last writer wins. *)
LastWriterWins(w, p) == wk[w].at > 0 /\ p.at > 0

(* Mutant: the compare of the token is dropped. *)
UnfencedUpdate(w, p) == ValidTransition(p, receipt)

CanUpdate(w, p) == receipt.at = wk[w].at /\ ValidTransition(p, receipt)

(* Store.UpdatePackage: installed when the token still matches and the     *)
(* transition is valid, refused otherwise; "store" faults refuse it too.   *)
UpdatePackage(w, p, accepted, refused) ==
    \/ /\ CanUpdate(w, p)
       /\ receipt' = p
       /\ leaseExpired' = FALSE
       /\ reported' = FALSE
       /\ Go(w, [accepted EXCEPT !.at = p.at])
       /\ UNCHANGED faults
    \/ /\ ~CanUpdate(w, p)
       /\ Go(w, refused)
       /\ UNCHANGED <<receipt, leaseExpired, reported, faults>>
    \/ /\ Fault("store")
       /\ Go(w, refused)
       /\ UNCHANGED <<receipt, leaseExpired, reported>>

(* checkpointImport *)
Checkpoint(w, outs, prog, accepted, refused) ==
    UpdatePackage(w, Candidate(w, "processing", SuccessfulOutcomes(outs), prog),
                  accepted, refused)

(* Mutant: the delete does not look at the current state. *)
DeleteAnyLock(r, reg) ==
    reg.locked /\ own[r].stamp = reg.stamp

(* Guard.DeleteImportedResourceOwnership: only the exact, still locked     *)
(* registration is removed.                                                *)
Deletable(r, reg) ==
    reg.locked /\ own[r].state = "locked" /\ own[r].stamp = reg.stamp

DeleteOwnership(w, r) ==
    /\ own' = [own EXCEPT ![r].state = "free"]
    /\ IF wk[w].at = receipt.at THEN UNCHANGED marks ELSE Befell(r, "stale")

--------------------------------------------------------------------------------
(* Entering the import. *)

(* CreatePackage reserves the receipt for the first call. *)
Reserve(w) ==
    /\ At(w, "idle")
    /\ receipt.status = "absent"
    /\ receipt' = [receipt EXCEPT !.status = "processing", !.at = 1]
    /\ leaseExpired' = FALSE
    /\ Go(w, [IdleCall EXCEPT !.pc = "preflight", !.at = 1])
    /\ UNCHANGED <<reported, own, providerVars, waiting, claiming, marks, faults>>

(* An exact replay of a completed receipt only repairs its audit event. *)
Replay(w) ==
    /\ At(w, "idle")
    /\ receipt.status = "completed"
    /\ reported' = TRUE
    /\ UNCHANGED <<receipt, leaseExpired, own, providerVars, waiting, claiming, marks, faults, wk>>

(* Mutant: the terminal audit is not repaired first. *)
ReopenUnreported(w) ==
    /\ At(w, "idle")
    /\ receipt.at < MaxUpdates
    /\ \/ receipt.status \in {"failed", "holding"}
       \/ receipt.status = "processing" /\ leaseExpired
    /\ reported' = reported
    /\ Go(w, [IdleCall EXCEPT !.pc = "resume", !.at = receipt.at,
                              !.outs = receipt.outcome, !.prog = receipt.progress])
    /\ UNCHANGED <<receipt, leaseExpired, own, providerVars, waiting, claiming, marks, faults>>

(* Mutant: an expired lease is not taken over. *)
NeverTakeOver(w) ==
    /\ At(w, "idle")
    /\ receipt.at < MaxUpdates
    /\ receipt.status \in {"failed", "holding"}
    /\ reported' = (reported \/ receipt.status # "processing")
    /\ Go(w, [IdleCall EXCEPT !.pc = "resume", !.at = receipt.at,
                              !.outs = receipt.outcome, !.prog = receipt.progress])
    /\ UNCHANGED <<receipt, leaseExpired, own, providerVars, waiting, claiming, marks, faults>>

(* An existing receipt is read for a retry: a terminal one after its audit *)
(* event is repaired, a processing one only when its lease has expired.    *)
(* (A live lease, and a failing audit, return an error and change nothing.)*)
ReadReceipt(w) ==
    /\ At(w, "idle")
    /\ receipt.at < MaxUpdates
    /\ \/ receipt.status \in {"failed", "holding"}
       \/ receipt.status = "processing" /\ leaseExpired
    /\ reported' = (reported \/ receipt.status # "processing")
    /\ Go(w, [IdleCall EXCEPT !.pc = "resume", !.at = receipt.at,
                              !.outs = receipt.outcome, !.prog = receipt.progress])
    /\ UNCHANGED <<receipt, leaseExpired, own, providerVars, waiting, claiming, marks, faults>>

(* retryPackage and its compare-and-swap. *)
Resume(w) ==
    /\ At(w, "resume")
    /\ LET outs == SuccessfulOutcomes(wk[w].outs)
       IN  UpdatePackage(w, Candidate(w, "processing", outs, wk[w].prog),
                         [wk[w] EXCEPT !.pc = "preflight", !.outs = outs], IdleCall)
    /\ UNCHANGED <<own, providerVars, waiting, claiming, marks>>

(* Records that must wait: neither durable nor in progress, with an outside *)
(* dependency missing or a packaged dependency that itself waits.           *)
IsHeld(w, held) ==
    \A r \in Record :
        r \in held <=> /\ ~Successful(wk[w].outs[r])
                       /\ wk[w].prog[r].phase = "none"
                       /\ r \in waiting \/ Deps[r] \cap held # {}

(* validateSchema refuses a record: its template is unknown or inactive, or *)
(* its payload does not fit.                                                *)
SchemaRefuses == Fault("schema")

Preflight(w) ==
    /\ At(w, "preflight")
    /\ \/ /\ \E held \in SUBSET Record :
                /\ IsHeld(w, held)
                /\ Go(w, [wk[w] EXCEPT !.pc = "record", !.held = held])
          /\ UNCHANGED faults
       \/ /\ SchemaRefuses
          /\ Go(w, To(wk[w], "fail"))
    /\ UNCHANGED <<receipt, leaseExpired, reported, own, providerVars, waiting, claiming, marks>>

--------------------------------------------------------------------------------
(* The durable loop over the records. *)

SkipRecord(w) ==
    /\ InLoop(w, "record")
    /\ Successful(wk[w].outs[Current(w)])
    /\ Prog(w).phase = "none"
    /\ Go(w, NextRecord(wk[w]))
    /\ UNCHANGED <<receipt, leaseExpired, reported, own, providerVars, waiting, claiming, marks, faults>>

HoldRecord(w) ==
    /\ InLoop(w, "record")
    /\ ~Successful(wk[w].outs[Current(w)])
    /\ Prog(w).phase = "none"
    /\ Current(w) \in wk[w].held
    /\ Go(w, NextRecord(WithOutcome(wk[w], Current(w), HoldingOutcome)))
    /\ UNCHANGED <<receipt, leaseExpired, reported, own, providerVars, waiting, claiming, marks, faults>>

ResumeRecord(w) ==
    /\ InLoop(w, "record")
    /\ Prog(w).phase # "none"
    /\ Go(w, To(wk[w], "register"))
    /\ UNCHANGED <<receipt, leaseExpired, reported, own, providerVars, waiting, claiming, marks, faults>>

(* Mutant: the exact record is not looked up. *)
AlwaysExpectCreation(expected) == [NoProgress EXCEPT !.phase = "intent", !.expected = TRUE]

Intent(expected) == [NoProgress EXCEPT !.phase = "intent", !.expected = expected]

(* ImportRecordExists decides, before any write, whether the import will   *)
(* have created the record.                                                *)
InspectRecord(w) ==
    /\ InLoop(w, "record")
    /\ ~Successful(wk[w].outs[Current(w)])
    /\ Prog(w).phase = "none"
    /\ Current(w) \notin wk[w].held
    /\ \/ /\ Go(w, To(WithProgress(wk[w], Current(w), Intent(~stored[Current(w)])), "intent"))
          /\ UNCHANGED faults
       \/ /\ Fault("verify")
          /\ Go(w, FailingWith(w, NoProgress))
    /\ UNCHANGED <<receipt, leaseExpired, reported, own, providerVars, waiting, claiming, marks>>

ReserveIntent(w) ==
    /\ InLoop(w, "intent")
    /\ Checkpoint(w, wk[w].outs, wk[w].prog,
                  To(wk[w], "register"), FailingWith(w, NoProgress))
    /\ UNCHANGED <<own, providerVars, waiting, claiming, marks>>

(* Guard.RegisterImportedResourceOwnership, the store operation. *)
RegisterOwnership(w) ==
    /\ InLoop(w, "register")
    /\ LET r == Current(w)
           o == own[r]
       IN  \/ /\ o.state = "free"
              /\ own' = [own EXCEPT ![r] = [state |-> "locked", stamp |-> o.stamp + 1]]
              /\ Go(w, To(WithRegistration(wk[w], o.stamp + 1, TRUE, TRUE), "regAudit"))
              /\ UNCHANGED <<marks, faults>>
           \/ /\ o.state \in {"locked", "claimed"}
              /\ Go(w, To(WithRegistration(wk[w], o.stamp, o.state = "locked", FALSE),
                         "ownership"))
              /\ UNCHANGED <<own, marks, faults>>
           \/ /\ o.state = "foreign"
              /\ Go(w, To(wk[w], "lockError"))
              /\ UNCHANGED <<own, marks, faults>>
           \/ /\ Fault("guard")
              /\ Befell(r, "guard")
              /\ Go(w, To(wk[w], "lockError"))
              /\ UNCHANGED own
    /\ UNCHANGED <<receipt, leaseExpired, reported, providerVars, waiting, claiming>>

(* Guard audits a new lock and rolls it back when that fails. *)
AuditOwnership(w) ==
    /\ InLoop(w, "regAudit")
    /\ \/ Go(w, To(wk[w], "ownership")) /\ UNCHANGED faults
       \/ Fault("audit") /\ Go(w, To(wk[w], "rollback"))
    /\ UNCHANGED <<receipt, leaseExpired, reported, own, providerVars, waiting, claiming, marks>>

RollbackOwnership(w) ==
    /\ InLoop(w, "rollback")
    /\ Go(w, To([wk[w] EXCEPT !.reg = NoRegistration], "lockError"))
    /\ \/ /\ Deletable(Current(w), wk[w].reg)
          /\ DeleteOwnership(w, Current(w))
          /\ UNCHANGED faults
       \/ ~Deletable(Current(w), wk[w].reg) /\ UNCHANGED <<own, marks, faults>>
       \/ Fault("guard") /\ Befell(Current(w), "guard") /\ UNCHANGED own
    /\ UNCHANGED <<receipt, leaseExpired, reported, providerVars, waiting, claiming>>

(* A failed registration is reconciled with what Guard holds: an exact lock *)
(* is taken to be this call's own, an unreadable entry keeps the intent,    *)
(* anything else drops an intent that never reached Guard.                  *)
ReconcileOwnership(w) ==
    /\ InLoop(w, "lockError")
    /\ \/ /\ Go(w, FailingWith(w,
                    IF own[Current(w)].state = "locked"
                    THEN [Prog(w) EXCEPT !.ready = TRUE, !.created = TRUE, !.locked = TRUE]
                    ELSE IF Prog(w).phase = "intent" /\ ~Prog(w).ready
                         THEN NoProgress ELSE Prog(w)))
          /\ UNCHANGED faults
       \/ Fault("lookup") /\ Go(w, FailingWith(w, Prog(w)))
    /\ UNCHANGED <<receipt, leaseExpired, reported, own, providerVars, waiting, claiming, marks>>

(* Mutant: every lock counts as created by this import. *)
ClaimsEveryLock(g, reg) ==
    [g EXCEPT !.ready = TRUE, !.created = TRUE, !.locked = reg.locked]

(* The progress entry once Guard has answered. *)
WithOwnership(g, reg) ==
    [g EXCEPT !.ready = TRUE, !.created = g.created \/ reg.created, !.locked = reg.locked]

CheckpointOwnership(w) ==
    /\ InLoop(w, "ownership")
    /\ LET r   == Current(w)
           g   == WithOwnership(Prog(w), wk[w].reg)
           new == WithProgress(wk[w], r, g)
       IN  IF Prog(w).ready /\ ~wk[w].reg.created /\ Prog(w).locked = wk[w].reg.locked
           THEN /\ Go(w, To(wk[w], "calling"))
                /\ UNCHANGED <<receipt, leaseExpired, reported, faults>>
           ELSE Checkpoint(w, wk[w].outs, new.prog,
                           To(new, "calling"), To(new, "cleanup"))
    /\ UNCHANGED <<own, providerVars, waiting, claiming, marks>>

(* The ownership checkpoint was refused: a lock this call created is       *)
(* deleted, and kept in the failing receipt when that does not work.       *)
CleanupOwnership(w) ==
    /\ InLoop(w, "cleanup")
    /\ LET r == Current(w)
       IN  \/ /\ wk[w].reg.created => Deletable(r, wk[w].reg)
              /\ IF wk[w].reg.created THEN DeleteOwnership(w, r) ELSE UNCHANGED <<own, marks>>
              /\ Go(w, FailingWith(w, NoProgress))
              /\ UNCHANGED faults
           \/ /\ wk[w].reg.created
              /\ \/ ~Deletable(r, wk[w].reg) /\ UNCHANGED <<marks, faults>>
                 \/ Fault("guard") /\ Befell(r, "guard")
              /\ Go(w, FailingWith(w, Prog(w)))
              /\ UNCHANGED own
    /\ UNCHANGED <<receipt, leaseExpired, reported, providerVars, waiting, claiming>>

--------------------------------------------------------------------------------
(* The provider call, under lease heartbeats: ImportRecord of a provider   *)
(* and the domain service behind it.  The providers agree in control; what *)
(* one of them may do, the model may do.                                   *)

(* A domain service accepts a record whose references it can resolve. *)
Resolvable(r) == r \notin waiting /\ \A d \in Deps[r] : stored[d]

(* The exact record is durable after the call. *)
ProviderWrites(r, audited) ==
    /\ stored' = [stored EXCEPT ![r] = TRUE]
    /\ wrote' = [wrote EXCEPT ![r] = @ \/ ~stored[r]]
    /\ provAudited' = [provAudited EXCEPT ![r] = @ \/ audited]

(* An expected creation writes or replays the record; an expected replay   *)
(* only compares.                                                          *)
CanCommit(r, g) == stored[r] \/ (g.expected /\ Resolvable(r))

ProviderCommits(w) ==
    /\ InLoop(w, "calling")
    /\ CanCommit(Current(w), Prog(w))
    /\ \/ /\ ProviderWrites(Current(w), TRUE)
          /\ Go(w, To(wk[w], "commit"))
          /\ UNCHANGED faults
       \/ /\ Prog(w).expected
          /\ Fault("audit")
          /\ ProviderWrites(Current(w), FALSE)
          /\ Go(w, To(WithError(wk[w], "error"), "commit"))
    /\ UNCHANGED <<receipt, leaseExpired, reported, own, waiting, claiming, marks>>

(* An expected replay is refused unless the exact record is there.  An     *)
(* expected creation is refused when a reference does not resolve, by some *)
(* services (ImportAsset of Atlas) before they look for the record.        *)
ProviderRefuses(w) ==
    /\ InLoop(w, "calling")
    /\ IF Prog(w).expected THEN ~Resolvable(Current(w)) ELSE ~stored[Current(w)]
    /\ Go(w, To(WithError(wk[w], IF Prog(w).expected THEN "dependency" ELSE "error"),
                "verify"))
    /\ UNCHANGED <<receipt, leaseExpired, reported, own, providerVars, waiting, claiming, marks, faults>>

(* The call fails without saying whether it wrote. *)
ProviderFails(w) ==
    /\ InLoop(w, "calling")
    /\ Fault("provider")
    /\ \/ UNCHANGED providerVars
       \/ CanCommit(Current(w), Prog(w)) /\ ProviderWrites(Current(w), FALSE)
    /\ Go(w, To(WithError(wk[w], "error"), "verify"))
    /\ UNCHANGED <<receipt, leaseExpired, reported, own, waiting, claiming, marks>>

(* importRecordWithHeartbeat, the renewal, in time or at the last moment   *)
(* before a takeover.  (A renewal while the lease is live moves the token  *)
(* of the receipt and of its only holder together and is left out.)        *)
Heartbeat(w) ==
    /\ InLoop(w, "calling")
    /\ receipt.status = "processing" /\ leaseExpired
    /\ receipt.at = wk[w].at
    /\ receipt' = [receipt EXCEPT !.at = @ + 1]
    /\ leaseExpired' = FALSE
    /\ Go(w, [wk[w] EXCEPT !.at = @ + 1])
    /\ UNCHANGED <<reported, own, providerVars, waiting, claiming, marks, faults>>

(* A refused renewal cancels the call, which may still have committed and  *)
(* may or may not say so.                                                  *)
LeaseLost(w) ==
    /\ InLoop(w, "calling")
    /\ \/ receipt.at # wk[w].at /\ UNCHANGED faults
       \/ Fault("store")
    /\ \/ /\ Go(w, To(WithError(wk[w], "leaseLost"), "verify"))
          /\ UNCHANGED providerVars
       \/ /\ CanCommit(Current(w), Prog(w))
          /\ \E step \in {"verify", "commit"}, audited \in BOOLEAN :
                /\ ProviderWrites(Current(w), audited)
                /\ Go(w, To(WithError(wk[w], "leaseLost"), step))
    /\ UNCHANGED <<receipt, leaseExpired, reported, own, waiting, claiming, marks>>

(* Mutant: an ambiguous error counts as a commit. *)
AssumeCommitted(w) ==
    /\ InLoop(w, "verify")
    /\ Go(w, To(wk[w], "commit"))
    /\ UNCHANGED faults
    /\ UNCHANGED <<receipt, leaseExpired, reported, own, providerVars, waiting, claiming, marks>>

(* Mutant: a failed verification drops the intent. *)
DropUnverified(w) ==
    /\ InLoop(w, "verify")
    /\ \/ /\ Go(w, IF stored[Current(w)] THEN To(wk[w], "commit")
                   ELSE IF wk[w].err = "leaseLost" THEN IdleCall
                   ELSE To(wk[w], "compensate"))
          /\ UNCHANGED faults
       \/ Fault("verify") /\ Go(w, FailingWith(w, NoProgress))
    /\ UNCHANGED <<receipt, leaseExpired, reported, own, providerVars, waiting, claiming, marks>>

(* An uncommitted error is checked against the exact record. *)
VerifyCommit(w) ==
    /\ InLoop(w, "verify")
    /\ \/ /\ Go(w, IF stored[Current(w)] THEN To(wk[w], "commit")
                   ELSE IF wk[w].err = "leaseLost" THEN IdleCall
                   ELSE To(wk[w], "compensate"))
          /\ UNCHANGED faults
       \/ Fault("verify") /\ Go(w, FailingWith(w, Prog(w)))
    /\ UNCHANGED <<receipt, leaseExpired, reported, own, providerVars, waiting, claiming, marks>>

(* Mutant: the error of a committed write is ignored. *)
IgnoreCommitError(w) ==
    /\ InLoop(w, "commit")
    /\ LET r   == Current(w)
           o   == [status |-> IF Prog(w).expected THEN "created" ELSE "unchanged",
                   locked |-> Prog(w).locked]
           new == WithOutcome(WithProgress(wk[w], r, [Prog(w) EXCEPT !.phase = "committed"]),
                              r, o)
       IN  Checkpoint(w, new.outs, new.prog,
                      To(new, "clear"),
                      To(new, "fail"))
    /\ UNCHANGED <<own, providerVars, waiting, claiming, marks>>

(* The visible outcome and the committed phase become durable together. *)
CheckpointCommitted(w) ==
    /\ InLoop(w, "commit")
    /\ LET r   == Current(w)
           o   == [status |-> IF Prog(w).expected THEN "created" ELSE "unchanged",
                   locked |-> Prog(w).locked]
           new == WithOutcome(WithProgress(wk[w], r, [Prog(w) EXCEPT !.phase = "committed"]),
                              r, o)
       IN  Checkpoint(w, new.outs, new.prog,
                      To(new, IF new.err = "none" THEN "clear" ELSE "fail"),
                      To(new, "fail"))
    /\ UNCHANGED <<own, providerVars, waiting, claiming, marks>>

(* Mutant: the lock is released with the intent. *)
ReleaseOnClear(w) ==
    /\ InLoop(w, "clear")
    /\ LET new == WithProgress(wk[w], Current(w), NoProgress)
       IN  Checkpoint(w, new.outs, new.prog, NextRecord(new), To(wk[w], "fail"))
    /\ DeleteOwnership(w, Current(w))
    /\ UNCHANGED <<providerVars, waiting, claiming>>

ClearIntent(w) ==
    /\ InLoop(w, "clear")
    /\ LET new == WithProgress(wk[w], Current(w), NoProgress)
       IN  Checkpoint(w, new.outs, new.prog, NextRecord(new), To(wk[w], "fail"))
    /\ UNCHANGED <<own, providerVars, waiting, claiming, marks>>

(* Mutant: the intent is dropped and the lock stays. *)
ForgetLock(w) ==
    /\ InLoop(w, "compensate")
    /\ LET r == Current(w)
       IN  \/ /\ Prog(w).created => Deletable(r, wk[w].reg)
              /\ UNCHANGED <<own, marks>>
              /\ Go(w, IF wk[w].err = "dependency"
                       THEN To(WithProgress(wk[w], r, NoProgress), "hold")
                       ELSE FailingWith(w, NoProgress))
              /\ UNCHANGED faults
           \/ /\ Prog(w).created
              /\ \/ ~Deletable(r, wk[w].reg) /\ UNCHANGED <<marks, faults>>
                 \/ Fault("guard") /\ Befell(r, "guard")
              /\ Go(w, FailingWith(w, Prog(w)))
              /\ UNCHANGED own
    /\ UNCHANGED <<receipt, leaseExpired, reported, providerVars, waiting, claiming>>

(* No write happened: a lock that this import created is deleted. *)
Compensate(w) ==
    /\ InLoop(w, "compensate")
    /\ LET r == Current(w)
       IN  \/ /\ Prog(w).created => Deletable(r, wk[w].reg)
              /\ IF Prog(w).created THEN DeleteOwnership(w, r) ELSE UNCHANGED <<own, marks>>
              /\ Go(w, IF wk[w].err = "dependency"
                       THEN To(WithProgress(wk[w], r, NoProgress), "hold")
                       ELSE FailingWith(w, NoProgress))
              /\ UNCHANGED faults
           \/ /\ Prog(w).created
              /\ \/ ~Deletable(r, wk[w].reg) /\ UNCHANGED <<marks, faults>>
                 \/ Fault("guard") /\ Befell(r, "guard")
              /\ Go(w, FailingWith(w, Prog(w)))
              /\ UNCHANGED own
    /\ UNCHANGED <<receipt, leaseExpired, reported, providerVars, waiting, claiming>>

CheckpointHolding(w) ==
    /\ InLoop(w, "hold")
    /\ Checkpoint(w, wk[w].outs, wk[w].prog,
                  NextRecord(WithOutcome(wk[w], Current(w), HoldingOutcome)),
                  To(wk[w], "fail"))
    /\ UNCHANGED <<own, providerVars, waiting, claiming, marks>>

--------------------------------------------------------------------------------
(* Leaving the import. *)

Complete(w) ==
    /\ At(w, "record")
    /\ wk[w].i \notin DOMAIN Order
    /\ LET holding == \E r \in Record : wk[w].outs[r].status = "holding"
       IN  UpdatePackage(w, Candidate(w, IF holding THEN "holding" ELSE "completed",
                                      wk[w].outs, wk[w].prog),
                         To(wk[w], "report"), IdleCall)
    /\ UNCHANGED <<own, providerVars, waiting, claiming, marks>>

FailImport(w) ==
    /\ At(w, "fail")
    /\ UpdatePackage(w, Candidate(w, "failed", SuccessfulOutcomes(wk[w].outs), wk[w].prog),
                     To(wk[w], "report"), IdleCall)
    /\ UNCHANGED <<own, providerVars, waiting, claiming, marks>>

(* The audit event of the terminal state this call wrote. *)
Report(w) ==
    /\ At(w, "report")
    /\ \/ reported' = (reported \/ receipt.at = wk[w].at) /\ UNCHANGED faults
       \/ Fault("audit") /\ UNCHANGED reported
    /\ Go(w, IdleCall)
    /\ UNCHANGED <<receipt, leaseExpired, own, providerVars, waiting, claiming, marks>>

--------------------------------------------------------------------------------
(* The environment. *)

Crash(w) ==
    /\ ~At(w, "idle")
    /\ Fault("crash")
    /\ Go(w, IdleCall)
    /\ IF wk[w].pc \in {"regAudit", "rollback", "lockError", "ownership", "cleanup"}
       THEN Befell(Current(w), "crash") ELSE UNCHANGED marks
    /\ UNCHANGED <<receipt, leaseExpired, reported, own, providerVars, waiting, claiming>>

(* Some call works under the lease of the stored receipt. *)
LeaseHeld == \E w \in Worker : /\ wk[w].pc \notin {"idle", "resume", "report"}
                               /\ wk[w].at = receipt.at

(* Five minutes without an update.  A running call updates the receipt far *)
(* more often, unless it stalls.                                           *)
LeaseExpires ==
    /\ receipt.status = "processing"
    /\ ~leaseExpired
    /\ (~LeaseHeld /\ UNCHANGED faults) \/ Fault("stall")
    /\ leaseExpired' = TRUE
    /\ UNCHANGED <<receipt, reported, own, providerVars, waiting, claiming, marks, wk>>

(* Guard.ClaimResourceOwnership by an administrator: the store operation,  *)
(* then its audit event.                                                   *)
ClaimOwnership(r) ==
    /\ own[r].state = "locked"
    /\ Fault("claim")
    /\ own' = [own EXCEPT ![r].state = "claimed"]
    /\ claiming' = claiming \cup {r}
    /\ Befell(r, "claim")
    /\ UNCHANGED <<receipt, leaseExpired, reported, providerVars, waiting, wk>>

(* A claim whose audit fails is rolled back, unless that fails as well.    *)
AuditClaim(r) ==
    /\ r \in claiming
    /\ claiming' = claiming \ {r}
    /\ \/ UNCHANGED <<own, faults>>
       \/ Fault("audit") /\ own' = [own EXCEPT ![r].state = "locked"]
    /\ UNCHANGED <<receipt, leaseExpired, reported, providerVars, waiting, marks, wk>>

ResolveDependency(r) ==
    /\ r \in waiting
    /\ waiting' = waiting \ {r}
    /\ UNCHANGED <<receipt, leaseExpired, reported, own, providerVars, claiming, marks, faults, wk>>

LoseDependency(r) ==
    /\ r \in Blocked \ waiting
    /\ Fault("unlink")
    /\ waiting' = waiting \cup {r}
    /\ UNCHANGED <<receipt, leaseExpired, reported, own, providerVars, claiming, marks, wk>>

Work(w) ==
    \/ Resume(w) \/ Preflight(w)
    \/ SkipRecord(w) \/ HoldRecord(w) \/ ResumeRecord(w) \/ InspectRecord(w)
    \/ ReserveIntent(w) \/ RegisterOwnership(w) \/ AuditOwnership(w)
    \/ RollbackOwnership(w) \/ ReconcileOwnership(w)
    \/ CheckpointOwnership(w) \/ CleanupOwnership(w)
    \/ ProviderCommits(w) \/ ProviderRefuses(w) \/ ProviderFails(w) \/ LeaseLost(w)
    \/ VerifyCommit(w) \/ CheckpointCommitted(w) \/ ClearIntent(w)
    \/ Compensate(w) \/ CheckpointHolding(w)
    \/ Complete(w) \/ FailImport(w) \/ Report(w)

Start(w) == Reserve(w) \/ Replay(w) \/ ReadReceipt(w)

Next ==
    \/ \E w \in Worker : Start(w) \/ Work(w) \/ Heartbeat(w) \/ Crash(w)
    \/ LeaseExpires
    \/ \E r \in Record : ClaimOwnership(r) \/ AuditClaim(r)
                          \/ ResolveDependency(r) \/ LoseDependency(r)

Spec == Init /\ [][Next]_vars

--------------------------------------------------------------------------------
(* What the import promises. *)

(* A created or unchanged outcome in the receipt is never ahead of the     *)
(* provider: whatever failed or crashed, the exact record is durable.      *)
OutcomesAreDurable ==
    \A r \in Record : Successful(receipt.outcome[r]) => stored[r]

(* What a set of outcomes and the recovery state beside it may claim about *)
(* the providers' records st and this package's writes wr.                 *)
Justified(outs, prog, st, wr) ==
    \A r \in Record :
        /\ Successful(outs[r]) => st[r]
        /\ outs[r].status = "created" => wr[r]
        /\ prog[r].expected /\ st[r] => wr[r]

(* The inductive strengthening of OutcomesAreDurable and CreatedWasWritten: *)
(* the receipt and every running call are justified, and a call that is     *)
(* about to checkpoint a commit has one to show.                            *)
AttributionInv ==
    /\ Justified(receipt.outcome, receipt.progress, stored, wrote)
    /\ \A w \in Worker :
          /\ Justified(wk[w].outs, wk[w].prog, stored, wrote)
          /\ wk[w].pc = "commit" => wk[w].i \in DOMAIN Order /\ stored[Current(w)]

(* "created means the target provider created the exact record": the       *)
(* receipt never claims a creation that this package did not perform.      *)
CreatedWasWritten ==
    \A r \in Record : receipt.outcome[r].status = "created" => wrote[r]

(* The other half of the attribution: a record that this package wrote is  *)
(* never reported unchanged or holding, not even after a crash between the *)
(* provider's commit and the receipt's checkpoint.                         *)
WritesAreAttributed ==
    \A r \in Record : receipt.outcome[r].status \in {"unchanged", "holding"} => ~wrote[r]

(* At most one call works under the lease of the stored receipt: a call    *)
(* whose lease was taken over can no longer change it.                     *)
OneLeaseHolder ==
    \A v, w \in Worker :
        /\ wk[v].pc \notin {"idle", "resume", "report"}
        /\ wk[w].pc \notin {"idle", "resume", "report"}
        /\ wk[v].at = receipt.at
        /\ wk[w].at = receipt.at
        => v = w

(* Its inductive strengthening: no call holds a token from the future. *)
LeaseInv ==
    /\ receipt.status = "absent" => receipt.at = 0
    /\ \A w \in Worker : wk[w].at <= receipt.at
    /\ OneLeaseHolder

(* A receipt that reports a record write-locked is backed by Guard: the    *)
(* lock is there, or an administrator claimed it.  Nothing checks the      *)
(* lease between the provider's answer and the compensation, so a call     *)
(* that has lost it may delete the lock that its successor works under;    *)
(* no other step of any call, and no fault, takes a reported lock away.    *)
ReportedLockExists ==
    \A r \in Record :
        receipt.outcome[r].locked /\ "stale" \notin marks[r] =>
            own[r].state \in {"locked", "claimed"}

(* No phantom fence: once an import has ended, a lock that this package    *)
(* created on a record the provider does not hold is still in the          *)
(* receipt's recovery state, from which a retry can compensate it.  The    *)
(* receipt learns of a lock one step after Guard made it, so a crash in    *)
(* between, a Guard failure or a claim that was taken back may leave a     *)
(* lock that no receipt knows; no other fault, and no race of two calls    *)
(* for the lease, does.                                                    *)
NoPhantomFence ==
    /\ receipt.status \in {"failed", "holding", "completed"}
    /\ \A w \in Worker : wk[w].pc = "idle"
    => \A r \in Record :
          /\ own[r].state = "locked" /\ own[r].stamp > 0
          /\ ~stored[r]
          /\ marks[r] \subseteq {"stale"}
          => receipt.progress[r].phase # "none"

(* A completed receipt leaves no committed write without its provider      *)
(* audit event: the intent is cleared only after the repair.               *)
CompletedIsAudited ==
    receipt.status = "completed" =>
        \A r \in Record : receipt.outcome[r].status = "created" => provAudited[r]

(* An administrator's claim is final: no registration, rollback, cleanup   *)
(* or compensation of any call re-locks or deletes it, and Guard itself    *)
(* takes it back only while its audit event is not delivered.              *)
ClaimIsFinal ==
    [][\A r \in Record : own[r].state = "claimed" =>
           own'[r] = own[r] \/ (r \in claiming /\ own'[r].state = "locked")]_own

(* A lock that existed before this package is never deleted by its         *)
(* compensation, whatever crashes, stalls and takeovers happen; only after *)
(* a Guard failure does a call take an existing lock for its own.          *)
ExistingLockIsKept ==
    [][\A r \in Record :
           own[r].stamp = 0 /\ own[r].state # "free" /\ "guard" \notin marks[r] =>
               own'[r].state # "free"]_own

(* A durable outcome survives every later failure, retry and takeover.     *)
OutcomesArePermanent ==
    [][\A r \in Record : Successful(receipt.outcome[r]) =>
                            receipt'.outcome[r] = receipt.outcome[r]]_receipt

(* A failed or holding receipt is re-opened only after its audit event is  *)
(* delivered, so the audit log has no gap however deliveries fail.         *)
ReopenedAfterReport ==
    [][receipt.status \in {"failed", "holding"} /\ receipt'.status = "processing"
            => reported]_receipt

(* The caller keeps retrying, every call takes its steps, a lease that     *)
(* nobody renews expires and missing dependencies are resolved.            *)
Fairness ==
    /\ \A w \in Worker : WF_vars(Work(w)) /\ WF_vars(Reserve(w) \/ ReadReceipt(w))
    /\ WF_vars(LeaseExpires)
    /\ \A r \in Record : WF_vars(ResolveDependency(r))

FairSpec == Spec /\ Fairness

(* Every receipt recovers: once the failures stop, retries complete it.    *)
ImportCompletes == <>(receipt.status = "completed")
================================================================================
