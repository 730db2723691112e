# StewardMesh: TLA+ models, model checks and proofs

StewardMesh is an asset-stewardship server written in Go. A process hosts some
twenty services behind HTTP, gRPC and MCP interfaces. Each service keeps its
records in a store (in memory or PostgreSQL) whose operations are atomic; an
operation of a service is a *sequence* of such store operations, of calls to
other services or external providers, and of deliveries to the audit log. No
transaction spans two of them. The hard part of this system is therefore what
happens between two steps of one operation: a crash, a failing step, a lease
that runs out, or another call.

This project models the operations where that matters: the import of an
Exchange package, the delivery of a message by Reach on behalf of Signals, the
evaluation of Signals rules, the grants and confirmed writes of Bridge, the
import of a directory, the checkout of assets, and the roles of Guard. TLC
checks the models on small instances; TLAPS proves their safety properties for
every instance. Where the code breaks a promise in a corner, the property names
that corner and holds everywhere else.

## 1. Inventory

| Component | State | Operations | What is hard | What makes it correct |
|---|---|---|---|---|
| **Exchange import** (`internal/exchange`) | durable receipt per package: status, outcomes, progress, `UpdatedAt` token | `Import`, retry, takeover after `processingLease` | crash between any two steps; ambiguous provider answers; two calls on one package; compensation of locks | outcomes never ahead of the providers; attribution survives retries; one lease holder; no lock without a record |
| **Guard** (`internal/guard`) | accounts, sessions, roles, assignments, ownership locks | bootstrap, sign-in of external accounts, create and assign roles, revoke; ownership registration and claim | audit rollback racing other calls; the last administrator; claims racing an import | a claim is final; an existing lock is never removed; somebody can manage the organization; the audit trail tells who has which role |
| **Reach** (`internal/reach`) | messages with a delivery claim, attempts, providers, groups | `Send`, `Retry`, `ProcessSignals` | a claim outlived by its call; message read before it is claimed; a provider call cannot be undone | one call per attempt; delivered is final; eight attempts; every delivery ends |
| **Signals** (`internal/signals`) | rules, alerts with history, subscriptions, deliveries | `Evaluate`, acknowledge, assign, rules, subscriptions; `ListPendingDeliveries`, `RecordDeliveryAttempt` | an alert is read, then written; alert and deliveries are separate writes; Signals and Reach persist separately | no write is lost; the history tells what happened; a new alert is announced; Signals and Reach agree on how a delivery ended |
| **Directory expansion** (`internal/directoryexpansion`) | import batches, items, attempts, mappings, lease | `Preview`, `Apply`, `Retry` | target written before the mapping; compensation after lease loss; two idempotency keys on one batch | what a mapping names is not taken away; a settled item stays settled; a batch settles, and with its whole plan |
| **People** (`internal/people`) | identities, places, assignments, checkout groups, bulk checkouts | assignment with overlap policy, return, group and bulk checkout | overlap check and write are separate; bulk rollback | exclusive roles; overlaps are warned of; a group keeps its holders; a bulk checkout is whole or gone |
| **Bridge** (`internal/bridge`) | OAuth clients, requests with codes, grants, confirmations | consent, code exchange, refresh rotation, revocation, prepare and confirm a write | record read in one step, decided in the next; token consumed before the effect | a code, token or confirmation is used once; a refresh does not prolong a session; a confirmed write does what was shown |
| **Labels, Threads** | trees of definitions, tags, goals | create, update, delete | cycle check by reads before the write | the parent relation stays acyclic |
| **Vault** (`internal/storage`) | blob metadata and objects | create, import, download authorization | two stores, one operation (the object is written first) | metadata names an object with its digest |
| **Cache**, login limiter | bounded key-value entries with expiry | get, set, increment | expiry and capacity | failures within a window are counted |
| **Atlas, Catalog, Ledger, Horizon, Stack, Patterns** | domain records | single-record writes with revision check | little: one atomic store operation each | optimistic revision; reached by Exchange as providers |
| **Mesh** | none | derived graph reads | – | – |
| **Interfaces, wiring, commands, web client** | none of their own | decoding, authorization, construction | – | – |

Interactions: Exchange calls Guard (ownership) and, through a provider
interface, every domain service; Reach pulls deliveries from Signals and
reports back; Bridge calls Signals; Directory expansion and Exchange both write
People and Guard; every service writes the audit log, and the failure of an
audit is an error of the operation that the caller sees *after* the state has
changed.

`PROJECT.json` lists the components with their sources and the hazards at their
lines, each with the properties that would catch it going wrong.

## 2. Modules

| Module | Models |
|---|---|
| `ExchangeReceipt` | the receipt record and the rules that the store enforces on it (`Package.Validate`, `ValidateTransitionFrom` of `exchange/contracts.go`) |
| `ExchangeImport` | `Service.Import` of `exchange/service.go`, the receipt store, Guard's ownership entries, `ImportRecord` of the providers; extends `ExchangeReceipt` |
| `ReachDelivery` | message, claim and attempt log of `reach/service.go`, the delivery record of `signals/service.go`, the calls `Send`, `Retry`, `ProcessSignals`, and the attempts that the REST interface of Signals records |
| `AlertRecord` | the row and the history entry of an alert, and what each operation makes of a row |
| `AlertLifecycle` | the abstract specification of an alert: every operation acts at once on the alert as it is |
| `SignalsAlerts` | rules, `Evaluate`, acknowledge, assign, subscriptions and deliveries of `signals/service.go`; implements `AlertLifecycle` |
| `BridgeAccess` | `bridge/service.go` and the confirmed write of `bridge/mcp.go`, composed with `AlertLifecycle` for its Signals |
| `DirectoryImport` | `Preview`, `Apply`, `Retry` of `directoryexpansion/importer.go` with the target of `people_target.go` |
| `AssetCheckout` | assignments, returns, group and bulk checkouts of `people/service.go` and `people/checkout.go` |
| `GuardRoles` | bootstrap, external sign-in, roles and assignments of `guard/service.go` |
| `MC…` | instances: values of constants that a configuration cannot write, and symmetry |
| `…Proofs` | section 5 |

Some definitions are preceded by a variant of themselves that no specification
uses (`NeverAbandoned` before `Abandoned`, `SaveUnfenced` before `SaveItem`):
a plausible mistake in that definition. `PROJECT.json` ("mutants") names for each
property one such variant under which TLC finds the property violated.

### 2.1 Exchange import

One step is one call that leaves the process. Between two steps a worker's
state is private (`wk[w]`: `outs` is `outcomesByKey`, `prog` is
`pending.Progress`, `at` is `pending.UpdatedAt`, `reg` is the ownership value
that Guard returned).

| Action | Code |
|---|---|
| `Reserve`, `Replay`, `ReadReceipt`, `Resume` | the head of `Import`: reserve a new receipt, replay a completed one, resume a failed or expired one |
| `Preflight` | `preflightImport`, `missingDependencies` |
| `SkipRecord`, `HoldRecord`, `ResumeRecord`, `InspectRecord` | the head of the record loop |
| `ReserveIntent` | the intent checkpoint before any effect |
| `RegisterOwnership`, `AuditOwnership`, `RollbackOwnership`, `ReconcileOwnership` | `RegisterImportedResourceOwnership` with its audit rollback, and the read that resolves its errors |
| `CheckpointOwnership`, `CleanupOwnership` | the ownership checkpoint and the removal of a lock whose checkpoint failed |
| `ProviderCommits`, `ProviderRefuses`, `ProviderFails`, `Heartbeat`, `LeaseLost`, `VerifyCommit` | the provider call under a heartbeat, and the exact read after an ambiguous error |
| `CheckpointCommitted`, `ClearIntent`, `Compensate`, `CheckpointHolding` | the end of one record |
| `Complete`, `FailImport`, `Report` | the terminal write and its audit |
| `ClaimOwnership`, `AuditClaim` | Guard's `ClaimResourceOwnership` by an administrator |
| `Crash`, `LeaseExpires`, `ResolveDependency`, `LoseDependency` | the environment |

The heart of the protocol is one compare-and-set: `UpdatePackage` accepts a new
receipt only if the caller's `UpdatedAt` is the stored one and the transition is
valid (`ValidTransition`). The lease is a token, not a lock: a call that has lost
it keeps running until its next write to the receipt, and its writes to Guard
and to the providers are *not* fenced.

`marks[r]` is a history variable: what befell the lock of a record. "guard": a
Guard operation on it failed without effect; "crash": a call died before it had
recorded the lock it created; "claim": an administrator claimed it; "stale": a
call deleted it after it had lost the lease. No action reads it. The properties
about locks name their exceptions with it, so that the runs exclude no fault.

The providers (`exchange/providers*.go` and the services behind them) differ in
data and agree in control: an expected replay compares and writes nothing, an
expected creation needs its references, writes or finds the exact record and
then delivers its audit event, and an error says or hides whether the write
happened. What one of them may do, the model may do: Atlas looks at the
references of an asset before it looks for the asset, so a record that is there
may be refused, too.

Abstractions. A heartbeat on a live lease outside the provider call, a call that
meets a live lease, and a replay whose repair audit fails change nothing and are
left out. A cancelled request is one of the faults "provider", "store" or
"crash" at that step. In Go, slices of progress may be shared between the
pending and the stored value; a failing store may thus see progress early, which
the fault "store" already allows because the call ends there. The failing audit
of a claim and its rollback are one step. A provider missing for a record type
is refused at preflight ("schema"). The version of the receipt stands for its
timestamp: `nextUpdatedAt` makes timestamps strictly increasing.

### 2.2 Reach delivery

A call is a sequence of steps, one per access to a store or a provider. The
claim token of a message is the id of its caller: every caller runs one call at
a time and a new call never meets its own old token in a state in which the code
would tell them apart. Clocks are flags: `stale` (the claim is older than two
minutes) and `wait` (the next attempt lies in the future).

| Action | Code |
|---|---|
| `Send`, `Retry` | `Service.Send` and `Service.Retry` up to the dispatch; a repeated Send with the same key returns the stored message and is a stutter |
| `RecordSignalDeliveryAttempt` | `POST /api/v1/signals/deliveries/{deliveryID}/attempts`: a client reports any result for any delivery, without Reach |
| `ProcessSignals`, `Continue` | the batch loop over `ListPendingDeliveries` |
| `FindMissing`, `ReportExisting`, `Redispatch`, `CreateRouted`, `CreateUnrouted`, `FindUnrouted`, `CreateConflict` | `processSignal` and the store's `CreateMessage` |
| `ClaimUndeliverable`, `RecordUndeliverable` | `recordUndeliverableSignal` |
| `Claim`, `ClaimConflict`, `ProviderMissing`, `LocalResult`, `CallProvider`, `Record`, `RecordConflict` | `dispatch`: `ClaimMessage`, the provider call or the decision not to make it, `RecordAttempt` |
| `ReadDelivery`, `UpdateDelivery`, `UpdateConflict`, `DeleteSubscription` | `RecordDeliveryAttempt` and the Signals store |
| `ClaimExpires`, `MessageDue`, `DeliveryDue`, `ChangeRoute`, `Abort` | clocks, changes of groups and providers, and calls that end early |

`Abort` is a crash, a store or audit error, or a cancelled request: everything
stored so far stays. Whether a takeover recovers an unknown outcome is decided
when the message is *read*, as in `dispatch`. Reach and Signals compute their
retry times from two clock readings; the model relates the two not at all, which
allows more than the code does. The capacity of 10 000 messages (an error, hence
an `Abort`) and the batch limit are left out.

`marks[m]` is a history variable that no action reads: what befell a message.
"overran": its claim turned stale under a call at work; "blind": a stale claim
was taken over by a call that had read the message before it turned stale;
"adopted": `ProcessSignals` dispatched a terminal message that it was about to
create; "outside": a REST client recorded an attempt of its delivery. Like
`called` and `resent` (the attempts sent once and twice) it is there for the
properties.

### 2.3 Signals alerts

`AlertLifecycle` is what Signals promises: create, observe, acknowledge, assign,
resolve, each acting at once on the stored alert, counting one revision and
leaving one history entry. `SignalsAlerts` is what the code does: every call
reads an alert in one step and stores a changed copy in another, under the
store's comparison of revisions. `ImplementsLifecycle` is the refinement; its
mapping is the identity on `alert` and `history`.

| Action | Code |
|---|---|
| `CreateRule`, `UpdateRule`, `CreateSubscription`, `DeleteSubscription` | the operations of these names; deleting a subscription deletes its deliveries |
| `BeginEvaluation`, `ObserveCandidates`, `ListActive`, `ListAcknowledged` | the head of `Evaluate`: rules are read once; per rule the candidates, then open alerts in one read per status |
| `GetCandidate`, `CreateAlert`, `RefreshAlert` | `upsertCandidate`: look up, then create or store at the revision read |
| `ListSubscriptions`, `CreateDelivery` | `enqueueDeliveries`, for a new alert only |
| `ResolveAlert`, `FinishRule`, `FinishEvaluation` | the resolution of listed alerts that were not observed, from the row that was listed |
| `BeginAcknowledge`, `Acknowledge`, `BeginAssign`, `Assign` | `Acknowledge`, `Assign`; a call that names another revision than the stored one changes nothing and is left out |
| `ConditionChanges`, `Abort` | the data that rules look at; the end of a call by death, cancellation, or an error of store or audit |

`ForeignKeys = TRUE` is the PostgreSQL store, which refuses a delivery whose
subscription is gone (the evaluation then ends); `FALSE` is the memory store.
Two ghosts: `owed`, the deliveries due when an alert was created, and `cut`, the
alerts whose announcement ended early.

### 2.4 Bridge access

| Action | Code |
|---|---|
| `CreateClient`, `ImportExchangeClient`, `RevokeClient`, `CommitRevocation` | clients; revocation marks the client and its grants in two statements of one transaction, which see what was committed before each |
| `BeginAuthorization`, `CreateAuthorizationRequest`, `LoadRequest`, `LoadClient`, `DecideConsent` | authorization request and consent; the store decides an undecided request only |
| `BeginCode`, `BeginRefresh`, `FindClient`, `ExchangeAuthorizationCode`, `RotateRefreshToken` | token endpoint: the clock is read first; the statement that consumes code or token joins the client as it was when it started; the new grant is committed later |
| `RevokeGrant`, `RevokeToken` | revocation by the administrator or the holder |
| `PrepareAcknowledge`, `PrepareConfirmation`, `ConfirmAcknowledge`, `ConsumeConfirmation`, `AcknowledgeConfirmed` | the two-call write of `bridge/mcp.go` |
| `Tick`, `OthersWork`, `Abort` | the clock; any step of `AlertLifecycle`; early ends |

The composition takes Signals at its word: `OthersWork` is the next-state relation of
`AlertLifecycle`, which section 5 proves `SignalsAlerts` to implement. Secrets
are unguessable: a code or token is presented only together with the record it
belongs to. The confirmation is consumed before the alert is acknowledged, so a
failure in between spends it; that is in the model and breaks no property.

The two stores differ here. The memory store checks the client and stores the
grant under one lock. PostgreSQL (READ COMMITTED, no lock on the client) does
not, and the model follows it; the memory store's executions are those in which
nothing comes between the steps. A grant may therefore be stored for a client
that was just revoked. It is of no use: authentication, exchange and rotation
each look at the client again.

### 2.5 Directory import

| Action | Code |
|---|---|
| `Preview`, `PreviewFails` | `Preview`, `persistFailedPreview` |
| `Check` | the head of `run`: `exactReplay`, the reads of batch and attempt, and their refusals, merged into one read |
| `Begin` | `BeginOperation`: lease and attempt |
| `RetryPreview`, `RetryPreviewFails`, `FinishPreviewRetry` | the retry of a failed preview |
| `NextItem`, `ApplyTarget`, `Reconcile`, `Create`, `Register`, `RegisterFails`, `TargetFails` | the item loop and `PeopleTarget.Apply` |
| `SaveItem`, `SaveFails`, `Verify`, `Compensate`, `DeleteIdentity`, `DeleteOwnership` | the save of item and mapping under the lease, and what follows an error of it |
| `Finish`, `Crash` | counting and `FinishOperation`; the end of a call anywhere |
| `Expire`, `Stall`, `Claim`, `Edit` | the lease runs out over a finished or under a running call; an administrator claims and edits |

Every target failure that is not a conflict is retryable; permanent failures,
the managed-groups target and the connectors are left out. The lease of two
minutes covers a whole batch of up to 5000 items and is never renewed, so `Stall`
may let it run out under a call at any step, also while the call undoes a write.
`AttemptsById` names a difference of the stores: `FinishOperation` of PostgreSQL
stores nothing for an attempt it does not know, the memory store finishes the
batch and the idempotency key. The runs use the former.

### 2.6 Asset checkout

| Action | Code |
|---|---|
| `CreateAssetAssignment`, `NextAsset` | `CreateAssetAssignment` up to the decision that the overlapping assignments call for: warn, replace, group, proceed |
| `FormGroup`, `JoinGroup`, `EndOverlap`, `StoreAssignment` | `assignAsGroupCheckout`, `replaceOverlappingCheckouts` and the store, one step per store operation |
| `CreateBulkCheckout`, `FinishBulk`, `DeleteBulkCheckout` | the bulk loop and its rollback |
| `EndAssetAssignment`, `OperatorFormsGroup`, `Abort` | returns, groups made by an operator, calls that fail or die |

The code makes weaker promises here than a reader may expect, and the model has
them as they are. The rollback of a bulk checkout deletes its assignments, and
what these had replaced stays ended. A responsible department counts among the
overlapping checkouts and is ended by "replace" and "group". A group checkout
may return an assignment that was returned or rolled back meanwhile. A
reservation that is returned after its end is longer than it was.

### 2.7 Guard roles

| Action | Code |
|---|---|
| `Bootstrap`, `SignIn` | the first administrator; `ProvisionExternalAccount` with the claims of a sign-in, possible only after the bootstrap (`httpapi/server.go:2138`, `:2240`) |
| `BeginAssign`, `CreateRoleAssignment`, `AuditAssign`, `UndoAssign` | `AssignRole` |
| `BeginRevoke`, `DeleteRoleAssignment`, `AuditRevoke`, `UndoRevoke` | `RevokeRoleAssignment` |
| `BeginRole`, `CreateRole`, `AuditRole`, `UndoRole` | `CreateRole` |
| `Die` | the end of a call between two store operations |

`cut` is a ghost: the assignments whose call died or whose rollback was refused.
A revocation is undone by storing the assignment again under its id, which the
store refuses when an identical assignment has been made meanwhile; the creation
is undone by deleting it, which the store refuses when it grants the last
manager. No operation of the service disables an account, so all are active.

## 3. Runs that pass

| Run | Instance | Properties |
|---|---|---|
| `exchange_crash` | one worker, two records with a dependency and a blocked record, three faults of any kind except stall and claim | `OutcomesAreDurable`, `CreatedWasWritten`, `WritesAreAttributed`, `CompletedIsAudited`, `ReopenedAfterReport` |
| `exchange_recovery` | two workers, one record that may be locked before, two faults of every kind, fair | `OneLeaseHolder`, `ReportedLockExists`, `NoPhantomFence`, `ImportCompletes`, `OutcomesArePermanent`, `ClaimIsFinal`, `ExistingLockIsKept` |
| `reach_workers` | two callers, each of any kind, a delivery whose target may vanish and come back, a message sent by hand, two events from outside (a request, an early end, a change of target, a deletion); calls may outlive claims | `LogAgrees`, `DeliveredWasCalled`, `OneCallPerAttempt`, `CallsUnderClaim`, `SignalsDelivered`, `GivenUpAfterFailure`, `AttemptsBounded`, `DeliveredIsFinal` |
| `signals_alerts` | one rule with one target, two subscriptions, two evaluations, an operator, one early end | `HistoryAgrees`, `EvaluationIsExact`, `AnnouncedUnlessCut`, `ImplementsLifecycle` |
| `bridge_access` | one client and request, three grants, two confirmations, one alert, two callers, a clock past every lifetime | `GrantsHaveConsent`, `OneLiveGrant`, `SessionIsBounded`, `ConfirmedAsPrepared` |
| `directory_import` | an identity to create and one to update, two calls, three attempts, two faults, fair | `HolderKeepsMapped`, `OutcomeIsFinal`, `BatchSettles` |
| `asset_checkout` | two assets, two people, two callers, one group, one bulk, six kinds of request, one fault | `OneActiveRole`, `UnwarnedOverlapsRaced`, `GroupKeepsHolders`, `BulkIsWhole` |
| `guard_roles` | the first administrator, one external account, one custom role, three assignments, two callers, two faults | `AuditAgrees`, `LockedOutByProviderOnly` |

What they show.

* Exchange: the receipt never runs ahead of the providers and never credits
  this package with a record that it did not write, whatever fails. The token
  admits one working call. A reported lock is there unless a call that had lost
  its lease deleted it; a lock of a failed import is undone or remembered unless
  Guard failed on it, it was claimed, or a call died before it had recorded it;
  a lock that was there before is kept unless Guard failed on it. An import that
  is retried completes.
* Reach: the log, the counter and the status agree always. No attempt is sent
  twice but by a blind takeover, which an overrun call or a slow reader makes
  possible. A delivered message is not reopened, and the limit holds, but for
  the message that a second `ProcessSignals` call has settled between the first
  one's `GetMessage` and `CreateMessage`. Signals says delivered only if Reach
  does or a REST client said so. Signals counts reports, not attempts: when two
  calls report one attempt, Signals may reach its own limit before Reach, and
  `GivenUpAfterFailure` speaks only of deliveries given up before that.
* Signals: the comparison of revisions is enough for every write to act on the
  alert as it is. A new alert is announced to everyone unless its evaluation is
  cut short; then nobody makes up for it, since only a new alert is announced.
* Bridge: the store's checks, not the reads before them, carry the protocol.
  Races of consent, exchange and rotation neither revive nor multiply a grant,
  and a confirmed write acts on the revision it was prepared for.
* Directory: fencing the save by the lease token keeps outcomes consistent, and
  a call that has the token never takes away what a mapping names, however
  saves, registrations and verifications fail. The undo of a call that has lost
  the lease may (section 4).
* Checkout: the exclusive roles hold because the store enforces them; overlaps
  without a warning need a race, and the service does not notice these.
* Guard: the check for the last manager inside the store's deletion stands up to
  managers who revoke each other, and to rollbacks.

Bounds. `MaxFaults` of one to three lets a failure, the failure of its repair,
and one more happen. `MaxUpdates` caps the versions of the receipt (one import of two records needs
at most a dozen); in `exchange_recovery` it is above what two faults can use up,
so that it never stops the retry; the same run with three faults
(1.5 million states) also passes and takes longer than five minutes. Two workers are the case of a takeover; a
third would have to take over again from the second. Two records are enough for
a dependency. Reach's `MaximumAttempts` is 2 instead of 8: an attempt that leaves
another one, and the last. `reach_stuck` has two deliveries, one behind the other. In `signals_alerts`, four calls and four changes
(`MaxCalls`, `MaxChanges`) let an alert open, resolve and reopen while an operator acts; alerts of different keys meet only in the
loops over them. Three grants are an exchange and two rotations; with lifetimes
of 1 and 2 and a clock up to 2, each lifetime can end before the next step. Two
confirmations can compete for one revision. Three attempts of a directory batch
are its preview, an Apply and a Retry; `MaxRevision` lets an administrator edit
once. `asset_checkout` bounds requests to six kinds (`Requests` of
`MCAssetCheckout`), three calls and three assignments: what is there, what
meets it, and what races. Three assignments of roles are two managers and one
more. Symmetry permutes concurrent calls and interchangeable records, is used
only in runs without liveness properties, and is sound since nothing
distinguishes them.

Deadlock is not checked: callers may simply stop calling, and bounded numbers
of updates, calls and revisions end the behaviours.

Fairness. `FairSpec` of `ExchangeImport`: a running call proceeds (the Go
scheduler), a caller retries an unfinished import, a lease that nobody renews
expires, and an outside dependency is resolved. Without the last three, no code can
finish an import. `FairSpec` of `ReachDelivery`, which `reach_stuck` uses: somebody
keeps calling `ProcessSignals`, calls proceed and the clocks advance; `ClaimExpires`
is strongly fair because a claim ages whether or not calls run into it. With
all that, the delivery of that run never ends. `FairSpec` of `DirectoryImport`: a running call proceeds,
a lease whose call is over expires, and a caller who got no answer repeats the
request under its key, as the idempotency keys of the interface ask for.

## 4. Disagreements

Four runs check one property each that the documentation or a comment states and
the code breaks; the finding in `PROJECT.json` quotes the line.

| Run | What happens |
|---|---|
| `directory_skipped` (`AppliedIsComplete`) | an Apply dies after one item failed and before the next was executed; a Retry under its own key handles the failed item and reports the batch as applied, and nothing executes the other item any more (`importer.go:262`) |
| `directory_undo` (`MappedTargetIsOwned`) | the lease of the batch runs out while a call rolls back an identity whose registration failed, or compensates one whose save failed; the call that took over adopts and maps the identity, and the rollback, which looks at no lease, deletes it (`people_target.go:130`, `importer.go:373`), which the comment at `importer.go:357` means to avoid |
| `guard_lockout` (`NoLockout`) | once the local administrator was revoked beside an external one, a sign-in of the external account without its claim removes the last manager: provisioning deletes the assignment without the check that a revocation makes (`memory_guard.go:236`, `postgres/guard.go:299`) |
| `reach_stuck` (`DeliveriesEnd`) | a call ends while it records an undeliverable delivery; the queued message it leaves names no provider, every later `ProcessSignals` claims it, fails at `GetProvider` and ends its batch there (`reach/service.go:495`), although `reach.md:44` says that such targets "cannot loop forever" |

Other properties state a promise together with the corner in which the code
breaks it. Each exception is needed: without it, TLC finds the counterexample (for
the marks "guard" and "claim" with four faults and one worker, for
`AttemptsBounded` with a third caller).

| Property | Exception | What happens there |
|---|---|---|
| `NoPhantomFence` | "crash" | a call dies between Guard's registration and the ownership checkpoint; the retry believes that the lock was there before, and a refused record keeps it (`exchange/service.go:424`), although `exchange.md:288` says that "a newly created lock is compensated" |
| `NoPhantomFence` | "guard" | audit, rollback and lookup of a new lock fail; the retry takes the lock for an existing one and drops its intent when the checkpoint is refused (`exchange/service.go:473`) |
| `NoPhantomFence` | "claim" | an administrator claims a lock between its failed audit and its rollback; the import drops its intent since the lock is not locked, then the claim's own audit fails and Guard locks the entry again |
| `ExistingLockIsKept` | "guard" | after a Guard error, a lock that existed before the package is taken for the package's own, and compensated (`exchange/service.go:445`), although `exchange.md:291` says that an existing record "is never deleted" |
| `ReportedLockExists` | "stale" | a call that has lost its lease cleans up a lock on which its successor relies (`exchange/service.go:473`) |
| `OneCallPerAttempt` | "blind" | a claim that turns stale between read and claim is taken over without being recognised, and the attempt is sent twice (`reach/service.go:484`); `reach.md:46` says "without resending", the comment at `:503` "Never resend automatically" |
| `CallsUnderClaim` | "overran" | a call outlives its claim of two minutes: its claim is stale, then another's |
| `DeliveredIsFinal`, `AttemptsBounded` | "adopted" | of two `ProcessSignals` calls that find no message, the slower one dispatches what the faster one has settled (`reach/service.go:647`), and may count an attempt beyond the limit; `reach.md:46` says that this "cannot reopen a delivered message or exceed the cap" |
| `SignalsDelivered`, `GivenUpAfterFailure` | "outside" | a client of the REST interface reports what Reach has not done |

Two properties of `exchange_crash` need its one worker and no claim:

| Property | Fails with | What happens |
|---|---|---|
| `WritesAreAttributed` | faults "crash" and "claim" | an administrator claims the lock between a crash and the retry; the ownership checkpoint is refused, the intent dropped, and the next retry reports the package's own write as unchanged (`exchange/service.go:464`) |
| `CompletedIsAudited` | fault "claim" | the same claim keeps a failed provider audit from being repaired |
| `WritesAreAttributed`, `CompletedIsAudited` | two workers, "stall" | after a stale cleanup as above, the successor's state no longer agrees with Guard, its checkpoint is refused and its intent dropped |

The directory model shows three more behaviours that no property forbids: a
claim between the read of the ownership and the reconciliation of the identity
(`people_target.go:86`, `:107`) is overwritten; an identity found by
`CreateIdentity` to exist is a conflict that no retry takes up, although the
comment there says that the next retry will verify it; and a retry of a preview
that was overtaken can set an applied batch back to "previewed".

## 5. Proofs

All theorems hold for arbitrary sets of records, workers, messages, callers and
so on, and for any bounds. They rest on the named assumptions of the models
(`OrderAssumption`, `DepsAssumption`, `ReachAssumption`, `SignalsAssumption`,
`BridgeAssumption`, `GuardAssumption`, `CheckoutAssumption`,
`DirectoryAssumption`, ...), which say what kind of value each constant is.
`TypeOK` of every model is proved and not part of a run. Only `AccountInvariant` and
its consequences assume more: one worker and `"claim" \notin Faults`, that is,
import calls of a package do not overlap (they may crash, stall and be retried)
and nobody claims its locks meanwhile. Section 4 shows that they fail without.

**`ExchangeImportProofs`, `ExchangeSafetyProofs`.** `TypeCorrect` proves
`TypeOK`. `SafetyInvariant` proves `SafetyInv == AttributionInv /\ LeaseInv`.

* `AttributionInv`: every outcome and progress entry, in the stored receipt *and*
  in the private state of every call, is justified by what the providers hold
  and by who wrote it. `OutcomesAreDurable` and `CreatedWasWritten` speak only
  of the receipt and are not inductive: a checkpoint copies private state into
  it, so the private state must be justified too, and a call at the step
  `commit` must have seen its record stored.
* `LeaseInv`: no private token is ahead of the stored one, an absent receipt has
  no token, and two running calls never hold the same current token. The last is
  `OneLeaseHolder`; the others make a fresh token unique.

From these follow `DurableOutcomes`, `CreatedByThisPackage` and
`SingleLeaseHolder`; `PermanentOutcomes` and `FinalClaims` are action properties
that need `TypeOK` and the transition rules only.

The rest of `ExchangeSafetyProofs` first states once for each action what it does
(`ReserveEffect` ... `CompensateEffect`): how the call moves, whether the receipt
accepted its update, which entry changed. Five more invariants are proved over
these lemmas.

* `ReportInv` gives `ReopeningsAreReported`, for any calls and faults: a running
  call with the current token meets a receipt that is processing, and a call
  that is about to resume a failed or holding receipt under its token has
  delivered its audit event. A receipt written meanwhile has another token, so
  the resumption is refused.
* `StampInv` gives `ExistingLocksAreKept`: whatever a call or the receipt takes
  for a lock of its own has a registration time after the package arrived,
  unless Guard failed on that record. The three places that delete a lock do so
  only for such a lock.
* `AccountInv` gives `AttributedWrites` and `CompletedWritesAreAudited`. `Told` relates what is said of a record (outcome
  and recovery state, of the receipt and of the call) to what happened to it:
  a record that was written is reported created or has an intent that expects
  and is ready for it; a successful outcome has its lock or claim, and the
  recovery state knows which; a created record without recovery state is
  audited. `CallTold` adds what the call knows at each step, among it that it
  knows all the recovery state of the receipt while it waits for Guard. Neither
  property is inductive, nor are they independent: the attribution
  of a write depends on the ownership checkpoint being accepted, which depends
  on the lock being what the call was told.
* `FenceInv` gives `LocksAreCompensated` (`NoPhantomFence`). A lock of the package
  on a record that the provider does not hold is covered: the call that
  registered it is about to checkpoint or to delete it (`Undoes`), or the receipt
  knows it and so does the call that has the token (`Remembers`). `CallFenced`
  says that a lock which a recovery state takes for the package's own can be
  undone from it, and why a refused ownership checkpoint forgets nothing: if
  the call did not create the lock, its recovery state did not claim it. All of
  it speaks of the *clean* records only, those without one of the three marks
  that excuse. The proof of a step fixes the set of records that are clean after
  it: marks are never taken away, so these were clean before, and a step that
  would spoil one of them is not among the cases. The step is then proved for a
  constant set, as if the excused faults did not exist, without assuming that
  they do not.
* `LockInv` gives `ReportedLocksExist` (`ReportedLockExists`), for any number of
  overlapping calls and every fault. `CallLocked` says what a call under the
  current lease knows: the lock it may delete is reported neither by the receipt
  nor by its own outcomes, and the lock it may report is held by Guard. At a
  compensation this needs `AttributionInv`: a reported record is stored, and a
  call compensates only what it has found missing. A deletion leaves the other
  calls alone because none of them has the current token (`LeaseInv`). It speaks
  of the *fresh* records, without the mark "stale", with a set that is fixed for
  the step as above.

**`ReachDeliveryProofs`.** `ReachInvariant` proves `ReachInv`: `TypeOK`, a condition
`CallOK` on each call, `MessageOK` on each message, `DeliveryOK` on each delivery,
and that no two calls are about to send the same attempt (`Alone`), for any number
of `ProcessSignals` calls, operators and REST clients, however long calls take.

* `CallClaim`: a call knows no attempt from the future, and holds a live claim
  until that turns stale under it ("overran"). This gives `ClaimsAreExclusive`.
* `CallSend`, `MessageSent`, `Alone`: an attempt that was sent and is not yet
  recorded is covered by a claim, whoever holds it, so that whoever reads the
  message later meets an abandoned claim and recovers instead of sending. The
  claim may belong to a call that has long taken over; what matters is that
  there is one. The exception is a takeover by a call that read before ("blind").
  This gives `NoAttemptIsResent`, also beside calls that outlive their claims:
  `OneCallPerAttempt` alone is not inductive, since the state does not show what
  the callers are about to do.
* `CallLimit`, `MessageLimit`: a call that dispatches has an attempt left and has
  not read a delivered message, unless `CreateMessage` gave it a terminal one
  ("adopted"). This gives `AttemptsAreBounded` and `DeliveriesAreFinal`.
* `CallReport`, `DeliveryOK`: what `ProcessSignals` reports, the log of Reach has,
  which only grows. This gives `SignalsFollowReach` and `GivingUpFollowsFailure`
  for any number of reporters, since nothing depends on which report comes
  first; a REST client's report is marked "outside".
* `MessageBase` gives `LogsAgree` and `DeliveriesWereCalled`, which have no exception.

**`SignalsAlertsProofs`.** `SignalsInv` says of every
row in the private state of a call that it is not ahead of the stored row and,
if it has the stored revision, *is* the stored row. That is why comparing
revisions suffices: a write that passes the comparison was computed from the
alert as it is, hence is a step of `AlertLifecycle` (`EveryStep`). That gives the
refinement `LifecycleImplemented` (`INSTANCE AlertLifecycle WITH` the stored
alerts and their histories). `HistoriesAgree` is then proved from the steps of the lifecycle alone,
strengthened by what the last entry says of the status. `EvaluationsAreExact`
needs that a call that is alone has stored what it no longer has in `todo`, and
that nobody else resolves or opens. `AlertsAreAnnounced` is strengthened by:
the subscription of an owed delivery matches its alert, so a list of
subscriptions read later contains it.

**`BridgeAccessProofs`.** `BridgeInv` has four independent parts: `TokenInv`
(requests and grants agree; a live grant is the only live one of its consent), `CallInv` (a call works on a record that
exists and a confirmation to be acted on is consumed), `AlertInv` (the history
is as long as the revision), `ActedInv` (`ConfirmedAsPrepared`). A confirmation
acts once because its revision is used up by acting: the history has grown past
it. From `TokenInv` follow `ConsentPrecedesGrant`, `TokensAreUsedOnce`
and `RotationsDoNotExtend`.

**`GuardRolesProofs`.** `GuardInv` adds to `TypeOK` that no two calls undo or
revoke the same assignment, and that an assignment taken out of the store by a
call under way is absent. `AuditTrailAgrees` relates the audit trail to the
store for assignments in the hands of a call too. `ManagerRemains` is an action
property: besides `SignIn`, only `DeleteRoleAssignment`, `UndoAssign` and
`UndoRole` take something away, each under a guard of the store.

**`DirectoryImportProofs`.** `ImportInv` is `TypeOK`, `PlanInv` (the plan is there
whenever a call applies it) and `HolderInv`: what the call that has the lease
token still has to do is not settled. That gives `OutcomesAreFinal`, without
restriction: only the holder of the token saves items. `HoldersKeepMapped` needs
`UndoInv`: a planned creation that is not settled has no mapping, what a call
undoes it has created, and as long as the token is its own, what it is about to
take back is not settled; the lookup after a failed save sees to that, since
nobody else can have stored the item under this token.

**`AssetCheckoutProofs`.** `CheckoutInv` has four parts, for any requests, callers
and failures. `ShapeInv`: what a call has read are stored assignments, and the
people who must be in its group are or are about to join (`HoldersAreKept`).
`OneActiveRole` is inductive beside it: the store compares and replaces in one
step. `WindowInv`: what a call asks for meets nothing that was stored when it
looked and still is, which a return only shortens (`OverlapsAreRaces`).
`BulkInv`: the bulk of a call is open and its own, and each of its assets is
still to do or has its assignment (`BulksAreWhole`).

Each proof has one step per action, and the inductive invariants were checked
with TLC on the instances above before they were proved.

**Only model-checked.** Liveness (`ImportCompletes`, `DeliveriesEnd`,
`BatchSettles`), which is out of the prover's reach, and the counterexamples of
section 4. Every safety property of a passing run is stated by a theorem.

## 6. Not modelled

* Exchange: export, the archive codec, the schema catalogue and the sort itself
  (`TopologicalAssumption` states what the sort returns).
* Reach: creation of providers, templates and groups; the transports.
* Signals: the import of rules and subscriptions by Exchange, which writes one
  record per call.
* Bridge: read-only tools, the limits on rate and concurrency, local sessions.
* Directory expansion: the managed-groups target, the connectors, permanent
  failures.
* People: single-record operations, the import of assignments, the ranking of
  candidates.
* Guard: sessions, login, CSRF and SAML requests, each a single record that one
  store operation creates, reads or consumes; the login limiter.
* Labels and Threads: the check for cycles is a read before a write that the
  store does not repeat. The hazard is listed; the code promises no more.
* The domain services that write one record with a revision check in one store
  operation; `ExchangeImport` has the control of their import.
* PostgreSQL stores as such: they implement the same compare-and-set operations
  as the memory stores; where they differ, a constant says so (`ForeignKeys`,
  `AttemptsById`) or the model has the weaker one (Bridge).
* Interfaces, wiring, generated code and the web client, which make up most of
  the repository's lines, keep no state that these properties are about.

## 7. Plan

1. Stronger forms of the consequences of `AccountInv`: which of them survive
   overlapping calls when the stale call does not compensate.
2. Abstract specifications for the other protocols: a receipt that moves from
   absent to final with each record decided once; a message with an append-only
   list of attempts; a lease as an owner and a generation, implemented by both
   imports.
3. The login limiter over the cache with expiry, and the Vault's pair of stores.
4. Exchange export and topological order as operators against a reference
   definition.
