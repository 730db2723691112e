------------------------- MODULE ExchangeImportProofs --------------------------
(***************************************************************************)
(* Type correctness of the Exchange import, for any workers, records and   *)
(* failures: the lemmas type the helpers the actions are built from, and   *)
(* TypeStep has one step per action.                                       *)
(***************************************************************************)
EXTENDS ExchangeImport, TLAPS

USE OrderAssumption, DepsAssumption, BlockedAssumption, BoundsAssumption

(* The constant values of the model have their types. *)
LEMMA ConstantsTyped ==
    /\ NoOutcome \in Outcome
    /\ HoldingOutcome \in Outcome
    /\ NoProgress \in Progress
    /\ AbsentReceipt \in Receipt
    /\ IdleCall \in CallState
    /\ NoRegistration \in Registration
<1>1. NoOutcome \in Outcome /\ HoldingOutcome \in Outcome
  BY DEF NoOutcome, HoldingOutcome, Outcome, OutcomeStatus
<1>2. NoProgress \in Progress
  BY DEF NoProgress, Progress
<1>3. AbsentReceipt \in Receipt
  BY <1>1, <1>2 DEF AbsentReceipt, Receipt, ReceiptStatus
<1>4. NoRegistration \in Registration
  BY DEF NoRegistration, Registration
<1>5. IdleCall \in CallState
  BY <1>1, <1>2, <1>4 DEF IdleCall, CallState, Steps
<1> QED BY <1>1, <1>2, <1>3, <1>4, <1>5

(* successfulOutcomes returns outcomes. *)
LEMMA SuccessfulOutcomesTyped ==
    ASSUME NEW outs \in [Record -> Outcome]
    PROVE  SuccessfulOutcomes(outs) \in [Record -> Outcome]
BY ConstantsTyped DEF SuccessfulOutcomes

(* A candidate built from typed parts is a receipt. *)
LEMMA CandidateTyped ==
    ASSUME TypeOK, NEW w \in Worker, NEW status \in ReceiptStatus,
           NEW outs \in [Record -> Outcome], NEW prog \in [Record -> Progress]
    PROVE  Candidate(w, status, outs, prog) \in Receipt
BY DEF TypeOK, Candidate, Receipt, CallState

(* The loop of Import only visits records of the archive. *)
LEMMA CurrentTyped ==
    ASSUME TypeOK, NEW w \in Worker, NEW s, InLoop(w, s)
    PROVE  Current(w) \in Record
BY DEF InLoop, Current

(* UpdatePackage leaves every variable it touches typed. *)
LEMMA UpdateTyped ==
    ASSUME TypeOK, NEW w \in Worker, NEW p \in Receipt,
           NEW accepted \in CallState, NEW refused \in CallState,
           UpdatePackage(w, p, accepted, refused)
    PROVE  /\ receipt' \in Receipt
           /\ leaseExpired' \in BOOLEAN
           /\ reported' \in BOOLEAN
           /\ faults' \in Nat
           /\ wk' \in [Worker -> CallState]
<1>1. [accepted EXCEPT !.at = p.at] \in CallState
  BY DEF CallState, Receipt
<1>2. CASE /\ CanUpdate(w, p)
           /\ receipt' = p
           /\ leaseExpired' = FALSE
           /\ reported' = FALSE
           /\ Go(w, [accepted EXCEPT !.at = p.at])
           /\ UNCHANGED faults
  BY <1>1, <1>2 DEF TypeOK, Go
<1>3. CASE /\ ~CanUpdate(w, p)
           /\ Go(w, refused)
           /\ UNCHANGED <<receipt, leaseExpired, reported, faults>>
  BY <1>3 DEF TypeOK, Go
<1>4. CASE /\ Fault("store")
           /\ Go(w, refused)
           /\ UNCHANGED <<receipt, leaseExpired, reported>>
  BY <1>4 DEF TypeOK, Go, Fault
<1> QED BY <1>2, <1>3, <1>4 DEF UpdatePackage

(* So does replacing one call's private state. *)
LEMMA GoTyped ==
    ASSUME TypeOK, NEW w \in Worker, NEW s \in CallState, Go(w, s)
    PROVE  wk' \in [Worker -> CallState]
BY DEF TypeOK, Go

(* Every edit of a call state is a call state. *)
LEMMA CallUpdatesTyped ==
    ASSUME NEW s \in CallState
    PROVE  /\ \A step \in Steps : To(s, step) \in CallState
           /\ \A r \in Record, g \in Progress : WithProgress(s, r, g) \in CallState
           /\ \A r \in Record, o \in Outcome : WithOutcome(s, r, o) \in CallState
           /\ \A e \in {"none", "error", "dependency", "leaseLost"} :
                 WithError(s, e) \in CallState
           /\ \A stamp \in Nat, locked, created \in BOOLEAN :
                 WithRegistration(s, stamp, locked, created) \in CallState
           /\ NextRecord(s) \in CallState
<1>1. \A step \in Steps : To(s, step) \in CallState
  BY DEF To, CallState
<1>2. ASSUME NEW r \in Record, NEW g \in Progress
      PROVE  WithProgress(s, r, g) \in CallState
  <2>1. [s.prog EXCEPT ![r] = g] \in [Record -> Progress]
    BY DEF CallState
  <2> QED BY <2>1 DEF WithProgress, CallState
<1>3. ASSUME NEW r \in Record, NEW o \in Outcome
      PROVE  WithOutcome(s, r, o) \in CallState
  <2>1. [s.outs EXCEPT ![r] = o] \in [Record -> Outcome]
    BY DEF CallState
  <2> QED BY <2>1 DEF WithOutcome, CallState
<1>4. \A e \in {"none", "error", "dependency", "leaseLost"} : WithError(s, e) \in CallState
  BY DEF WithError, CallState
<1>5. ASSUME NEW stamp \in Nat, NEW locked \in BOOLEAN, NEW created \in BOOLEAN
      PROVE  WithRegistration(s, stamp, locked, created) \in CallState
  BY DEF WithRegistration, CallState, Registration
<1>6. NextRecord(s) \in CallState
  <2>1. NoRegistration \in Registration
    BY ConstantsTyped
  <2>2. s.i + 1 \in Nat
    BY DEF CallState
  <2> QED BY <2>1, <2>2 DEF NextRecord, CallState, Steps
<1> QED BY <1>1, <1>2, <1>3, <1>4, <1>5, <1>6

(* The private state of a call is a call state. *)
LEMMA CallTyped ==
    ASSUME TypeOK, NEW w \in Worker
    PROVE  wk[w] \in CallState
BY DEF TypeOK

(* The recovery state of the current record is a progress entry. *)
LEMMA ProgTyped ==
    ASSUME TypeOK, NEW w \in Worker, Current(w) \in Record
    PROVE  Prog(w) \in Progress
BY DEF TypeOK, CallState, Prog

(* failImportResult continues in a call state. *)
LEMMA FailingWithTyped ==
    ASSUME TypeOK, NEW w \in Worker, NEW g \in Progress, Current(w) \in Record
    PROVE  FailingWith(w, g) \in CallState
BY CallTyped, CallUpdatesTyped DEF FailingWith, Steps

(* checkpointImport leaves every variable it touches typed. *)
LEMMA CheckpointTyped ==
    ASSUME TypeOK, NEW w \in Worker,
           NEW outs \in [Record -> Outcome], NEW prog \in [Record -> Progress],
           NEW accepted \in CallState, NEW refused \in CallState,
           Checkpoint(w, outs, prog, accepted, refused)
    PROVE  /\ receipt' \in Receipt
           /\ leaseExpired' \in BOOLEAN
           /\ reported' \in BOOLEAN
           /\ faults' \in Nat
           /\ wk' \in [Worker -> CallState]
<1>1. Candidate(w, "processing", SuccessfulOutcomes(outs), prog) \in Receipt
  BY SuccessfulOutcomesTyped, CandidateTyped DEF ReceiptStatus
<1> QED BY <1>1, UpdateTyped DEF Checkpoint

(* A mark is added to the marks of a record. *)
LEMMA BefellTyped ==
    ASSUME TypeOK, NEW r, NEW mark \in Mark, Befell(r, mark)
    PROVE  marks' \in [Record -> SUBSET Mark]
BY DEF TypeOK, Befell

(* Deleting an ownership leaves an ownership map. *)
LEMMA DeleteTyped ==
    ASSUME TypeOK, NEW w \in Worker, NEW r \in Record, DeleteOwnership(w, r)
    PROVE  own' \in [Record -> Ownership] /\ marks' \in [Record -> SUBSET Mark]
<1>1. own' \in [Record -> Ownership]
  BY DEF TypeOK, DeleteOwnership, Ownership
<1>2. marks' \in [Record -> SUBSET Mark]
  BY BefellTyped DEF TypeOK, DeleteOwnership, Mark
<1> QED BY <1>1, <1>2

(* A provider write leaves the provider state typed. *)
LEMMA WritesTyped ==
    ASSUME TypeOK, NEW r \in Record, NEW audited \in BOOLEAN, ProviderWrites(r, audited)
    PROVE  /\ stored' \in [Record -> BOOLEAN]
           /\ wrote' \in [Record -> BOOLEAN]
           /\ provAudited' \in [Record -> BOOLEAN]
BY DEF TypeOK, ProviderWrites

(* A failure is counted. *)
LEMMA FaultTyped ==
    ASSUME TypeOK, NEW kind, Fault(kind)
    PROVE  faults' \in Nat
BY DEF TypeOK, Fault

--------------------------------------------------------------------------------

(* The initial states are well typed. *)
LEMMA TypeInit == Init => TypeOK
<1> SUFFICES ASSUME Init PROVE TypeOK
  OBVIOUS
<1>1. receipt \in Receipt
  BY ConstantsTyped DEF Init
<1>2. wk \in [Worker -> CallState]
  BY ConstantsTyped DEF Init
<1>3. own \in [Record -> Ownership]
  BY OwnedAssumption DEF Init, Ownership
<1> QED BY <1>1, <1>2, <1>3 DEF Init, TypeOK

(* Every action preserves the types. *)
LEMMA TypeStep == TypeOK /\ [Next]_vars => TypeOK'
<1> SUFFICES ASSUME TypeOK, [Next]_vars PROVE TypeOK'
  OBVIOUS
<1>1. ASSUME NEW w \in Worker, Reserve(w) PROVE TypeOK'
  <2>1. IdleCall \in CallState
    BY ConstantsTyped
  <2>2. [IdleCall EXCEPT !.pc = "preflight", !.at = 1] \in CallState
    BY <2>1 DEF CallState, Steps
  <2>3. receipt' \in Receipt
    BY <1>1 DEF Reserve, TypeOK, Receipt, ReceiptStatus
  <2>4. wk' \in [Worker -> CallState]
    BY <1>1, <2>2, GoTyped DEF Reserve
  <2> QED BY <1>1, <2>3, <2>4 DEF Reserve, TypeOK, providerVars
<1>2. ASSUME NEW w \in Worker, Replay(w) PROVE TypeOK'
  BY <1>2 DEF Replay, TypeOK, providerVars
<1>3. ASSUME NEW w \in Worker, ReadReceipt(w) PROVE TypeOK'
  <2>1. IdleCall \in CallState
    BY ConstantsTyped
  <2>2. receipt.at \in Nat /\ receipt.outcome \in [Record -> Outcome]
                          /\ receipt.progress \in [Record -> Progress]
    BY DEF TypeOK, Receipt
  <2>3. [IdleCall EXCEPT !.pc = "resume", !.at = receipt.at,
                         !.outs = receipt.outcome, !.prog = receipt.progress] \in CallState
    BY <2>1, <2>2 DEF CallState, Steps
  <2>4. wk' \in [Worker -> CallState]
    BY <1>3, <2>3, GoTyped DEF ReadReceipt
  <2>5. reported' \in BOOLEAN
    BY <1>3 DEF ReadReceipt
  <2> QED BY <1>3, <2>4, <2>5 DEF ReadReceipt, TypeOK, providerVars
<1>4. ASSUME NEW w \in Worker, Resume(w) PROVE TypeOK'
  <2> DEFINE outs == SuccessfulOutcomes(wk[w].outs)
  <2>0. wk[w] \in CallState /\ IdleCall \in CallState
    BY CallTyped, ConstantsTyped
  <2>1. outs \in [Record -> Outcome] /\ wk[w].prog \in [Record -> Progress]
    BY <2>0, SuccessfulOutcomesTyped DEF CallState
  <2> HIDE DEF outs
  <2>2. [wk[w] EXCEPT !.pc = "preflight", !.outs = outs] \in CallState
    BY <2>0, <2>1 DEF CallState, Steps
  <2>3. Candidate(w, "processing", outs, wk[w].prog) \in Receipt
    BY <2>1, CandidateTyped DEF ReceiptStatus
  <2>4. UpdatePackage(w, Candidate(w, "processing", outs, wk[w].prog),
                      [wk[w] EXCEPT !.pc = "preflight", !.outs = outs], IdleCall)
    BY <1>4 DEF Resume, outs
  <2>5. UNCHANGED <<own, providerVars, waiting, claiming, marks>>
    BY <1>4 DEF Resume
  <2> QED BY <2>0, <2>2, <2>3, <2>4, <2>5, UpdateTyped DEF TypeOK, providerVars
<1>5. ASSUME NEW w \in Worker, Preflight(w) PROVE TypeOK'
  <2>0. wk[w] \in CallState
    BY CallTyped
  <2>1. \A held \in SUBSET Record :
           [wk[w] EXCEPT !.pc = "record", !.held = held] \in CallState
    BY <2>0 DEF CallState, Steps
  <2>2. To(wk[w], "fail") \in CallState
    BY <2>0, CallUpdatesTyped DEF Steps
  <2>3. wk' \in [Worker -> CallState]
    BY <1>5, <2>1, <2>2, GoTyped DEF Preflight
  <2>4. faults' \in Nat
    BY <1>5, FaultTyped DEF Preflight, SchemaRefuses, TypeOK
  <2> QED BY <1>5, <2>3, <2>4 DEF Preflight, TypeOK, providerVars
<1>6. ASSUME NEW w \in Worker, SkipRecord(w) PROVE TypeOK'
  <2>0. wk[w] \in CallState /\ IdleCall \in CallState
    BY CallTyped, ConstantsTyped
  <2>1. Current(w) \in Record
    BY <1>6, CurrentTyped DEF SkipRecord
  <2>2. NextRecord(wk[w]) \in CallState
    BY <2>0, <2>1, CallUpdatesTyped
  <2>3. wk' \in [Worker -> CallState]
    BY <1>6, <2>0, <2>2, GoTyped DEF SkipRecord
  <2>4. faults' \in Nat
    BY <1>6, FaultTyped DEF SkipRecord, TypeOK
  <2> QED BY <1>6, <2>3, <2>4 DEF SkipRecord, TypeOK, providerVars
<1>7. ASSUME NEW w \in Worker, HoldRecord(w) PROVE TypeOK'
  <2>0. wk[w] \in CallState /\ IdleCall \in CallState
    BY CallTyped, ConstantsTyped
  <2>1. Current(w) \in Record
    BY <1>7, CurrentTyped DEF HoldRecord
  <2>2. NextRecord(WithOutcome(wk[w], Current(w), HoldingOutcome)) \in CallState
    BY <2>0, <2>1, ConstantsTyped, CallUpdatesTyped
  <2>3. wk' \in [Worker -> CallState]
    BY <1>7, <2>0, <2>2, GoTyped DEF HoldRecord
  <2>4. faults' \in Nat
    BY <1>7, FaultTyped DEF HoldRecord, TypeOK
  <2> QED BY <1>7, <2>3, <2>4 DEF HoldRecord, TypeOK, providerVars
<1>8. ASSUME NEW w \in Worker, ResumeRecord(w) PROVE TypeOK'
  <2>0. wk[w] \in CallState /\ IdleCall \in CallState
    BY CallTyped, ConstantsTyped
  <2>1. Current(w) \in Record
    BY <1>8, CurrentTyped DEF ResumeRecord
  <2>2. To(wk[w], "register") \in CallState
    BY <2>0, <2>1, CallUpdatesTyped DEF Steps
  <2>3. wk' \in [Worker -> CallState]
    BY <1>8, <2>0, <2>2, GoTyped DEF ResumeRecord
  <2>4. faults' \in Nat
    BY <1>8, FaultTyped DEF ResumeRecord, TypeOK
  <2> QED BY <1>8, <2>3, <2>4 DEF ResumeRecord, TypeOK, providerVars
<1>9. ASSUME NEW w \in Worker, InspectRecord(w) PROVE TypeOK'
  <2>0. wk[w] \in CallState
    BY CallTyped
  <2>1. Current(w) \in Record
    BY <1>9, CurrentTyped DEF InspectRecord
  <2>2. Intent(~stored[Current(w)]) \in Progress
    BY ConstantsTyped DEF Intent, Progress
  <2>3. WithProgress(wk[w], Current(w), Intent(~stored[Current(w)])) \in CallState
    BY <2>0, <2>1, <2>2, CallUpdatesTyped
  <2>4. To(WithProgress(wk[w], Current(w), Intent(~stored[Current(w)])), "intent") \in CallState
    BY <2>3, CallUpdatesTyped DEF Steps
  <2>5. FailingWith(w, NoProgress) \in CallState
    BY <2>1, ConstantsTyped, FailingWithTyped
  <2>6. wk' \in [Worker -> CallState]
    BY <1>9, <2>4, <2>5, GoTyped DEF InspectRecord
  <2>7. faults' \in Nat
    BY <1>9, FaultTyped DEF InspectRecord, TypeOK
  <2> QED BY <1>9, <2>6, <2>7 DEF InspectRecord, TypeOK, providerVars
<1>10. ASSUME NEW w \in Worker, ReserveIntent(w) PROVE TypeOK'
  <2>0. wk[w] \in CallState /\ wk[w].outs \in [Record -> Outcome]
                             /\ wk[w].prog \in [Record -> Progress]
    BY CallTyped DEF CallState
  <2>1. Current(w) \in Record
    BY <1>10, CurrentTyped DEF ReserveIntent
  <2>2. To(wk[w], "register") \in CallState
    BY <2>0, CallUpdatesTyped DEF Steps
  <2>3. FailingWith(w, NoProgress) \in CallState
    BY <2>1, ConstantsTyped, FailingWithTyped
  <2> QED BY <1>10, <2>0, <2>2, <2>3, CheckpointTyped DEF ReserveIntent, TypeOK, providerVars
<1>11. ASSUME NEW w \in Worker, RegisterOwnership(w) PROVE TypeOK'
  <2> DEFINE o == own[Current(w)]
  <2>0. wk[w] \in CallState
    BY CallTyped
  <2>1. Current(w) \in Record
    BY <1>11, CurrentTyped DEF RegisterOwnership
  <2>2. o.stamp \in Nat /\ o.stamp + 1 \in Nat
    BY <2>1 DEF TypeOK, Ownership
  <2>3. WithRegistration(wk[w], o.stamp + 1, TRUE, TRUE) \in CallState
    BY <2>0, <2>2, CallUpdatesTyped
  <2>4. WithRegistration(wk[w], o.stamp, o.state = "locked", FALSE) \in CallState
    BY <2>0, <2>2, CallUpdatesTyped
  <2>5. /\ To(WithRegistration(wk[w], o.stamp + 1, TRUE, TRUE), "regAudit") \in CallState
        /\ To(WithRegistration(wk[w], o.stamp, o.state = "locked", FALSE), "ownership")
              \in CallState
        /\ To(wk[w], "lockError") \in CallState
    BY <2>0, <2>3, <2>4, CallUpdatesTyped DEF Steps
  <2>6. wk' \in [Worker -> CallState]
    BY <1>11, <2>5, GoTyped DEF RegisterOwnership
  <2>7. own' \in [Record -> Ownership]
    <3>1. [state |-> "locked", stamp |-> o.stamp + 1] \in Ownership
      BY <2>2 DEF Ownership
    <3>2. own' = own \/ own' = [own EXCEPT ![Current(w)] =
                                    [state |-> "locked", stamp |-> o.stamp + 1]]
      BY <1>11 DEF RegisterOwnership
    <3> QED BY <2>1, <3>1, <3>2 DEF TypeOK
  <2>8. faults' \in Nat
    BY <1>11, FaultTyped DEF RegisterOwnership, TypeOK
  <2>9. marks' \in [Record -> SUBSET Mark]
    BY <1>11, BefellTyped DEF RegisterOwnership, TypeOK, Mark
  <2> QED BY <1>11, <2>6, <2>7, <2>8, <2>9 DEF RegisterOwnership, TypeOK, providerVars
<1>12. ASSUME NEW w \in Worker, AuditOwnership(w) PROVE TypeOK'
  <2>0. wk[w] \in CallState /\ IdleCall \in CallState
    BY CallTyped, ConstantsTyped
  <2>1. Current(w) \in Record
    BY <1>12, CurrentTyped DEF AuditOwnership
  <2>2. To(wk[w], "ownership") \in CallState
    BY <2>0, <2>1, CallUpdatesTyped DEF Steps
  <2>3. To(wk[w], "rollback") \in CallState
    BY <2>0, <2>1, CallUpdatesTyped DEF Steps
  <2>4. wk' \in [Worker -> CallState]
    BY <1>12, <2>0, <2>2, <2>3, GoTyped DEF AuditOwnership
  <2>5. faults' \in Nat
    BY <1>12, FaultTyped DEF AuditOwnership, TypeOK
  <2> QED BY <1>12, <2>4, <2>5 DEF AuditOwnership, TypeOK, providerVars
<1>13. ASSUME NEW w \in Worker, RollbackOwnership(w) PROVE TypeOK'
  <2>0. wk[w] \in CallState
    BY CallTyped
  <2>1. Current(w) \in Record
    BY <1>13, CurrentTyped DEF RollbackOwnership
  <2>2. [wk[w] EXCEPT !.reg = NoRegistration] \in CallState
    BY <2>0, ConstantsTyped DEF CallState
  <2>3. To([wk[w] EXCEPT !.reg = NoRegistration], "lockError") \in CallState
    BY <2>2, CallUpdatesTyped DEF Steps
  <2>4. wk' \in [Worker -> CallState]
    BY <1>13, <2>3, GoTyped DEF RollbackOwnership
  <2>5. own' \in [Record -> Ownership] /\ marks' \in [Record -> SUBSET Mark]
    BY <1>13, <2>1, DeleteTyped, BefellTyped DEF RollbackOwnership, TypeOK, Mark
  <2>6. faults' \in Nat
    BY <1>13, FaultTyped DEF RollbackOwnership, TypeOK
  <2> QED BY <1>13, <2>4, <2>5, <2>6 DEF RollbackOwnership, TypeOK, providerVars
<1>14. ASSUME NEW w \in Worker, ReconcileOwnership(w) PROVE TypeOK'
  <2>1. Current(w) \in Record
    BY <1>14, CurrentTyped DEF ReconcileOwnership
  <2>2. Prog(w) \in Progress /\ NoProgress \in Progress
    BY <2>1, ProgTyped, ConstantsTyped
  <2>3. [Prog(w) EXCEPT !.ready = TRUE, !.created = TRUE, !.locked = TRUE] \in Progress
    BY <2>2 DEF Progress
  <2>4. \A g \in Progress : FailingWith(w, g) \in CallState
    BY <2>1, FailingWithTyped
  <2>5. wk' \in [Worker -> CallState]
    BY <1>14, <2>2, <2>3, <2>4, GoTyped DEF ReconcileOwnership
  <2>6. faults' \in Nat
    BY <1>14, FaultTyped DEF ReconcileOwnership, TypeOK
  <2> QED BY <1>14, <2>5, <2>6 DEF ReconcileOwnership, TypeOK, providerVars
<1>15. ASSUME NEW w \in Worker, CheckpointOwnership(w) PROVE TypeOK'
  <2> DEFINE g == WithOwnership(Prog(w), wk[w].reg)
             new == WithProgress(wk[w], Current(w), g)
  <2>0. wk[w] \in CallState /\ wk[w].outs \in [Record -> Outcome]
                             /\ wk[w].reg \in Registration
    BY CallTyped DEF CallState
  <2>1. Current(w) \in Record
    BY <1>15, CurrentTyped DEF CheckpointOwnership
  <2>2. g \in Progress
    BY <2>0, <2>1, ProgTyped DEF WithOwnership, Progress, Registration
  <2>3. new \in CallState /\ new.prog \in [Record -> Progress]
    BY <2>0, <2>1, <2>2, CallUpdatesTyped DEF CallState
  <2>4. /\ To(wk[w], "calling") \in CallState
        /\ To(new, "calling") \in CallState
        /\ To(new, "cleanup") \in CallState
    BY <2>0, <2>3, CallUpdatesTyped DEF Steps
  <2> HIDE DEF g, new
  <2>5. UNCHANGED <<own, providerVars, waiting, claiming, marks>>
    BY <1>15 DEF CheckpointOwnership
  <2>6. CASE /\ Go(w, To(wk[w], "calling"))
             /\ UNCHANGED <<receipt, leaseExpired, reported, faults>>
    BY <2>4, <2>5, <2>6, GoTyped DEF TypeOK, providerVars
  <2>7. CASE Checkpoint(w, wk[w].outs, new.prog, To(new, "calling"), To(new, "cleanup"))
    BY <2>0, <2>3, <2>4, <2>5, <2>7, CheckpointTyped DEF TypeOK, providerVars
  <2> QED BY <1>15, <2>6, <2>7 DEF CheckpointOwnership, g, new
<1>16. ASSUME NEW w \in Worker, CleanupOwnership(w) PROVE TypeOK'
  <2>1. Current(w) \in Record
    BY <1>16, CurrentTyped DEF CleanupOwnership
  <2>2. FailingWith(w, NoProgress) \in CallState /\ FailingWith(w, Prog(w)) \in CallState
    BY <2>1, ProgTyped, ConstantsTyped, FailingWithTyped
  <2>3. wk' \in [Worker -> CallState]
    BY <1>16, <2>2, GoTyped DEF CleanupOwnership
  <2>4. own' \in [Record -> Ownership] /\ marks' \in [Record -> SUBSET Mark]
    BY <1>16, <2>1, DeleteTyped, BefellTyped DEF CleanupOwnership, TypeOK, Mark
  <2>5. faults' \in Nat
    BY <1>16, FaultTyped DEF CleanupOwnership, TypeOK
  <2> QED BY <1>16, <2>3, <2>4, <2>5 DEF CleanupOwnership, TypeOK, providerVars
<1>17. ASSUME NEW w \in Worker, ProviderCommits(w) PROVE TypeOK'
  <2>0. wk[w] \in CallState
    BY CallTyped
  <2>1. Current(w) \in Record
    BY <1>17, CurrentTyped DEF ProviderCommits
  <2>2. To(wk[w], "commit") \in CallState /\ To(WithError(wk[w], "error"), "commit") \in CallState
    BY <2>0, CallUpdatesTyped DEF Steps
  <2>3. wk' \in [Worker -> CallState]
    BY <1>17, <2>2, GoTyped DEF ProviderCommits
  <2>4. stored' \in [Record -> BOOLEAN] /\ wrote' \in [Record -> BOOLEAN]
                                       /\ provAudited' \in [Record -> BOOLEAN]
    BY <1>17, <2>1, WritesTyped DEF ProviderCommits
  <2>5. faults' \in Nat
    BY <1>17, FaultTyped DEF ProviderCommits, TypeOK
  <2> QED BY <1>17, <2>3, <2>4, <2>5 DEF ProviderCommits, TypeOK
<1>18. ASSUME NEW w \in Worker, ProviderRefuses(w) PROVE TypeOK'
  <2> DEFINE e == IF Prog(w).expected THEN "dependency" ELSE "error"
  <2>0. wk[w] \in CallState
    BY CallTyped
  <2>1. WithError(wk[w], e) \in CallState
    BY <2>0, CallUpdatesTyped
  <2>2. To(WithError(wk[w], e), "verify") \in CallState
    BY <2>1, CallUpdatesTyped DEF Steps
  <2>3. wk' \in [Worker -> CallState]
    BY <1>18, <2>2, GoTyped DEF ProviderRefuses
  <2> QED BY <1>18, <2>3 DEF ProviderRefuses, TypeOK, providerVars
<1>19. ASSUME NEW w \in Worker, ProviderFails(w) PROVE TypeOK'
  <2>0. wk[w] \in CallState
    BY CallTyped
  <2>1. Current(w) \in Record
    BY <1>19, CurrentTyped DEF ProviderFails
  <2>2. To(WithError(wk[w], "error"), "verify") \in CallState
    BY <2>0, CallUpdatesTyped DEF Steps
  <2>3. wk' \in [Worker -> CallState]
    BY <1>19, <2>2, GoTyped DEF ProviderFails
  <2>4. stored' \in [Record -> BOOLEAN] /\ wrote' \in [Record -> BOOLEAN]
                                       /\ provAudited' \in [Record -> BOOLEAN]
    BY <1>19, <2>1, WritesTyped DEF ProviderFails, TypeOK, providerVars
  <2>5. faults' \in Nat
    BY <1>19, FaultTyped DEF ProviderFails
  <2> QED BY <1>19, <2>3, <2>4, <2>5 DEF ProviderFails, TypeOK
<1>20. ASSUME NEW w \in Worker, LeaseLost(w) PROVE TypeOK'
  <2>0. wk[w] \in CallState
    BY CallTyped
  <2>1. Current(w) \in Record
    BY <1>20, CurrentTyped DEF LeaseLost
  <2>2. \A step \in {"verify", "commit"} : To(WithError(wk[w], "leaseLost"), step) \in CallState
    BY <2>0, CallUpdatesTyped DEF Steps
  <2>3. wk' \in [Worker -> CallState]
    BY <1>20, <2>2, GoTyped DEF LeaseLost
  <2>4. stored' \in [Record -> BOOLEAN] /\ wrote' \in [Record -> BOOLEAN]
                                       /\ provAudited' \in [Record -> BOOLEAN]
    BY <1>20, <2>1, WritesTyped DEF LeaseLost, TypeOK, providerVars
  <2>5. faults' \in Nat
    BY <1>20, FaultTyped DEF LeaseLost, TypeOK
  <2> QED BY <1>20, <2>3, <2>4, <2>5 DEF LeaseLost, TypeOK
<1>21. ASSUME NEW w \in Worker, Heartbeat(w) PROVE TypeOK'
  <2>0. wk[w] \in CallState /\ wk[w].at + 1 \in Nat
    BY CallTyped DEF CallState
  <2>1. [wk[w] EXCEPT !.at = @ + 1] \in CallState
    BY <2>0 DEF CallState
  <2>2. wk' \in [Worker -> CallState]
    BY <1>21, <2>1, GoTyped DEF Heartbeat
  <2>3. receipt \in Receipt /\ receipt.at + 1 \in Nat
    BY DEF TypeOK, Receipt
  <2>4. [receipt EXCEPT !.at = @ + 1] \in Receipt
    BY <2>3 DEF Receipt
  <2> QED BY <1>21, <2>2, <2>4 DEF Heartbeat, TypeOK, providerVars
<1>22. ASSUME NEW w \in Worker, VerifyCommit(w) PROVE TypeOK'
  <2>0. wk[w] \in CallState /\ IdleCall \in CallState
    BY CallTyped, ConstantsTyped
  <2>1. Current(w) \in Record
    BY <1>22, CurrentTyped DEF VerifyCommit
  <2>2. To(wk[w], "commit") \in CallState /\ To(wk[w], "compensate") \in CallState
    BY <2>0, CallUpdatesTyped DEF Steps
  <2>3. FailingWith(w, Prog(w)) \in CallState
    BY <2>1, ProgTyped, FailingWithTyped
  <2>4. wk' \in [Worker -> CallState]
    BY <1>22, <2>0, <2>2, <2>3, GoTyped DEF VerifyCommit
  <2>5. faults' \in Nat
    BY <1>22, FaultTyped DEF VerifyCommit, TypeOK
  <2> QED BY <1>22, <2>4, <2>5 DEF VerifyCommit, TypeOK, providerVars
<1>23. ASSUME NEW w \in Worker, CheckpointCommitted(w) PROVE TypeOK'
  <2> DEFINE o   == [status |-> IF Prog(w).expected THEN "created" ELSE "unchanged",
                     locked |-> Prog(w).locked]
             g   == [Prog(w) EXCEPT !.phase = "committed"]
             new == WithOutcome(WithProgress(wk[w], Current(w), g), Current(w), o)
  <2>0. wk[w] \in CallState
    BY CallTyped
  <2>1. Current(w) \in Record
    BY <1>23, CurrentTyped DEF CheckpointCommitted
  <2>2. o \in Outcome /\ g \in Progress
    BY <2>1, ProgTyped DEF Outcome, OutcomeStatus, Progress
  <2> HIDE DEF o, g
  <2>3. new \in CallState
    BY <2>0, <2>1, <2>2, CallUpdatesTyped
  <2> HIDE DEF new
  <2>4. new.outs \in [Record -> Outcome] /\ new.prog \in [Record -> Progress]
    BY <2>3 DEF CallState
  <2>5. /\ To(new, "fail") \in CallState
        /\ To(new, IF new.err = "none" THEN "clear" ELSE "fail") \in CallState
    BY <2>3, CallUpdatesTyped DEF Steps
  <2>6. Checkpoint(w, new.outs, new.prog,
                   To(new, IF new.err = "none" THEN "clear" ELSE "fail"), To(new, "fail"))
    BY <1>23 DEF CheckpointCommitted, new, o, g
  <2>7. UNCHANGED <<own, providerVars, waiting, claiming, marks>>
    BY <1>23 DEF CheckpointCommitted
  <2> QED BY <2>4, <2>5, <2>6, <2>7, CheckpointTyped DEF TypeOK, providerVars
<1>24. ASSUME NEW w \in Worker, ClearIntent(w) PROVE TypeOK'
  <2> DEFINE new == WithProgress(wk[w], Current(w), NoProgress)
  <2>0. wk[w] \in CallState
    BY CallTyped
  <2>1. Current(w) \in Record
    BY <1>24, CurrentTyped DEF ClearIntent
  <2>2. new \in CallState
    BY <2>0, <2>1, ConstantsTyped, CallUpdatesTyped
  <2> HIDE DEF new
  <2>3. new.outs \in [Record -> Outcome] /\ new.prog \in [Record -> Progress]
    BY <2>2 DEF CallState
  <2>4. NextRecord(new) \in CallState /\ To(wk[w], "fail") \in CallState
    BY <2>0, <2>2, CallUpdatesTyped DEF Steps
  <2>5. Checkpoint(w, new.outs, new.prog, NextRecord(new), To(wk[w], "fail"))
    BY <1>24 DEF ClearIntent, new
  <2>6. UNCHANGED <<own, providerVars, waiting, claiming, marks>>
    BY <1>24 DEF ClearIntent
  <2> QED BY <2>3, <2>4, <2>5, <2>6, CheckpointTyped DEF TypeOK, providerVars
<1>25. ASSUME NEW w \in Worker, Compensate(w) PROVE TypeOK'
  <2>0. wk[w] \in CallState
    BY CallTyped
  <2>1. Current(w) \in Record
    BY <1>25, CurrentTyped DEF Compensate
  <2>2. WithProgress(wk[w], Current(w), NoProgress) \in CallState
    BY <2>0, <2>1, ConstantsTyped, CallUpdatesTyped
  <2>3. To(WithProgress(wk[w], Current(w), NoProgress), "hold") \in CallState
    BY <2>2, CallUpdatesTyped DEF Steps
  <2>4. FailingWith(w, NoProgress) \in CallState /\ FailingWith(w, Prog(w)) \in CallState
    BY <2>1, ProgTyped, ConstantsTyped, FailingWithTyped
  <2>5. wk' \in [Worker -> CallState]
    BY <1>25, <2>3, <2>4, GoTyped DEF Compensate
  <2>6. own' \in [Record -> Ownership] /\ marks' \in [Record -> SUBSET Mark]
    BY <1>25, <2>1, DeleteTyped, BefellTyped DEF Compensate, TypeOK, Mark
  <2>7. faults' \in Nat
    BY <1>25, FaultTyped DEF Compensate, TypeOK
  <2> QED BY <1>25, <2>5, <2>6, <2>7 DEF Compensate, TypeOK, providerVars
<1>26. ASSUME NEW w \in Worker, CheckpointHolding(w) PROVE TypeOK'
  <2>0. wk[w] \in CallState /\ wk[w].outs \in [Record -> Outcome]
                             /\ wk[w].prog \in [Record -> Progress]
    BY CallTyped DEF CallState
  <2>1. Current(w) \in Record
    BY <1>26, CurrentTyped DEF CheckpointHolding
  <2>2. WithOutcome(wk[w], Current(w), HoldingOutcome) \in CallState
    BY <2>0, <2>1, ConstantsTyped, CallUpdatesTyped
  <2>3. /\ NextRecord(WithOutcome(wk[w], Current(w), HoldingOutcome)) \in CallState
        /\ To(wk[w], "fail") \in CallState
    BY <2>0, <2>2, CallUpdatesTyped DEF Steps
  <2> QED BY <1>26, <2>0, <2>3, CheckpointTyped DEF CheckpointHolding, TypeOK, providerVars
<1>27. ASSUME NEW w \in Worker, Complete(w) PROVE TypeOK'
  <2> DEFINE st == IF \E r \in Record : wk[w].outs[r].status = "holding"
                   THEN "holding" ELSE "completed"
  <2>0. wk[w] \in CallState /\ IdleCall \in CallState
    BY CallTyped, ConstantsTyped
  <2>1. wk[w].outs \in [Record -> Outcome] /\ wk[w].prog \in [Record -> Progress]
    BY <2>0 DEF CallState
  <2>2. Candidate(w, st, wk[w].outs, wk[w].prog) \in Receipt
    BY <2>1, CandidateTyped DEF ReceiptStatus
  <2>3. To(wk[w], "report") \in CallState
    BY <2>0, CallUpdatesTyped DEF Steps
  <2>4. UpdatePackage(w, Candidate(w, st, wk[w].outs, wk[w].prog), To(wk[w], "report"), IdleCall)
    BY <1>27 DEF Complete
  <2>5. UNCHANGED <<own, providerVars, waiting, claiming, marks>>
    BY <1>27 DEF Complete
  <2> QED BY <2>0, <2>2, <2>3, <2>4, <2>5, UpdateTyped DEF TypeOK, providerVars
<1>28. ASSUME NEW w \in Worker, FailImport(w) PROVE TypeOK'
  <2> DEFINE p == Candidate(w, "failed", SuccessfulOutcomes(wk[w].outs), wk[w].prog)
  <2>0. wk[w] \in CallState /\ IdleCall \in CallState
    BY CallTyped, ConstantsTyped
  <2>1. SuccessfulOutcomes(wk[w].outs) \in [Record -> Outcome] /\ wk[w].prog \in [Record -> Progress]
    BY <2>0, SuccessfulOutcomesTyped DEF CallState
  <2>2. p \in Receipt
    BY <2>1, CandidateTyped DEF ReceiptStatus
  <2>3. To(wk[w], "report") \in CallState
    BY <2>0, CallUpdatesTyped DEF Steps
  <2>4. UpdatePackage(w, p, To(wk[w], "report"), IdleCall) /\ UNCHANGED <<own, providerVars, waiting, claiming, marks>>
    BY <1>28 DEF FailImport
  <2> QED BY <2>0, <2>2, <2>3, <2>4, UpdateTyped DEF TypeOK, providerVars
<1>29. ASSUME NEW w \in Worker, Report(w) PROVE TypeOK'
  <2>1. wk' \in [Worker -> CallState]
    BY <1>29, ConstantsTyped, GoTyped DEF Report
  <2>2. faults' \in Nat /\ reported' \in BOOLEAN
    BY <1>29, FaultTyped DEF Report, TypeOK
  <2> QED BY <1>29, <2>1, <2>2 DEF Report, TypeOK, providerVars
<1>30. ASSUME NEW w \in Worker, Crash(w) PROVE TypeOK'
  <2>1. wk' \in [Worker -> CallState]
    BY <1>30, ConstantsTyped, GoTyped DEF Crash
  <2>2. marks' \in [Record -> SUBSET Mark]
    BY <1>30, BefellTyped DEF Crash, TypeOK, Mark
  <2> QED BY <1>30, <2>1, <2>2, FaultTyped DEF Crash, TypeOK, providerVars
<1>31. ASSUME LeaseExpires PROVE TypeOK'
  BY <1>31, FaultTyped DEF LeaseExpires, TypeOK, providerVars
<1>32. ASSUME NEW r \in Record, ClaimOwnership(r) PROVE TypeOK'
  <2>1. own' \in [Record -> Ownership]
    BY <1>32 DEF ClaimOwnership, TypeOK, Ownership
  <2>2. marks' \in [Record -> SUBSET Mark]
    BY <1>32, BefellTyped DEF ClaimOwnership, TypeOK, Mark
  <2> QED BY <1>32, <2>1, <2>2, FaultTyped DEF ClaimOwnership, TypeOK, providerVars
<1>33. ASSUME NEW r \in Record, AuditClaim(r) PROVE TypeOK'
  <2>1. own' \in [Record -> Ownership]
    <3>1. CASE own' = own
      BY <3>1 DEF TypeOK
    <3>2. CASE own' = [own EXCEPT ![r].state = "locked"]
      BY <3>2 DEF TypeOK, Ownership
    <3> QED BY <1>33, <3>1, <3>2 DEF AuditClaim
  <2> QED BY <1>33, <2>1, FaultTyped DEF AuditClaim, TypeOK, providerVars
<1>34. ASSUME NEW r \in Record, ResolveDependency(r) PROVE TypeOK'
  BY <1>34 DEF ResolveDependency, TypeOK, providerVars
<1>35. ASSUME NEW r \in Record, LoseDependency(r) PROVE TypeOK'
  BY <1>35, FaultTyped DEF LoseDependency, TypeOK, providerVars
<1>36. CASE UNCHANGED vars
  BY <1>36 DEF vars, TypeOK
<1> QED BY <1>1, <1>2, <1>3, <1>4, <1>5, <1>6, <1>7, <1>8, <1>9, <1>10, <1>11, <1>12,
           <1>13, <1>14, <1>15, <1>16, <1>17, <1>18, <1>19, <1>20, <1>21, <1>22, <1>23,
           <1>24, <1>25, <1>26, <1>27, <1>28, <1>29, <1>30, <1>31, <1>32, <1>33, <1>34,
           <1>35, <1>36 DEF Next, Start, Work

(* Every reachable state is well typed. *)
THEOREM TypeCorrect == Spec => []TypeOK
BY TypeInit, TypeStep, PTL DEF Spec
================================================================================
