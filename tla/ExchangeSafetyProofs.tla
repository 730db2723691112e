-------------------------- MODULE ExchangeSafetyProofs -------------------------
(***************************************************************************)
(* The safety theorems of the Exchange import, for any number of calls,    *)
(* records, dependencies, failures and retries.  SafetyInv is the          *)
(* inductive invariant; every action is one step of SafetyStep, reduced by *)
(* three lemmas to what it does to the calling worker (QuietStep), to the  *)
(* receipt (UpdateStep) or to the provider (WriteStep).                    *)
(*                                                                         *)
(* The second half states the effect of every action in a lemma of its     *)
(* own, and proves five more invariants over these lemmas: ReportInv (a    *)
(* receipt is reopened after its report), StampInv (no existing lock is    *)
(* deleted), AccountInv (the receipt tells what the package did), FenceInv *)
(* (no lock is forgotten) and LockInv (a reported lock is there).          *)
(***************************************************************************)
EXTENDS ExchangeImportProofs

SafetyInv == AttributionInv /\ LeaseInv

(* A call that works under a lease. *)
Running(s) == s.pc \notin {"idle", "resume", "report"}

(* A call state that claims nothing the providers do not back. *)
Backed(s) ==
    /\ Justified(s.outs, s.prog, stored, wrote)
    /\ s.pc = "commit" => s.i \in DOMAIN Order /\ stored[Order[s.i]]

(* A call state that holds no lease that worker w did not hold. *)
Keeps(s, w) ==
    /\ s.at <= wk[w].at
    /\ Running(s) => Running(wk[w]) /\ s.at = wk[w].at

(* A call that notes an error and moves on keeps everything else. *)
LEMMA ErrorMove ==
    ASSUME NEW c \in CallState, NEW e \in {"none", "error", "dependency", "leaseLost"},
           NEW step \in Steps
    PROVE  LET s == To(WithError(c, e), step)
           IN  /\ s \in CallState /\ s.outs = c.outs /\ s.prog = c.prog
               /\ s.i = c.i /\ s.at = c.at /\ s.pc = step
<1>1. WithError(c, e) \in CallState
  BY CallUpdatesTyped
<1>2. To(WithError(c, e), step) \in CallState
  BY <1>1, CallUpdatesTyped
<1>3. LET s == To(WithError(c, e), step)
      IN  s.outs = c.outs /\ s.prog = c.prog /\ s.i = c.i /\ s.at = c.at /\ s.pc = step
  BY DEF To, WithError, CallState
<1> QED BY <1>2, <1>3

(* Every running call is backed. *)
LEMMA CallBacked ==
    ASSUME SafetyInv, NEW w \in Worker
    PROVE  Backed(wk[w])
BY DEF SafetyInv, AttributionInv, Backed, Current

(* A step that changes one call and neither the receipt nor the providers  *)
(* preserves the invariant when the new call state is backed and takes no  *)
(* lease.                                                                  *)
LEMMA QuietStep ==
    ASSUME TypeOK, SafetyInv, NEW w \in Worker, NEW s \in CallState, Go(w, s),
           UNCHANGED <<receipt, stored, wrote>>, Backed(s), Keeps(s, w)
    PROVE  SafetyInv'
<1>1. wk' = [wk EXCEPT ![w] = s] /\ wk \in [Worker -> CallState]
  BY DEF Go, TypeOK
<1>2. AttributionInv'
  BY <1>1 DEF SafetyInv, AttributionInv, Backed, Current
<1>3. ASSUME NEW v \in Worker PROVE wk'[v].at <= receipt'.at
  <2>1. wk[w].at <= receipt.at /\ wk[v].at <= receipt.at
    BY DEF SafetyInv, LeaseInv
  <2>2. s.at \in Nat /\ wk[w].at \in Nat /\ receipt.at \in Nat
    BY <1>1 DEF CallState, TypeOK, Receipt
  <2> QED BY <1>1, <2>1, <2>2 DEF Keeps
<1>4. OneLeaseHolder'
  <2> SUFFICES ASSUME NEW u \in Worker, NEW v \in Worker,
                      Running(wk'[u]), Running(wk'[v]),
                      wk'[u].at = receipt'.at, wk'[v].at = receipt'.at
               PROVE  u = v
    BY DEF OneLeaseHolder, Running
  <2>1. \A x \in Worker : Running(wk'[x]) => Running(wk[x]) /\ wk'[x].at = wk[x].at
    BY <1>1 DEF Keeps
  <2>2. OneLeaseHolder
    BY DEF SafetyInv, LeaseInv
  <2> QED BY <2>1, <2>2 DEF OneLeaseHolder, Running
<1>5. receipt'.status = "absent" => receipt'.at = 0
  BY DEF SafetyInv, LeaseInv
<1> QED BY <1>2, <1>3, <1>4, <1>5 DEF SafetyInv, LeaseInv

(* A receipt update preserves the invariant when the candidate and both    *)
(* continuations are justified: the winner's token is newer than any other *)
(* call's, the loser keeps its stale one.                                  *)
LEMMA UpdateStep ==
    ASSUME TypeOK, SafetyInv, NEW w \in Worker, NEW p \in Receipt,
           NEW accepted \in CallState, NEW refused \in CallState,
           UpdatePackage(w, p, accepted, refused), UNCHANGED <<stored, wrote>>,
           p.status # "absent", p.at = wk[w].at + 1,
           Justified(p.outcome, p.progress, stored, wrote),
           Backed(accepted), Backed(refused), Keeps(refused, w)
    PROVE  SafetyInv'
<1> DEFINE s == [accepted EXCEPT !.at = p.at]
<1>1. CASE CanUpdate(w, p) /\ receipt' = p /\ Go(w, s)
  <2>1. wk \in [Worker -> CallState] /\ wk' = [wk EXCEPT ![w] = s] /\ receipt.at = wk[w].at
    BY <1>1 DEF TypeOK, Go, CanUpdate
  <2>2. s.outs = accepted.outs /\ s.prog = accepted.prog /\ s.pc = accepted.pc
                               /\ s.i = accepted.i /\ s.at = p.at
    BY DEF CallState
  <2>3. \A v \in Worker : wk[v].at \in Nat /\ wk[v].at <= wk[w].at
    BY <2>1 DEF SafetyInv, LeaseInv, CallState
  <2>4. \A v \in Worker : wk'[v].at <= p.at /\ (wk'[v].at = p.at => v = w)
    <3> TAKE v \in Worker
    <3>1. CASE v = w
      BY <2>1, <2>2, <2>3, <3>1
    <3>2. CASE v # w
      <4>1. wk'[v] = wk[v]
        BY <2>1, <3>2
      <4>2. wk[v].at \in Nat /\ wk[w].at \in Nat /\ wk[v].at <= wk[w].at
        BY <2>3
      <4> QED BY <4>1, <4>2
    <3> QED BY <3>1, <3>2
  <2> HIDE DEF s
  <2>5. AttributionInv'
    BY <1>1, <2>1, <2>2 DEF SafetyInv, AttributionInv, Backed, Current
  <2>6. OneLeaseHolder'
    BY <1>1, <2>4 DEF OneLeaseHolder
  <2> QED BY <1>1, <2>4, <2>5, <2>6 DEF SafetyInv, LeaseInv
<1>2. CASE Go(w, refused) /\ UNCHANGED receipt
  BY <1>2, QuietStep
<1> QED BY <1>1, <1>2 DEF UpdatePackage

(* A write by the provider preserves every claim made before it, and backs *)
(* a commit of the record it wrote.                                        *)
LEMMA WriteStep ==
    ASSUME TypeOK, SafetyInv, NEW w \in Worker, NEW s \in CallState, Go(w, s),
           UNCHANGED receipt, NEW audited, Current(w) \in Record,
           wk[w].i \in DOMAIN Order, ProviderWrites(Current(w), audited),
           s.outs = wk[w].outs, s.prog = wk[w].prog, s.i = wk[w].i,
           s.at = wk[w].at, Running(wk[w])
    PROVE  SafetyInv'
<1>1. wk' = [wk EXCEPT ![w] = s] /\ wk \in [Worker -> CallState]
  BY DEF Go, TypeOK
<1>2. /\ stored' = [stored EXCEPT ![Current(w)] = TRUE]
      /\ wrote' = [wrote EXCEPT ![Current(w)] = @ \/ ~stored[Current(w)]]
  BY DEF ProviderWrites
<1>3. \A r \in Record : /\ stored[r] => stored'[r]
                        /\ wrote[r] => wrote'[r]
                        /\ stored'[r] /\ ~stored[r] => wrote'[r]
  BY <1>2 DEF TypeOK
<1>4. stored'[Current(w)]
  BY <1>2 DEF TypeOK
<1>5. ASSUME NEW outs, NEW prog, Justified(outs, prog, stored, wrote)
      PROVE  Justified(outs, prog, stored', wrote')
  BY <1>3, <1>5 DEF Justified
<1>6. \A v \in Worker : /\ wk'[v].outs = wk[v].outs /\ wk'[v].prog = wk[v].prog
                        /\ wk'[v].i = wk[v].i /\ wk'[v].at = wk[v].at
                        /\ v # w => wk'[v] = wk[v]
  BY <1>1
<1>7. AttributionInv'
  <2>1. Justified(receipt.outcome, receipt.progress, stored', wrote')
    BY <1>5 DEF SafetyInv, AttributionInv
  <2>2. ASSUME NEW v \in Worker
        PROVE  Justified(wk'[v].outs, wk'[v].prog, stored', wrote')
    BY <1>5, <1>6 DEF SafetyInv, AttributionInv
  <2>3. ASSUME NEW v \in Worker, wk'[v].pc = "commit"
        PROVE  wk'[v].i \in DOMAIN Order /\ stored'[Order[wk'[v].i]]
    <3>1. CASE v = w
      BY <1>4, <1>6, <3>1 DEF Current
    <3>2. CASE v # w
      <4>1. wk[v].i \in DOMAIN Order /\ stored[Order[wk[v].i]]
        BY <1>6, <2>3, <3>2 DEF SafetyInv, AttributionInv, Current
      <4>2. Order[wk[v].i] \in Record
        BY <4>1, OrderAssumption
      <4> QED BY <1>3, <1>6, <4>1, <4>2
    <3> QED BY <3>1, <3>2
  <2> QED BY <2>1, <2>2, <2>3 DEF AttributionInv, Current
<1>8. LeaseInv'
  <2>1. LeaseInv
    BY DEF SafetyInv
  <2>2. \A v \in Worker : Running(wk'[v]) => Running(wk[v])
    BY <1>6
  <2> QED BY <1>6, <2>1, <2>2 DEF LeaseInv, OneLeaseHolder, Running
<1> QED BY <1>7, <1>8 DEF SafetyInv

--------------------------------------------------------------------------------
(* What the edits of a call's private state do to the claims it makes. *)

(* Moving to a step other than the commit checkpoint claims nothing new. *)
LEMMA BackedTo ==
    ASSUME NEW s \in CallState, Backed(s), NEW step \in Steps, step # "commit"
    PROVE  /\ Backed(To(s, step))
           /\ To(s, step).at = s.at
           /\ To(s, step).pc = step
           /\ To(s, step).outs = s.outs
           /\ To(s, step).prog = s.prog
BY DEF Backed, To, CallState

(* A progress entry whose expectation is justified may replace another. *)
LEMMA BackedWithProgress ==
    ASSUME NEW s \in CallState, Backed(s), NEW r \in Record, NEW g \in Progress,
           g.expected /\ stored[r] => wrote[r]
    PROVE  /\ Backed(WithProgress(s, r, g))
           /\ WithProgress(s, r, g).at = s.at
           /\ WithProgress(s, r, g).pc = s.pc
           /\ WithProgress(s, r, g).outs = s.outs
           /\ WithProgress(s, r, g).prog = [s.prog EXCEPT ![r] = g]
<1> DEFINE t == WithProgress(s, r, g)
<1>1. /\ t.at = s.at /\ t.pc = s.pc /\ t.outs = s.outs /\ t.i = s.i
      /\ t.prog = [s.prog EXCEPT ![r] = g]
  BY DEF WithProgress, CallState
<1>2. s.prog \in [Record -> Progress]
  BY DEF CallState
<1> HIDE DEF t
<1>3. Justified(t.outs, t.prog, stored, wrote)
  BY <1>1, <1>2 DEF Backed, Justified
<1> QED BY <1>1, <1>3 DEF Backed, t

(* So may an outcome. *)
LEMMA BackedWithOutcome ==
    ASSUME NEW s \in CallState, Backed(s), NEW r \in Record, NEW o \in Outcome,
           Successful(o) => stored[r], o.status = "created" => wrote[r]
    PROVE  /\ Backed(WithOutcome(s, r, o))
           /\ WithOutcome(s, r, o).at = s.at
           /\ WithOutcome(s, r, o).pc = s.pc
           /\ WithOutcome(s, r, o).outs = [s.outs EXCEPT ![r] = o]
           /\ WithOutcome(s, r, o).prog = s.prog
<1> DEFINE t == WithOutcome(s, r, o)
<1>1. /\ t.at = s.at /\ t.pc = s.pc /\ t.prog = s.prog /\ t.i = s.i
      /\ t.outs = [s.outs EXCEPT ![r] = o]
  BY DEF WithOutcome, CallState
<1>2. s.outs \in [Record -> Outcome]
  BY DEF CallState
<1> HIDE DEF t
<1>3. Justified(t.outs, t.prog, stored, wrote)
  BY <1>1, <1>2 DEF Backed, Justified
<1> QED BY <1>1, <1>3 DEF Backed, t

(* Errors and registrations are not claims about the provider. *)
LEMMA BackedOther ==
    ASSUME NEW s \in CallState, Backed(s)
    PROVE  /\ \A e : /\ WithError(s, e).outs = s.outs /\ WithError(s, e).prog = s.prog
                     /\ WithError(s, e).at = s.at /\ WithError(s, e).pc = s.pc
                     /\ WithError(s, e).i = s.i /\ Backed(WithError(s, e))
           /\ \A stamp, locked, created :
                 LET t == WithRegistration(s, stamp, locked, created)
                 IN  t.at = s.at /\ t.pc = s.pc /\ Backed(t)
           /\ NextRecord(s).at = s.at
           /\ NextRecord(s).pc = "record"
           /\ Backed(NextRecord(s))
<1>1. ASSUME NEW e
      PROVE  /\ WithError(s, e).outs = s.outs /\ WithError(s, e).prog = s.prog
             /\ WithError(s, e).at = s.at /\ WithError(s, e).pc = s.pc
             /\ WithError(s, e).i = s.i /\ Backed(WithError(s, e))
  BY DEF WithError, Backed, CallState
<1>2. ASSUME NEW stamp, NEW locked, NEW created
      PROVE  LET t == WithRegistration(s, stamp, locked, created)
             IN  t.at = s.at /\ t.pc = s.pc /\ Backed(t)
  BY DEF WithRegistration, Backed, CallState
<1>3. NextRecord(s).at = s.at /\ NextRecord(s).pc = "record" /\ Backed(NextRecord(s))
  BY DEF NextRecord, Backed, CallState
<1> QED BY <1>1, <1>2, <1>3

(* An idle call claims nothing and holds nothing. *)
LEMMA IdleBacked ==
    ASSUME TypeOK, NEW w \in Worker
    PROVE  Backed(IdleCall) /\ Keeps(IdleCall, w) /\ IdleCall \in CallState
<1>1. wk[w].at \in Nat
  BY DEF TypeOK, CallState
<1>2. Justified([r \in Record |-> NoOutcome], [r \in Record |-> NoProgress], stored, wrote)
  BY DEF Justified, Successful, NoOutcome, NoProgress
<1> QED BY <1>1, <1>2, ConstantsTyped DEF IdleCall, Backed, Keeps, Running

(* Failing with a justified recovery state. *)
LEMMA FailingBacked ==
    ASSUME TypeOK, SafetyInv, NEW w \in Worker, NEW g \in Progress,
           Current(w) \in Record, Running(wk[w]),
           g.expected /\ stored[Current(w)] => wrote[Current(w)]
    PROVE  /\ Backed(FailingWith(w, g))
           /\ Keeps(FailingWith(w, g), w)
           /\ FailingWith(w, g) \in CallState
<1> DEFINE s == WithProgress(wk[w], Current(w), g)
<1>1. wk[w] \in CallState /\ Backed(wk[w])
  BY CallTyped, CallBacked
<1>2. s \in CallState
  BY <1>1, CallUpdatesTyped
<1>3. Backed(s) /\ s.at = wk[w].at
  BY <1>1, BackedWithProgress
<1> HIDE DEF s
<1>4. Backed(To(s, "fail")) /\ To(s, "fail").at = wk[w].at
  BY <1>2, <1>3, BackedTo DEF Steps
<1>5. wk[w].at \in Nat
  BY <1>1 DEF CallState
<1>6. FailingWith(w, g) = To(s, "fail")
  BY DEF FailingWith, s
<1> QED BY <1>4, <1>5, <1>6, FailingWithTyped DEF Keeps, Running

(* The recovery state of the current record is justified. *)
LEMMA ProgJustified ==
    ASSUME TypeOK, SafetyInv, NEW w \in Worker, Current(w) \in Record
    PROVE  /\ Prog(w).expected /\ stored[Current(w)] => wrote[Current(w)]
           /\ ~NoProgress.expected
           /\ NoProgress \in Progress
           /\ Prog(w) \in Progress
<1>1. Prog(w).expected /\ stored[Current(w)] => wrote[Current(w)]
  BY DEF SafetyInv, AttributionInv, Justified, Prog
<1> QED BY <1>1, ConstantsTyped, ProgTyped DEF NoProgress

(* Dropping the holding outcomes drops no justification. *)
LEMMA SuccessfulJustified ==
    ASSUME NEW outs, NEW prog, Justified(outs, prog, stored, wrote)
    PROVE  Justified(SuccessfulOutcomes(outs), prog, stored, wrote)
BY DEF Justified, SuccessfulOutcomes, Successful, NoOutcome

(* The receipt checkpoint of a running call. *)
LEMMA CheckpointStep ==
    ASSUME TypeOK, SafetyInv, NEW w \in Worker,
           NEW outs \in [Record -> Outcome], NEW prog \in [Record -> Progress],
           NEW accepted \in CallState, NEW refused \in CallState,
           Checkpoint(w, outs, prog, accepted, refused),
           UNCHANGED <<stored, wrote>>, Justified(outs, prog, stored, wrote),
           Backed(accepted), Backed(refused), Keeps(refused, w)
    PROVE  SafetyInv'
<1> DEFINE p == Candidate(w, "processing", SuccessfulOutcomes(outs), prog)
<1>1. p \in Receipt
  BY SuccessfulOutcomesTyped, CandidateTyped DEF ReceiptStatus
<1>2. /\ p.status # "absent" /\ p.at = wk[w].at + 1
      /\ p.outcome = SuccessfulOutcomes(outs) /\ p.progress = prog
  BY DEF Candidate
<1>3. UpdatePackage(w, p, accepted, refused)
  BY DEF Checkpoint
<1> HIDE DEF p
<1>4. Justified(p.outcome, p.progress, stored, wrote)
  BY <1>2, SuccessfulJustified
<1> QED BY <1>1, <1>2, <1>3, <1>4, UpdateStep

(* A running call moves to another step. *)
LEMMA MoveBacked ==
    ASSUME TypeOK, SafetyInv, NEW w \in Worker, Running(wk[w]),
           NEW step \in Steps, step # "commit"
    PROVE  /\ To(wk[w], step) \in CallState
           /\ Backed(To(wk[w], step))
           /\ Keeps(To(wk[w], step), w)
<1>1. wk[w] \in CallState /\ Backed(wk[w]) /\ wk[w].at \in Nat
  BY CallTyped, CallBacked DEF CallState
<1>2. Backed(To(wk[w], step)) /\ To(wk[w], step).at = wk[w].at
  BY <1>1, BackedTo
<1>3. To(wk[w], step) \in CallState
  BY <1>1, CallUpdatesTyped
<1> QED BY <1>1, <1>2, <1>3 DEF Keeps

(* A call edited from a running one moves to another step. *)
LEMMA EditedBacked ==
    ASSUME TypeOK, NEW w \in Worker, Running(wk[w]), NEW s \in CallState, Backed(s),
           s.at = wk[w].at, NEW step \in Steps, step # "commit"
    PROVE  /\ To(s, step) \in CallState
           /\ Backed(To(s, step))
           /\ Keeps(To(s, step), w)
<1>1. Backed(To(s, step)) /\ To(s, step).at = wk[w].at
  BY BackedTo
<1>2. To(s, step) \in CallState
  BY CallUpdatesTyped
<1>3. wk[w].at \in Nat
  BY CallTyped DEF CallState
<1> QED BY <1>1, <1>2, <1>3 DEF Keeps

(* A call state made from a running one that keeps its token. *)
LEMMA SameTokenKeeps ==
    ASSUME TypeOK, NEW w \in Worker, Running(wk[w]), NEW s, s.at = wk[w].at
    PROVE  Keeps(s, w)
BY CallTyped DEF Keeps, CallState

--------------------------------------------------------------------------------

(* Initially the receipt is absent and every call is idle. *)
LEMMA SafetyInit == Init => SafetyInv
<1> SUFFICES ASSUME Init PROVE SafetyInv
  OBVIOUS
<1>1. Justified([r \in Record |-> NoOutcome], [r \in Record |-> NoProgress], stored, wrote)
  BY DEF Justified, Successful, NoOutcome, NoProgress
<1>2. \A w \in Worker : wk[w] = IdleCall
  BY DEF Init
<1>3. AttributionInv
  BY <1>1, <1>2 DEF Init, AttributionInv, AbsentReceipt, IdleCall
<1>4. LeaseInv
  BY <1>2 DEF Init, LeaseInv, OneLeaseHolder, AbsentReceipt, IdleCall
<1> QED BY <1>3, <1>4 DEF SafetyInv

(* Every action preserves the invariant. *)
LEMMA SafetyStep == TypeOK /\ SafetyInv /\ [Next]_vars => SafetyInv'
<1> SUFFICES ASSUME TypeOK, SafetyInv, [Next]_vars PROVE SafetyInv'
  OBVIOUS
<1>1. ASSUME NEW w \in Worker, Reserve(w) PROVE SafetyInv'
  <2> DEFINE s == [IdleCall EXCEPT !.pc = "preflight", !.at = 1]
  <2>1. s.at = 1 /\ s.pc = "preflight" /\ s.outs = IdleCall.outs /\ s.prog = IdleCall.prog
    BY DEF IdleCall
  <2> HIDE DEF s
  <2>2. wk \in [Worker -> CallState] /\ wk' = [wk EXCEPT ![w] = s]
    BY <1>1 DEF TypeOK, Reserve, Go, s
  <2>3. receipt.at = 0 /\ \A v \in Worker : wk[v].at \in Nat /\ wk[v].at <= receipt.at
    BY <1>1, <2>2 DEF SafetyInv, LeaseInv, Reserve, CallState
  <2>4. \A v \in Worker : wk[v].at = 0
    BY <2>3
  <2>5. /\ receipt'.at = 1 /\ receipt'.status = "processing"
        /\ receipt'.outcome = receipt.outcome /\ receipt'.progress = receipt.progress
    BY <1>1 DEF TypeOK, Receipt, Reserve
  <2>6. LeaseInv'
    BY <2>1, <2>2, <2>4, <2>5 DEF LeaseInv, OneLeaseHolder
  <2>7. Justified(IdleCall.outs, IdleCall.prog, stored, wrote)
    BY IdleBacked DEF Backed
  <2>8. stored' = stored /\ wrote' = wrote
    BY <1>1 DEF Reserve, providerVars
  <2>9. Justified(receipt'.outcome, receipt'.progress, stored, wrote)
    BY <2>5 DEF SafetyInv, AttributionInv
  <2>10. ASSUME NEW v \in Worker
         PROVE  /\ Justified(wk'[v].outs, wk'[v].prog, stored, wrote)
                /\ wk'[v].pc = "commit" => wk'[v].i \in DOMAIN Order /\ stored[Order[wk'[v].i]]
    BY <2>1, <2>2, <2>7 DEF SafetyInv, AttributionInv, Current
  <2>11. AttributionInv'
    BY <2>8, <2>9, <2>10 DEF AttributionInv, Current
  <2> QED BY <2>6, <2>11 DEF SafetyInv
<1>2. ASSUME NEW w \in Worker, Replay(w) PROVE SafetyInv'
  BY <1>2 DEF Replay, providerVars, SafetyInv, AttributionInv, LeaseInv, OneLeaseHolder, Current
<1>3. ASSUME NEW w \in Worker, ReadReceipt(w) PROVE SafetyInv'
  <2> DEFINE s == [IdleCall EXCEPT !.pc = "resume", !.at = receipt.at,
                                   !.outs = receipt.outcome, !.prog = receipt.progress]
  <2>1. /\ s.at = receipt.at /\ s.pc = "resume"
        /\ s.outs = receipt.outcome /\ s.prog = receipt.progress
    BY DEF IdleCall
  <2> HIDE DEF s
  <2>2. wk \in [Worker -> CallState] /\ wk' = [wk EXCEPT ![w] = s] /\ receipt.at \in Nat
    BY <1>3 DEF TypeOK, ReadReceipt, Go, s, Receipt
  <2>3. UNCHANGED <<receipt, stored, wrote>>
    BY <1>3 DEF ReadReceipt, providerVars
  <2>4. LeaseInv'
    BY <2>1, <2>2, <2>3 DEF SafetyInv, LeaseInv, OneLeaseHolder
  <2>5. AttributionInv'
    BY <2>1, <2>2, <2>3 DEF SafetyInv, AttributionInv, Current
  <2> QED BY <2>4, <2>5 DEF SafetyInv
<1>4. ASSUME NEW w \in Worker, Resume(w) PROVE SafetyInv'
  <2> DEFINE outs == SuccessfulOutcomes(wk[w].outs)
             p    == Candidate(w, "processing", outs, wk[w].prog)
             s    == [wk[w] EXCEPT !.pc = "preflight", !.outs = outs]
  <2>0. wk[w] \in CallState /\ Backed(wk[w])
    BY CallTyped, CallBacked
  <2>1. outs \in [Record -> Outcome] /\ wk[w].prog \in [Record -> Progress]
    BY <2>0, SuccessfulOutcomesTyped DEF CallState
  <2>2. Justified(outs, wk[w].prog, stored, wrote)
    BY <2>0, SuccessfulJustified DEF Backed
  <2>3. UpdatePackage(w, p, s, IdleCall) /\ UNCHANGED <<stored, wrote>>
    BY <1>4 DEF Resume, providerVars
  <2> HIDE DEF outs
  <2>4. s \in CallState /\ s.outs = outs /\ s.prog = wk[w].prog /\ s.pc = "preflight"
    BY <2>0, <2>1 DEF CallState, Steps
  <2>5. p \in Receipt
    BY <2>1, CandidateTyped DEF ReceiptStatus
  <2>6. p.status # "absent" /\ p.at = wk[w].at + 1 /\ p.outcome = outs /\ p.progress = wk[w].prog
    BY DEF Candidate
  <2> HIDE DEF p, s
  <2>7. Backed(s) /\ Justified(p.outcome, p.progress, stored, wrote)
    BY <2>2, <2>4, <2>6 DEF Backed
  <2> QED BY <2>3, <2>4, <2>5, <2>6, <2>7, IdleBacked, UpdateStep
<1>5. ASSUME NEW w \in Worker, Preflight(w) PROVE SafetyInv'
  <2>0. wk[w] \in CallState /\ Backed(wk[w]) /\ Running(wk[w])
    BY <1>5, CallTyped, CallBacked DEF Preflight, InLoop, At, Running
  <2>1. UNCHANGED <<receipt, stored, wrote>>
    BY <1>5 DEF Preflight, providerVars
  <2>2. ASSUME NEW held \in SUBSET Record
        PROVE  LET s == [wk[w] EXCEPT !.pc = "record", !.held = held]
               IN  s \in CallState /\ Backed(s) /\ s.at = wk[w].at
    BY <2>0 DEF CallState, Steps, Backed
  <2>3. To(wk[w], "fail") \in CallState /\ Backed(To(wk[w], "fail"))
                                        /\ Keeps(To(wk[w], "fail"), w)
    BY <2>0, MoveBacked DEF Steps
  <2>4. ASSUME NEW held \in SUBSET Record, Go(w, [wk[w] EXCEPT !.pc = "record", !.held = held])
        PROVE  SafetyInv'
    BY <2>0, <2>1, <2>2, <2>4, SameTokenKeeps, QuietStep
  <2>5. CASE Go(w, To(wk[w], "fail"))
    BY <2>1, <2>3, <2>5, QuietStep
  <2> QED BY <1>5, <2>4, <2>5 DEF Preflight
<1>6. ASSUME NEW w \in Worker, SkipRecord(w) PROVE SafetyInv'
  <2>0. wk[w] \in CallState /\ Backed(wk[w]) /\ Running(wk[w])
    BY <1>6, CallTyped, CallBacked DEF SkipRecord, InLoop, At, Running
  <2>1. Current(w) \in Record
    BY <1>6, CurrentTyped DEF SkipRecord
  <2>2. UNCHANGED <<receipt, stored, wrote>>
    BY <1>6 DEF SkipRecord, providerVars
  <2>3. LET s == NextRecord(wk[w]) IN s \in CallState /\ Backed(s) /\ Keeps(s, w)
    BY <2>0, CallUpdatesTyped, BackedOther, SameTokenKeeps
  <2> QED BY <1>6, <2>2, <2>3, QuietStep DEF SkipRecord
<1>7. ASSUME NEW w \in Worker, HoldRecord(w) PROVE SafetyInv'
  <2>0. wk[w] \in CallState /\ Backed(wk[w]) /\ Running(wk[w])
    BY <1>7, CallTyped, CallBacked DEF HoldRecord, InLoop, At, Running
  <2>1. Current(w) \in Record
    BY <1>7, CurrentTyped DEF HoldRecord
  <2>2. UNCHANGED <<receipt, stored, wrote>>
    BY <1>7 DEF HoldRecord, providerVars
  <2>3. HoldingOutcome \in Outcome /\ ~Successful(HoldingOutcome)
                                  /\ HoldingOutcome.status # "created"
    BY ConstantsTyped DEF HoldingOutcome, Successful
  <2>4. LET s == WithOutcome(wk[w], Current(w), HoldingOutcome)
        IN  s \in CallState /\ Backed(s) /\ s.at = wk[w].at
    BY <2>0, <2>1, <2>3, CallUpdatesTyped, BackedWithOutcome
  <2>5. LET s == NextRecord(WithOutcome(wk[w], Current(w), HoldingOutcome))
        IN  s \in CallState /\ Backed(s) /\ Keeps(s, w)
    BY <2>0, <2>4, CallUpdatesTyped, BackedOther, SameTokenKeeps
  <2> QED BY <1>7, <2>2, <2>5, QuietStep DEF HoldRecord
<1>8. ASSUME NEW w \in Worker, ResumeRecord(w) PROVE SafetyInv'
  <2>0. wk[w] \in CallState /\ Backed(wk[w]) /\ Running(wk[w])
    BY <1>8, CallTyped, CallBacked DEF ResumeRecord, InLoop, At, Running
  <2>1. Current(w) \in Record
    BY <1>8, CurrentTyped DEF ResumeRecord
  <2>2. UNCHANGED <<receipt, stored, wrote>>
    BY <1>8 DEF ResumeRecord, providerVars
  <2>3. LET s == To(wk[w], "register") IN s \in CallState /\ Backed(s) /\ Keeps(s, w)
    BY <2>0, MoveBacked DEF Steps
  <2> QED BY <1>8, <2>2, <2>3, QuietStep DEF ResumeRecord
<1>9. ASSUME NEW w \in Worker, InspectRecord(w) PROVE SafetyInv'
  <2>0. wk[w] \in CallState /\ Backed(wk[w]) /\ Running(wk[w])
    BY <1>9, CallTyped, CallBacked DEF InspectRecord, InLoop, At, Running
  <2>1. Current(w) \in Record
    BY <1>9, CurrentTyped DEF InspectRecord
  <2>2. UNCHANGED <<receipt, stored, wrote>>
    BY <1>9 DEF InspectRecord, providerVars
  <2> DEFINE g == Intent(~stored[Current(w)])
             t == WithProgress(wk[w], Current(w), g)
  <2>3. g \in Progress /\ (g.expected /\ stored[Current(w)] => wrote[Current(w)])
    BY ConstantsTyped DEF Intent, Progress, NoProgress
  <2> HIDE DEF g
  <2>4. t \in CallState /\ Backed(t) /\ t.at = wk[w].at
    BY <2>0, <2>1, <2>3, CallUpdatesTyped, BackedWithProgress
  <2>5. To(t, "intent") \in CallState /\ Backed(To(t, "intent")) /\ Keeps(To(t, "intent"), w)
    <3> HIDE DEF t
    <3> QED BY <2>0, <2>4, EditedBacked DEF Steps
  <2>6. LET s == FailingWith(w, NoProgress) IN s \in CallState /\ Backed(s) /\ Keeps(s, w)
    BY <2>0, <2>1, ProgJustified, FailingBacked
  <2> USE DEF g, t
  <2> QED BY <1>9, <2>2, <2>5, <2>6, QuietStep DEF InspectRecord
<1>10. ASSUME NEW w \in Worker, ReserveIntent(w) PROVE SafetyInv'
  <2>0. wk[w] \in CallState /\ Backed(wk[w]) /\ Running(wk[w])
    BY <1>10, CallTyped, CallBacked DEF ReserveIntent, InLoop, At, Running
  <2>1. Current(w) \in Record
    BY <1>10, CurrentTyped DEF ReserveIntent
  <2>2. UNCHANGED <<stored, wrote>>
    BY <1>10 DEF ReserveIntent, providerVars
  <2>3. /\ wk[w].outs \in [Record -> Outcome] /\ wk[w].prog \in [Record -> Progress]
        /\ Justified(wk[w].outs, wk[w].prog, stored, wrote)
    BY <2>0 DEF CallState, Backed
  <2>4. LET s == To(wk[w], "register") IN s \in CallState /\ Backed(s) /\ Keeps(s, w)
    BY <2>0, MoveBacked DEF Steps
  <2>5. LET s == FailingWith(w, NoProgress) IN s \in CallState /\ Backed(s) /\ Keeps(s, w)
    BY <2>0, <2>1, ProgJustified, FailingBacked
  <2>6. Checkpoint(w, wk[w].outs, wk[w].prog, To(wk[w], "register"), FailingWith(w, NoProgress))
    BY <1>10 DEF ReserveIntent
  <2> QED BY <2>2, <2>3, <2>4, <2>5, <2>6, CheckpointStep
<1>11. ASSUME NEW w \in Worker, RegisterOwnership(w) PROVE SafetyInv'
  <2>0. wk[w] \in CallState /\ Backed(wk[w]) /\ Running(wk[w])
    BY <1>11, CallTyped, CallBacked DEF RegisterOwnership, InLoop, At, Running
  <2>1. Current(w) \in Record
    BY <1>11, CurrentTyped DEF RegisterOwnership
  <2>2. UNCHANGED <<receipt, stored, wrote>>
    BY <1>11 DEF RegisterOwnership, providerVars
  <2>3. own[Current(w)].stamp \in Nat /\ own[Current(w)].stamp + 1 \in Nat
    BY <2>1 DEF TypeOK, Ownership
  <2>4. LET s == To(wk[w], "lockError") IN s \in CallState /\ Backed(s) /\ Keeps(s, w)
    BY <2>0, MoveBacked DEF Steps
  <2>5. ASSUME NEW stamp \in Nat, NEW locked \in BOOLEAN, NEW created \in BOOLEAN
        PROVE  LET s == WithRegistration(wk[w], stamp, locked, created)
               IN  s \in CallState /\ Backed(s) /\ s.at = wk[w].at
    <3>1. WithRegistration(wk[w], stamp, locked, created) \in CallState
      BY <2>0, CallUpdatesTyped
    <3>2. LET s == WithRegistration(wk[w], stamp, locked, created)
          IN  Backed(s) /\ s.at = wk[w].at
      BY <2>0, BackedOther
    <3> QED BY <3>1, <3>2
  <2>6. ASSUME NEW step \in {"regAudit", "ownership"}, NEW stamp \in Nat,
               NEW locked \in BOOLEAN, NEW created \in BOOLEAN,
               Go(w, To(WithRegistration(wk[w], stamp, locked, created), step))
        PROVE  SafetyInv'
    <3> DEFINE t == WithRegistration(wk[w], stamp, locked, created)
    <3>1. t \in CallState /\ Backed(t) /\ t.at = wk[w].at
      BY <2>5
    <3>2. Go(w, To(t, step))
      BY <2>6
    <3> HIDE DEF t
    <3>3. step \in Steps /\ step # "commit"
      BY DEF Steps
    <3>4. To(t, step) \in CallState /\ Backed(To(t, step)) /\ Keeps(To(t, step), w)
      BY <2>0, <3>1, <3>3, EditedBacked
    <3> QED BY <2>2, <3>2, <3>4, QuietStep
  <2>7. CASE Go(w, To(wk[w], "lockError"))
    BY <2>2, <2>4, <2>7, QuietStep
  <2>8. \/ Go(w, To(WithRegistration(wk[w], own[Current(w)].stamp + 1, TRUE, TRUE), "regAudit"))
        \/ Go(w, To(WithRegistration(wk[w], own[Current(w)].stamp,
                                     own[Current(w)].state = "locked", FALSE), "ownership"))
        \/ Go(w, To(wk[w], "lockError"))
    BY <1>11 DEF RegisterOwnership
  <2> QED BY <2>3, <2>6, <2>7, <2>8
<1>12. ASSUME NEW w \in Worker, AuditOwnership(w) PROVE SafetyInv'
  <2>0. wk[w] \in CallState /\ Backed(wk[w]) /\ Running(wk[w])
    BY <1>12, CallTyped, CallBacked DEF AuditOwnership, InLoop, At, Running
  <2>1. Current(w) \in Record
    BY <1>12, CurrentTyped DEF AuditOwnership
  <2>2. UNCHANGED <<receipt, stored, wrote>>
    BY <1>12 DEF AuditOwnership, providerVars
  <2>3. LET s == To(wk[w], "ownership") IN s \in CallState /\ Backed(s) /\ Keeps(s, w)
    BY <2>0, MoveBacked DEF Steps
  <2>4. LET s == To(wk[w], "rollback") IN s \in CallState /\ Backed(s) /\ Keeps(s, w)
    BY <2>0, MoveBacked DEF Steps
  <2> QED BY <1>12, <2>2, <2>3, <2>4, QuietStep DEF AuditOwnership
<1>13. ASSUME NEW w \in Worker, RollbackOwnership(w) PROVE SafetyInv'
  <2>0. wk[w] \in CallState /\ Backed(wk[w]) /\ Running(wk[w])
    BY <1>13, CallTyped, CallBacked DEF RollbackOwnership, InLoop, At, Running
  <2>1. Current(w) \in Record
    BY <1>13, CurrentTyped DEF RollbackOwnership
  <2>2. UNCHANGED <<receipt, stored, wrote>>
    BY <1>13 DEF RollbackOwnership, providerVars
  <2> DEFINE t == [wk[w] EXCEPT !.reg = NoRegistration]
  <2>3. t \in CallState /\ Backed(t) /\ t.at = wk[w].at
    BY <2>0, ConstantsTyped DEF CallState, Backed
  <2>4. To(t, "lockError") \in CallState /\ Backed(To(t, "lockError"))
                                         /\ Keeps(To(t, "lockError"), w)
    <3> HIDE DEF t
    <3> QED BY <2>0, <2>3, EditedBacked DEF Steps
  <2> QED BY <1>13, <2>2, <2>4, QuietStep DEF RollbackOwnership
<1>14. ASSUME NEW w \in Worker, ReconcileOwnership(w) PROVE SafetyInv'
  <2>0. wk[w] \in CallState /\ Backed(wk[w]) /\ Running(wk[w])
    BY <1>14, CallTyped, CallBacked DEF ReconcileOwnership, InLoop, At, Running
  <2>1. Current(w) \in Record
    BY <1>14, CurrentTyped DEF ReconcileOwnership
  <2>2. UNCHANGED <<receipt, stored, wrote>>
    BY <1>14 DEF ReconcileOwnership, providerVars
  <2> DEFINE g == [Prog(w) EXCEPT !.ready = TRUE, !.created = TRUE, !.locked = TRUE]
  <2>3. LET s == FailingWith(w, NoProgress) IN s \in CallState /\ Backed(s) /\ Keeps(s, w)
    BY <2>0, <2>1, ProgJustified, FailingBacked
  <2>4. LET s == FailingWith(w, Prog(w)) IN s \in CallState /\ Backed(s) /\ Keeps(s, w)
    BY <2>0, <2>1, ProgJustified, FailingBacked
  <2>5. FailingWith(w, g) \in CallState /\ Backed(FailingWith(w, g)) /\ Keeps(FailingWith(w, g), w)
    <3>1. g \in Progress /\ g.expected = Prog(w).expected
      BY <2>1, ProgTyped DEF Progress
    <3> HIDE DEF g
    <3> QED BY <2>0, <2>1, <3>1, ProgJustified, FailingBacked
  <2> QED BY <1>14, <2>2, <2>3, <2>4, <2>5, QuietStep DEF ReconcileOwnership
<1>15. ASSUME NEW w \in Worker, CheckpointOwnership(w) PROVE SafetyInv'
  <2>0. wk[w] \in CallState /\ Backed(wk[w]) /\ Running(wk[w])
    BY <1>15, CallTyped, CallBacked DEF CheckpointOwnership, InLoop, At, Running
  <2>1. Current(w) \in Record
    BY <1>15, CurrentTyped DEF CheckpointOwnership
  <2>2. UNCHANGED <<stored, wrote>>
    BY <1>15 DEF CheckpointOwnership, providerVars
  <2> DEFINE g   == WithOwnership(Prog(w), wk[w].reg)
             new == WithProgress(wk[w], Current(w), g)
  <2>3. g \in Progress /\ g.expected = Prog(w).expected
    <3>1. Prog(w) \in Progress
      BY <2>1, ProgTyped
    <3>2. wk[w].reg \in Registration
      BY <2>0 DEF CallState
    <3> QED BY <3>1, <3>2 DEF WithOwnership, Progress, Registration
  <2> HIDE DEF g
  <2>4. new \in CallState /\ Backed(new) /\ new.at = wk[w].at /\ new.outs = wk[w].outs
    <3>1. g.expected /\ stored[Current(w)] => wrote[Current(w)]
      BY <2>1, <2>3, ProgJustified
    <3>2. new \in CallState
      BY <2>0, <2>1, <2>3, CallUpdatesTyped
    <3>3. Backed(new) /\ new.at = wk[w].at
      BY <2>0, <2>1, <2>3, <3>1, BackedWithProgress
    <3>4. new.outs = wk[w].outs
      BY <2>0 DEF WithProgress, CallState
    <3> QED BY <3>2, <3>3, <3>4
  <2> HIDE DEF new
  <2>5. /\ wk[w].outs \in [Record -> Outcome] /\ new.prog \in [Record -> Progress]
        /\ Justified(wk[w].outs, new.prog, stored, wrote)
    BY <2>0, <2>4 DEF CallState, Backed
  <2>6. ASSUME NEW step \in {"calling", "cleanup"}
        PROVE  LET s == To(new, step) IN s \in CallState /\ Backed(s) /\ Keeps(s, w)
    <3>1. step \in Steps /\ step # "commit"
      BY DEF Steps
    <3> QED BY <2>0, <2>4, <3>1, EditedBacked
  <2>7. CASE Checkpoint(w, wk[w].outs, new.prog, To(new, "calling"), To(new, "cleanup"))
    BY <2>2, <2>5, <2>6, <2>7, CheckpointStep
  <2>8. CASE Go(w, To(wk[w], "calling")) /\ UNCHANGED receipt
    <3>1. LET s == To(wk[w], "calling") IN s \in CallState /\ Backed(s) /\ Keeps(s, w)
      BY <2>0, MoveBacked DEF Steps
    <3> QED BY <2>2, <2>8, <3>1, QuietStep
  <2> QED BY <1>15, <2>7, <2>8 DEF CheckpointOwnership, g, new
<1>16. ASSUME NEW w \in Worker, CleanupOwnership(w) PROVE SafetyInv'
  <2>0. wk[w] \in CallState /\ Backed(wk[w]) /\ Running(wk[w])
    BY <1>16, CallTyped, CallBacked DEF CleanupOwnership, InLoop, At, Running
  <2>1. Current(w) \in Record
    BY <1>16, CurrentTyped DEF CleanupOwnership
  <2>2. UNCHANGED <<receipt, stored, wrote>>
    BY <1>16 DEF CleanupOwnership, providerVars
  <2>3. LET s == FailingWith(w, NoProgress) IN s \in CallState /\ Backed(s) /\ Keeps(s, w)
    BY <2>0, <2>1, ProgJustified, FailingBacked
  <2>4. LET s == FailingWith(w, Prog(w)) IN s \in CallState /\ Backed(s) /\ Keeps(s, w)
    BY <2>0, <2>1, ProgJustified, FailingBacked
  <2> QED BY <1>16, <2>2, <2>3, <2>4, QuietStep DEF CleanupOwnership
<1>17. ASSUME NEW w \in Worker, ProviderCommits(w) PROVE SafetyInv'
  <2>0. wk[w] \in CallState /\ Backed(wk[w]) /\ Running(wk[w])
    BY <1>17, CallTyped, CallBacked DEF ProviderCommits, InLoop, At, Running
  <2>1. Current(w) \in Record
    BY <1>17, CurrentTyped DEF ProviderCommits
  <2>2. wk[w].i \in DOMAIN Order /\ receipt' = receipt
    BY <1>17 DEF ProviderCommits, InLoop
  <2>3. ASSUME NEW e \in {"none", "error", "dependency", "leaseLost"}, NEW step \in Steps
        PROVE  LET s == To(WithError(wk[w], e), step)
               IN  /\ s \in CallState /\ s.outs = wk[w].outs /\ s.prog = wk[w].prog
                   /\ s.i = wk[w].i /\ s.at = wk[w].at /\ s.pc = step
    BY <2>0, ErrorMove
  <2>4. LET s == To(wk[w], "commit")
        IN  /\ s \in CallState /\ s.outs = wk[w].outs /\ s.prog = wk[w].prog
            /\ s.i = wk[w].i /\ s.at = wk[w].at
    <3>1. To(wk[w], "commit") \in CallState
      BY <2>0, CallUpdatesTyped DEF Steps
    <3> QED BY <2>0, <3>1 DEF To, CallState
  <2>5. CASE ProviderWrites(Current(w), TRUE) /\ Go(w, To(wk[w], "commit"))
    BY <2>0, <2>1, <2>2, <2>4, <2>5, WriteStep
  <2>6. CASE ProviderWrites(Current(w), FALSE) /\ Go(w, To(WithError(wk[w], "error"), "commit"))
    <3>1. "commit" \in Steps
      BY DEF Steps
    <3> DEFINE s == To(WithError(wk[w], "error"), "commit")
    <3>2. /\ s \in CallState /\ s.outs = wk[w].outs /\ s.prog = wk[w].prog
          /\ s.i = wk[w].i /\ s.at = wk[w].at
      BY <2>3, <3>1
    <3>3. Go(w, s)
      BY <2>6
    <3> HIDE DEF s
    <3> QED BY <2>0, <2>1, <2>2, <2>6, <3>2, <3>3, WriteStep
  <2> QED BY <1>17, <2>5, <2>6 DEF ProviderCommits
<1>18. ASSUME NEW w \in Worker, ProviderRefuses(w) PROVE SafetyInv'
  <2>0. wk[w] \in CallState /\ Backed(wk[w]) /\ Running(wk[w])
    BY <1>18, CallTyped, CallBacked DEF ProviderRefuses, InLoop, At, Running
  <2>1. Current(w) \in Record
    BY <1>18, CurrentTyped DEF ProviderRefuses
  <2>2. UNCHANGED <<receipt, stored, wrote>>
    BY <1>18 DEF ProviderRefuses, providerVars
  <2>3. ASSUME NEW e \in {"none", "error", "dependency", "leaseLost"}
        PROVE  LET s == To(WithError(wk[w], e), "verify")
               IN  s \in CallState /\ Backed(s) /\ Keeps(s, w)
    <3>1. LET t == WithError(wk[w], e) IN t \in CallState /\ Backed(t) /\ t.at = wk[w].at
      BY <2>0, CallUpdatesTyped, BackedOther
    <3>2. LET s == To(WithError(wk[w], e), "verify")
          IN  s \in CallState /\ Backed(s) /\ s.at = wk[w].at
      BY <3>1, CallUpdatesTyped, BackedTo DEF Steps
    <3> QED BY <2>0, <3>2, SameTokenKeeps
  <2> QED BY <1>18, <2>2, <2>3, QuietStep DEF ProviderRefuses
<1>19. ASSUME NEW w \in Worker, ProviderFails(w) PROVE SafetyInv'
  <2>0. wk[w] \in CallState /\ Backed(wk[w]) /\ Running(wk[w])
    BY <1>19, CallTyped, CallBacked DEF ProviderFails, InLoop, At, Running
  <2>1. Current(w) \in Record
    BY <1>19, CurrentTyped DEF ProviderFails
  <2>2. wk[w].i \in DOMAIN Order /\ receipt' = receipt
    BY <1>19 DEF ProviderFails, InLoop
  <2>3. ASSUME NEW e \in {"none", "error", "dependency", "leaseLost"}, NEW step \in Steps
        PROVE  LET s == To(WithError(wk[w], e), step)
               IN  /\ s \in CallState /\ s.outs = wk[w].outs /\ s.prog = wk[w].prog
                   /\ s.i = wk[w].i /\ s.at = wk[w].at /\ s.pc = step
    BY <2>0, ErrorMove
  <2>4. ASSUME NEW e \in {"none", "error", "dependency", "leaseLost"}
        PROVE  LET s == To(WithError(wk[w], e), "verify")
               IN  s \in CallState /\ Backed(s) /\ Keeps(s, w)
    <3>1. LET t == WithError(wk[w], e) IN t \in CallState /\ Backed(t) /\ t.at = wk[w].at
      BY <2>0, CallUpdatesTyped, BackedOther
    <3>2. LET s == To(WithError(wk[w], e), "verify")
          IN  s \in CallState /\ Backed(s) /\ s.at = wk[w].at
      BY <3>1, CallUpdatesTyped, BackedTo DEF Steps
    <3> QED BY <2>0, <3>2, SameTokenKeeps
  <2>5. Go(w, To(WithError(wk[w], "error"), "verify"))
    BY <1>19 DEF ProviderFails
  <2>6. CASE UNCHANGED providerVars
    BY <2>2, <2>4, <2>5, <2>6, QuietStep DEF providerVars
  <2>7. CASE ProviderWrites(Current(w), FALSE)
    <3>1. "verify" \in Steps
      BY DEF Steps
    <3> DEFINE s == To(WithError(wk[w], "error"), "verify")
    <3>2. /\ s \in CallState /\ s.outs = wk[w].outs /\ s.prog = wk[w].prog
          /\ s.i = wk[w].i /\ s.at = wk[w].at
      BY <2>3, <3>1
    <3>3. Go(w, s)
      BY <2>5
    <3> HIDE DEF s
    <3> QED BY <2>0, <2>1, <2>2, <2>7, <3>2, <3>3, WriteStep
  <2> QED BY <1>19, <2>6, <2>7 DEF ProviderFails
<1>20. ASSUME NEW w \in Worker, LeaseLost(w) PROVE SafetyInv'
  <2>0. wk[w] \in CallState /\ Backed(wk[w]) /\ Running(wk[w])
    BY <1>20, CallTyped, CallBacked DEF LeaseLost, InLoop, At, Running
  <2>1. Current(w) \in Record
    BY <1>20, CurrentTyped DEF LeaseLost
  <2>2. wk[w].i \in DOMAIN Order /\ receipt' = receipt
    BY <1>20 DEF LeaseLost, InLoop
  <2>3. ASSUME NEW e \in {"none", "error", "dependency", "leaseLost"}, NEW step \in Steps
        PROVE  LET s == To(WithError(wk[w], e), step)
               IN  /\ s \in CallState /\ s.outs = wk[w].outs /\ s.prog = wk[w].prog
                   /\ s.i = wk[w].i /\ s.at = wk[w].at /\ s.pc = step
    BY <2>0, ErrorMove
  <2>4. ASSUME NEW e \in {"none", "error", "dependency", "leaseLost"}
        PROVE  LET s == To(WithError(wk[w], e), "verify")
               IN  s \in CallState /\ Backed(s) /\ Keeps(s, w)
    <3>1. LET t == WithError(wk[w], e) IN t \in CallState /\ Backed(t) /\ t.at = wk[w].at
      BY <2>0, CallUpdatesTyped, BackedOther
    <3>2. LET s == To(WithError(wk[w], e), "verify")
          IN  s \in CallState /\ Backed(s) /\ s.at = wk[w].at
      BY <3>1, CallUpdatesTyped, BackedTo DEF Steps
    <3> QED BY <2>0, <3>2, SameTokenKeeps
  <2>5. CASE Go(w, To(WithError(wk[w], "leaseLost"), "verify")) /\ UNCHANGED providerVars
    BY <2>2, <2>4, <2>5, QuietStep DEF providerVars
  <2>6. ASSUME NEW step \in {"verify", "commit"}, NEW audited \in BOOLEAN,
               ProviderWrites(Current(w), audited),
               Go(w, To(WithError(wk[w], "leaseLost"), step))
        PROVE  SafetyInv'
    <3>1. step \in Steps
      BY DEF Steps
    <3> DEFINE s == To(WithError(wk[w], "leaseLost"), step)
    <3>2. /\ s \in CallState /\ s.outs = wk[w].outs /\ s.prog = wk[w].prog
          /\ s.i = wk[w].i /\ s.at = wk[w].at
      BY <2>3, <3>1
    <3>3. Go(w, s)
      BY <2>6
    <3> HIDE DEF s
    <3> QED BY <2>0, <2>1, <2>2, <2>6, <3>2, <3>3, WriteStep
  <2> QED BY <1>20, <2>5, <2>6 DEF LeaseLost
<1>21. ASSUME NEW w \in Worker, Heartbeat(w) PROVE SafetyInv'
  <2>0. wk[w] \in CallState /\ Backed(wk[w]) /\ Running(wk[w])
    BY <1>21, CallTyped, CallBacked DEF Heartbeat, InLoop, At, Running
  <2> DEFINE s == [wk[w] EXCEPT !.at = wk[w].at + 1]
  <2>1. /\ s.at = receipt.at + 1 /\ s.pc = wk[w].pc /\ s.i = wk[w].i
        /\ s.outs = wk[w].outs /\ s.prog = wk[w].prog
    BY <1>21, <2>0 DEF Heartbeat, CallState
  <2> HIDE DEF s
  <2>2. wk \in [Worker -> CallState] /\ wk' = [wk EXCEPT ![w] = s]
    BY <1>21 DEF TypeOK, Heartbeat, Go, s
  <2>3. /\ receipt'.at = receipt.at + 1 /\ receipt'.status = receipt.status
        /\ receipt'.outcome = receipt.outcome /\ receipt'.progress = receipt.progress
        /\ stored' = stored /\ wrote' = wrote
    BY <1>21 DEF TypeOK, Receipt, Heartbeat, providerVars
  <2>4. receipt.at \in Nat /\ \A v \in Worker : wk[v].at \in Nat /\ wk[v].at <= receipt.at
    BY <2>2 DEF SafetyInv, LeaseInv, CallState, TypeOK, Receipt
  <2>5. \A v \in Worker : wk'[v].at <= receipt'.at /\ (wk'[v].at = receipt'.at => v = w)
    <3> TAKE v \in Worker
    <3>1. CASE v = w
      BY <2>1, <2>2, <2>3, <2>4, <3>1
    <3>2. CASE v # w
      <4>1. wk'[v] = wk[v]
        BY <2>2, <3>2
      <4> QED BY <2>3, <2>4, <4>1
    <3> QED BY <3>1, <3>2
  <2>6. receipt.status # "absent"
    BY <1>21 DEF Heartbeat
  <2>7. AttributionInv'
    BY <2>1, <2>2, <2>3 DEF SafetyInv, AttributionInv, Current
  <2>8. OneLeaseHolder'
    BY <2>5 DEF OneLeaseHolder
  <2> QED BY <2>3, <2>5, <2>6, <2>7, <2>8 DEF SafetyInv, LeaseInv
<1>22. ASSUME NEW w \in Worker, VerifyCommit(w) PROVE SafetyInv'
  <2>0. wk[w] \in CallState /\ Backed(wk[w]) /\ Running(wk[w])
    BY <1>22, CallTyped, CallBacked DEF VerifyCommit, InLoop, At, Running
  <2>1. Current(w) \in Record
    BY <1>22, CurrentTyped DEF VerifyCommit
  <2>2. UNCHANGED <<receipt, stored, wrote>>
    BY <1>22 DEF VerifyCommit, providerVars
  <2>3. LET s == To(wk[w], "compensate") IN s \in CallState /\ Backed(s) /\ Keeps(s, w)
    BY <2>0, MoveBacked DEF Steps
  <2>4. LET s == FailingWith(w, Prog(w)) IN s \in CallState /\ Backed(s) /\ Keeps(s, w)
    BY <2>0, <2>1, ProgJustified, FailingBacked
  <2>5. CASE stored[Current(w)] /\ Go(w, To(wk[w], "commit"))
    <3>1. To(wk[w], "commit") \in CallState
      BY <2>0, CallUpdatesTyped DEF Steps
    <3>2. LET s == To(wk[w], "commit")
          IN  s.outs = wk[w].outs /\ s.prog = wk[w].prog /\ s.i = wk[w].i /\ s.at = wk[w].at
      BY <2>0 DEF To, CallState
    <3>3. wk[w].i \in DOMAIN Order
      BY <1>22 DEF VerifyCommit, InLoop
    <3>4. Backed(To(wk[w], "commit"))
      BY <2>0, <2>5, <3>2, <3>3 DEF Backed, Current
    <3> QED BY <2>0, <2>2, <2>5, <3>1, <3>2, <3>4, SameTokenKeeps, QuietStep
  <2>6. CASE Go(w, IdleCall)
    BY <2>2, <2>6, IdleBacked, QuietStep
  <2>7. CASE Go(w, To(wk[w], "compensate"))
    BY <2>2, <2>3, <2>7, QuietStep
  <2>8. CASE Go(w, FailingWith(w, Prog(w)))
    BY <2>2, <2>4, <2>8, QuietStep
  <2> QED BY <1>22, <2>5, <2>6, <2>7, <2>8 DEF VerifyCommit
<1>23. ASSUME NEW w \in Worker, CheckpointCommitted(w) PROVE SafetyInv'
  <2>0. wk[w] \in CallState /\ Backed(wk[w]) /\ Running(wk[w])
    BY <1>23, CallTyped, CallBacked DEF CheckpointCommitted, InLoop, At, Running
  <2>1. Current(w) \in Record
    BY <1>23, CurrentTyped DEF CheckpointCommitted
  <2>2. UNCHANGED <<stored, wrote>>
    BY <1>23 DEF CheckpointCommitted, providerVars
  <2> DEFINE o   == [status |-> IF Prog(w).expected THEN "created" ELSE "unchanged",
                     locked |-> Prog(w).locked]
             g   == [Prog(w) EXCEPT !.phase = "committed"]
             mid == WithProgress(wk[w], Current(w), g)
             new == WithOutcome(mid, Current(w), o)
  <2>3. o \in Outcome /\ g \in Progress /\ g.expected = Prog(w).expected
    BY <2>1, ProgTyped DEF Outcome, OutcomeStatus, Progress
  <2>4. stored[Current(w)] /\ (o.status = "created" => Prog(w).expected)
    BY <1>23 DEF CheckpointCommitted, InLoop, At, SafetyInv, AttributionInv
  <2>5. o.status = "created" => wrote[Current(w)]
    BY <2>1, <2>4, ProgJustified
  <2> HIDE DEF o, g
  <2>6. mid \in CallState /\ Backed(mid) /\ mid.at = wk[w].at
    <3>1. g.expected /\ stored[Current(w)] => wrote[Current(w)]
      BY <2>1, <2>3, ProgJustified
    <3>2. mid \in CallState
      BY <2>0, <2>1, <2>3, CallUpdatesTyped
    <3>3. Backed(mid)
      BY <2>0, <2>1, <2>3, <3>1, BackedWithProgress
    <3>4. mid.at = wk[w].at
      BY <2>0 DEF WithProgress, CallState
    <3> QED BY <3>2, <3>3, <3>4
  <2> HIDE DEF mid
  <2>7. new \in CallState /\ Backed(new) /\ new.at = wk[w].at
    BY <2>1, <2>3, <2>4, <2>5, <2>6, CallUpdatesTyped, BackedWithOutcome
  <2> HIDE DEF new
  <2>8. ASSUME NEW step \in {"clear", "fail"}
        PROVE  LET s == To(new, step) IN s \in CallState /\ Backed(s) /\ Keeps(s, w)
    <3>1. step \in Steps /\ step # "commit"
      BY DEF Steps
    <3> QED BY <2>0, <2>7, <3>1, EditedBacked
  <2>9. /\ new.outs \in [Record -> Outcome] /\ new.prog \in [Record -> Progress]
        /\ Justified(new.outs, new.prog, stored, wrote)
    BY <2>7 DEF CallState, Backed
  <2>10. Checkpoint(w, new.outs, new.prog,
                    To(new, IF new.err = "none" THEN "clear" ELSE "fail"), To(new, "fail"))
    BY <1>23 DEF CheckpointCommitted, new, mid, o, g
  <2> QED BY <2>2, <2>8, <2>9, <2>10, CheckpointStep
<1>24. ASSUME NEW w \in Worker, ClearIntent(w) PROVE SafetyInv'
  <2>0. wk[w] \in CallState /\ Backed(wk[w]) /\ Running(wk[w])
    BY <1>24, CallTyped, CallBacked DEF ClearIntent, InLoop, At, Running
  <2>1. Current(w) \in Record
    BY <1>24, CurrentTyped DEF ClearIntent
  <2>2. UNCHANGED <<stored, wrote>>
    BY <1>24 DEF ClearIntent, providerVars
  <2> DEFINE new == WithProgress(wk[w], Current(w), NoProgress)
  <2>3. new \in CallState /\ Backed(new) /\ new.at = wk[w].at
    BY <2>0, <2>1, ProgJustified, CallUpdatesTyped, BackedWithProgress
  <2> HIDE DEF new
  <2>4. NextRecord(new) \in CallState /\ Backed(NextRecord(new))
    BY <2>3, CallUpdatesTyped, BackedOther
  <2>5. LET s == To(wk[w], "fail") IN s \in CallState /\ Backed(s) /\ Keeps(s, w)
    BY <2>0, MoveBacked DEF Steps
  <2>6. /\ new.outs \in [Record -> Outcome] /\ new.prog \in [Record -> Progress]
        /\ Justified(new.outs, new.prog, stored, wrote)
    BY <2>3 DEF CallState, Backed
  <2>7. Checkpoint(w, new.outs, new.prog, NextRecord(new), To(wk[w], "fail"))
    BY <1>24 DEF ClearIntent, new
  <2> QED BY <2>2, <2>4, <2>5, <2>6, <2>7, CheckpointStep
<1>25. ASSUME NEW w \in Worker, Compensate(w) PROVE SafetyInv'
  <2>0. wk[w] \in CallState /\ Backed(wk[w]) /\ Running(wk[w])
    BY <1>25, CallTyped, CallBacked DEF Compensate, InLoop, At, Running
  <2>1. Current(w) \in Record
    BY <1>25, CurrentTyped DEF Compensate
  <2>2. UNCHANGED <<receipt, stored, wrote>>
    BY <1>25 DEF Compensate, providerVars
  <2>3. LET s == FailingWith(w, NoProgress) IN s \in CallState /\ Backed(s) /\ Keeps(s, w)
    BY <2>0, <2>1, ProgJustified, FailingBacked
  <2>4. LET s == FailingWith(w, Prog(w)) IN s \in CallState /\ Backed(s) /\ Keeps(s, w)
    BY <2>0, <2>1, ProgJustified, FailingBacked
  <2> DEFINE t == WithProgress(wk[w], Current(w), NoProgress)
  <2>5. t \in CallState /\ Backed(t) /\ t.at = wk[w].at
    BY <2>0, <2>1, ProgJustified, CallUpdatesTyped, BackedWithProgress
  <2>6. To(t, "hold") \in CallState /\ Backed(To(t, "hold")) /\ Keeps(To(t, "hold"), w)
    <3> HIDE DEF t
    <3> QED BY <2>0, <2>5, EditedBacked DEF Steps
  <2> QED BY <1>25, <2>2, <2>3, <2>4, <2>6, QuietStep DEF Compensate
<1>26. ASSUME NEW w \in Worker, CheckpointHolding(w) PROVE SafetyInv'
  <2>0. wk[w] \in CallState /\ Backed(wk[w]) /\ Running(wk[w])
    BY <1>26, CallTyped, CallBacked DEF CheckpointHolding, InLoop, At, Running
  <2>1. Current(w) \in Record
    BY <1>26, CurrentTyped DEF CheckpointHolding
  <2>2. UNCHANGED <<stored, wrote>>
    BY <1>26 DEF CheckpointHolding, providerVars
  <2>3. /\ wk[w].outs \in [Record -> Outcome] /\ wk[w].prog \in [Record -> Progress]
        /\ Justified(wk[w].outs, wk[w].prog, stored, wrote)
    BY <2>0 DEF CallState, Backed
  <2>4. HoldingOutcome \in Outcome /\ ~Successful(HoldingOutcome)
                                  /\ HoldingOutcome.status # "created"
    BY ConstantsTyped DEF HoldingOutcome, Successful
  <2>5. LET s == WithOutcome(wk[w], Current(w), HoldingOutcome) IN s \in CallState /\ Backed(s)
    BY <2>0, <2>1, <2>4, CallUpdatesTyped, BackedWithOutcome
  <2>6. LET s == NextRecord(WithOutcome(wk[w], Current(w), HoldingOutcome))
        IN  s \in CallState /\ Backed(s)
    BY <2>5, CallUpdatesTyped, BackedOther
  <2>7. LET s == To(wk[w], "fail") IN s \in CallState /\ Backed(s) /\ Keeps(s, w)
    BY <2>0, MoveBacked DEF Steps
  <2>8. Checkpoint(w, wk[w].outs, wk[w].prog,
                   NextRecord(WithOutcome(wk[w], Current(w), HoldingOutcome)), To(wk[w], "fail"))
    BY <1>26 DEF CheckpointHolding
  <2> QED BY <2>2, <2>3, <2>6, <2>7, <2>8, CheckpointStep
<1>27. ASSUME NEW w \in Worker, Complete(w) PROVE SafetyInv'
  <2>0. wk[w] \in CallState /\ Backed(wk[w]) /\ Running(wk[w])
    BY <1>27, CallTyped, CallBacked DEF Complete, InLoop, At, Running
  <2>1. UNCHANGED <<stored, wrote>>
    BY <1>27 DEF Complete, providerVars
  <2> DEFINE st == IF \E r \in Record : wk[w].outs[r].status = "holding"
                   THEN "holding" ELSE "completed"
             p  == Candidate(w, st, wk[w].outs, wk[w].prog)
  <2>2. UpdatePackage(w, p, To(wk[w], "report"), IdleCall)
    BY <1>27 DEF Complete
  <2>3. st \in ReceiptStatus /\ st # "absent"
    BY DEF ReceiptStatus
  <2> HIDE DEF st
  <2>4. LET s == To(wk[w], "report") IN s \in CallState /\ Backed(s)
    BY <2>0, MoveBacked DEF Steps
  <2>5. /\ wk[w].outs \in [Record -> Outcome] /\ wk[w].prog \in [Record -> Progress]
        /\ Justified(wk[w].outs, wk[w].prog, stored, wrote)
    BY <2>0 DEF CallState, Backed
  <2>6. p \in Receipt
    BY <2>3, <2>5, CandidateTyped
  <2>7. p.status = st /\ p.at = wk[w].at + 1 /\ p.outcome = wk[w].outs /\ p.progress = wk[w].prog
    BY DEF Candidate
  <2> HIDE DEF p
  <2> QED BY <2>1, <2>2, <2>3, <2>4, <2>5, <2>6, <2>7, IdleBacked, UpdateStep
<1>28. ASSUME NEW w \in Worker, FailImport(w) PROVE SafetyInv'
  <2>0. wk[w] \in CallState /\ Backed(wk[w]) /\ Running(wk[w])
    BY <1>28, CallTyped, CallBacked DEF FailImport, InLoop, At, Running
  <2>1. UNCHANGED <<stored, wrote>>
    BY <1>28 DEF FailImport, providerVars
  <2> DEFINE outs == SuccessfulOutcomes(wk[w].outs)
             p    == Candidate(w, "failed", outs, wk[w].prog)
  <2>2. UpdatePackage(w, p, To(wk[w], "report"), IdleCall)
    BY <1>28 DEF FailImport
  <2>3. /\ outs \in [Record -> Outcome] /\ wk[w].prog \in [Record -> Progress]
        /\ Justified(outs, wk[w].prog, stored, wrote)
    BY <2>0, SuccessfulOutcomesTyped, SuccessfulJustified DEF CallState, Backed
  <2> HIDE DEF outs
  <2>4. LET s == To(wk[w], "report") IN s \in CallState /\ Backed(s)
    BY <2>0, MoveBacked DEF Steps
  <2>5. p \in Receipt
    BY <2>3, CandidateTyped DEF ReceiptStatus
  <2>6. p.status = "failed" /\ p.at = wk[w].at + 1 /\ p.outcome = outs /\ p.progress = wk[w].prog
    BY DEF Candidate
  <2> HIDE DEF p
  <2> QED BY <2>1, <2>2, <2>3, <2>4, <2>5, <2>6, IdleBacked, UpdateStep
<1>29. ASSUME NEW w \in Worker, Report(w) PROVE SafetyInv'
  <2>1. Go(w, IdleCall) /\ UNCHANGED <<receipt, stored, wrote>>
    BY <1>29 DEF Report, providerVars
  <2> QED BY <2>1, IdleBacked, QuietStep
<1>30. ASSUME NEW w \in Worker, Crash(w) PROVE SafetyInv'
  <2>1. Go(w, IdleCall) /\ UNCHANGED <<receipt, stored, wrote>>
    BY <1>30 DEF Crash, providerVars
  <2> QED BY <2>1, IdleBacked, QuietStep
<1>31. ASSUME LeaseExpires PROVE SafetyInv'
  BY <1>31 DEF LeaseExpires, providerVars, SafetyInv, AttributionInv, LeaseInv, OneLeaseHolder, Current
<1>32. ASSUME NEW r \in Record, ClaimOwnership(r) PROVE SafetyInv'
  BY <1>32 DEF ClaimOwnership, providerVars, SafetyInv, AttributionInv, LeaseInv, OneLeaseHolder, Current
<1>33. ASSUME NEW r \in Record, AuditClaim(r) PROVE SafetyInv'
  BY <1>33 DEF AuditClaim, providerVars, SafetyInv, AttributionInv, LeaseInv, OneLeaseHolder, Current
<1>34. ASSUME NEW r \in Record, ResolveDependency(r) PROVE SafetyInv'
  BY <1>34 DEF ResolveDependency, providerVars, SafetyInv, AttributionInv, LeaseInv, OneLeaseHolder, Current
<1>35. ASSUME NEW r \in Record, LoseDependency(r) PROVE SafetyInv'
  BY <1>35 DEF LoseDependency, providerVars, SafetyInv, AttributionInv, LeaseInv, OneLeaseHolder, Current
<1>36. CASE UNCHANGED vars
  BY <1>36 DEF vars, SafetyInv, AttributionInv, LeaseInv, OneLeaseHolder, Current
<1> QED BY <1>1, <1>2, <1>3, <1>4, <1>5, <1>6, <1>7, <1>8, <1>9, <1>10, <1>11,
           <1>12, <1>13, <1>14, <1>15, <1>16, <1>17, <1>18, <1>19, <1>20, <1>21, <1>22,
           <1>23, <1>24, <1>25, <1>26, <1>27, <1>28, <1>29, <1>30, <1>31, <1>32, <1>33,
           <1>34, <1>35, <1>36 DEF Next, Start, Work

(* Every reachable state satisfies the invariant. *)
THEOREM SafetyInvariant == Spec => []SafetyInv
BY TypeCorrect, SafetyInit, SafetyStep, PTL DEF Spec

(* A created or unchanged outcome is never ahead of the provider, whatever *)
(* crashed, failed or was taken over.                                      *)
THEOREM DurableOutcomes == Spec => []OutcomesAreDurable
<1>1. SafetyInv => OutcomesAreDurable
  BY DEF SafetyInv, AttributionInv, Justified, OutcomesAreDurable
<1> QED BY <1>1, SafetyInvariant, PTL

(* A receipt never claims a creation that this package did not perform. *)
THEOREM CreatedByThisPackage == Spec => []CreatedWasWritten
<1>1. SafetyInv => CreatedWasWritten
  BY DEF SafetyInv, AttributionInv, Justified, CreatedWasWritten
<1> QED BY <1>1, SafetyInvariant, PTL

(* The receipt's token admits one working call at a time. *)
THEOREM SingleLeaseHolder == Spec => []OneLeaseHolder
<1>1. SafetyInv => OneLeaseHolder
  BY DEF SafetyInv, LeaseInv
<1> QED BY <1>1, SafetyInvariant, PTL

--------------------------------------------------------------------------------

(* Every write of the receipt is a first reservation, a heartbeat or a     *)
(* valid transition.                                                       *)
LEMMA ReceiptSteps ==
    ASSUME TypeOK, [Next]_vars, receipt' # receipt
    PROVE  \/ receipt.status = "absent" /\ receipt' = [receipt EXCEPT !.status = "processing", !.at = 1]
           \/ receipt' = [receipt EXCEPT !.at = receipt.at + 1]
           \/ ValidTransition(receipt', receipt)
<1> DEFINE Step == \/ receipt.status = "absent" /\ receipt' = [receipt EXCEPT !.status = "processing", !.at = 1]
                   \/ receipt' = [receipt EXCEPT !.at = receipt.at + 1]
                   \/ ValidTransition(receipt', receipt)
<1>1. ASSUME NEW w \in Worker, NEW p, NEW acc, NEW ref, UpdatePackage(w, p, acc, ref)
      PROVE  Step
  BY <1>1 DEF UpdatePackage, CanUpdate
<1>2. ASSUME NEW w \in Worker, NEW o, NEW g, NEW acc, NEW ref, Checkpoint(w, o, g, acc, ref)
      PROVE  Step
  BY <1>1, <1>2 DEF Checkpoint
<1>3. ASSUME NEW w \in Worker, Start(w) PROVE Step
  BY <1>3 DEF Start, Reserve, Replay, ReadReceipt
<1>4. ASSUME NEW w \in Worker, Heartbeat(w) \/ Crash(w) PROVE Step
  BY <1>4 DEF Heartbeat, Crash
<1>5. ASSUME NEW w \in Worker, Work(w) PROVE Step
  <2>1. CASE Resume(w) \/ Complete(w) \/ FailImport(w)
    BY <1>1, <2>1 DEF Resume, Complete, FailImport
  <2>2. CASE ReserveIntent(w) \/ CheckpointCommitted(w) \/ ClearIntent(w) \/ CheckpointHolding(w)
    BY <1>2, <2>2 DEF ReserveIntent, CheckpointCommitted, ClearIntent, CheckpointHolding
  <2>3. CASE CheckpointOwnership(w)
    BY <1>2, <2>3 DEF CheckpointOwnership
  <2>4. CASE \/ Preflight(w) \/ SkipRecord(w) \/ HoldRecord(w) \/ ResumeRecord(w)
             \/ InspectRecord(w) \/ RegisterOwnership(w) \/ AuditOwnership(w)
             \/ RollbackOwnership(w) \/ ReconcileOwnership(w) \/ CleanupOwnership(w)
             \/ ProviderCommits(w) \/ ProviderRefuses(w) \/ ProviderFails(w)
             \/ LeaseLost(w) \/ VerifyCommit(w) \/ Compensate(w) \/ Report(w)
    BY <2>4 DEF Preflight, SkipRecord, HoldRecord, ResumeRecord, InspectRecord,
        RegisterOwnership, AuditOwnership, RollbackOwnership, ReconcileOwnership,
        CleanupOwnership, ProviderCommits, ProviderRefuses, ProviderFails, LeaseLost,
        VerifyCommit, Compensate, Report
  <2> QED BY <1>5, <2>1, <2>2, <2>3, <2>4 DEF Work
<1>6. ASSUME LeaseExpires \/ \E r \in Record : ClaimOwnership(r) \/ AuditClaim(r)
                             \/ ResolveDependency(r) \/ LoseDependency(r)
      PROVE  Step
  BY <1>6 DEF LeaseExpires, ClaimOwnership, AuditClaim, ResolveDependency, LoseDependency
<1> QED BY <1>3, <1>4, <1>5, <1>6 DEF Next, vars

(* A durable outcome survives every later failure, retry and takeover: the *)
(* transition rule of the store alone guarantees it, whatever a call asks. *)
THEOREM PermanentOutcomes == Spec => OutcomesArePermanent
<1> DEFINE Kept == \A r \in Record : Successful(receipt.outcome[r]) =>
                                        receipt'.outcome[r] = receipt.outcome[r]
<1>1. ASSUME TypeOK, [Next]_vars PROVE [Kept]_receipt
  <2>1. CASE receipt' = receipt
    BY <2>1
  <2>2. CASE receipt' = [receipt EXCEPT !.status = "processing", !.at = 1]
    BY <1>1, <2>2 DEF TypeOK, Receipt
  <2>3. CASE receipt' = [receipt EXCEPT !.at = receipt.at + 1]
    BY <1>1, <2>3 DEF TypeOK, Receipt
  <2>4. CASE ValidTransition(receipt', receipt)
    <3>1. CASE \A r \in Record : Successful(receipt.outcome[r]) =>
                                    receipt'.outcome[r] = receipt.outcome[r]
      BY <3>1
    <3>2. CASE receipt'.outcome = SuccessfulOutcomes(receipt.outcome)
      BY <3>2 DEF SuccessfulOutcomes
    <3> QED BY <2>4, <3>1, <3>2 DEF ValidTransition
  <2> QED BY <1>1, <2>1, <2>2, <2>3, <2>4, ReceiptSteps
<1> QED BY <1>1, TypeCorrect, PTL DEF Spec, OutcomesArePermanent

(* An administrator's claim is final under every interleaving of imports. *)
THEOREM FinalClaims == Spec => ClaimIsFinal
<1> DEFINE Kept == \A r \in Record : own[r].state = "claimed" =>
                      own'[r] = own[r] \/ (r \in claiming /\ own'[r].state = "locked")
<1>1. ASSUME TypeOK, NEW w \in Worker, NEW q \in Record, DeleteOwnership(w, q),
             own[q].state = "locked"
      PROVE  Kept
  BY <1>1 DEF TypeOK, DeleteOwnership
<1>2. ASSUME TypeOK, NEW w \in Worker,
             \/ RegisterOwnership(w) \/ RollbackOwnership(w)
             \/ CleanupOwnership(w) \/ Compensate(w)
      PROVE  Kept
  <2>1. Current(w) \in Record
    BY <1>2, CurrentTyped DEF RegisterOwnership, RollbackOwnership, CleanupOwnership, Compensate
  <2>2. CASE RegisterOwnership(w)
    BY <1>2, <2>1, <2>2 DEF TypeOK, RegisterOwnership
  <2>3. CASE RollbackOwnership(w)
    BY <1>1, <1>2, <2>1, <2>3 DEF RollbackOwnership, Deletable
  <2>4. CASE CleanupOwnership(w)
    BY <1>1, <1>2, <2>1, <2>4 DEF CleanupOwnership, Deletable
  <2>5. CASE Compensate(w)
    <3>1. CASE own' = own
      BY <3>1
    <3>2. CASE Prog(w).created /\ Deletable(Current(w), wk[w].reg) /\ DeleteOwnership(w, Current(w))
      BY <1>1, <1>2, <2>1, <3>2 DEF Deletable
    <3> QED BY <2>5, <3>1, <3>2 DEF Compensate
  <2> QED BY <1>2, <2>2, <2>3, <2>4, <2>5
<1>3. ASSUME TypeOK, NEW r \in Record, ClaimOwnership(r) \/ AuditClaim(r) PROVE Kept
  BY <1>3 DEF TypeOK, ClaimOwnership, AuditClaim, Ownership
<1>4. ASSUME TypeOK, [Next]_vars PROVE [Kept]_own
  <2>1. ASSUME NEW w \in Worker, Start(w) \/ Heartbeat(w) \/ Crash(w) PROVE own' = own
    BY <2>1 DEF Start, Reserve, Replay, ReadReceipt, Heartbeat, Crash
  <2>2. ASSUME NEW w \in Worker, Work(w) PROVE own' = own \/ Kept
    <3>1. CASE \/ RegisterOwnership(w) \/ RollbackOwnership(w)
               \/ CleanupOwnership(w) \/ Compensate(w)
      BY <1>2, <1>4, <3>1
    <3>2. CASE \/ Resume(w) \/ Preflight(w) \/ SkipRecord(w) \/ HoldRecord(w)
               \/ ResumeRecord(w) \/ InspectRecord(w) \/ ReserveIntent(w)
               \/ AuditOwnership(w) \/ ReconcileOwnership(w) \/ CheckpointOwnership(w)
      BY <3>2 DEF Resume, Preflight, SkipRecord, HoldRecord, ResumeRecord, InspectRecord,
          ReserveIntent, AuditOwnership, ReconcileOwnership, CheckpointOwnership
    <3>3. CASE \/ ProviderCommits(w) \/ ProviderRefuses(w) \/ ProviderFails(w)
               \/ LeaseLost(w) \/ VerifyCommit(w) \/ CheckpointCommitted(w)
               \/ ClearIntent(w) \/ CheckpointHolding(w) \/ Complete(w)
               \/ FailImport(w) \/ Report(w)
      BY <3>3 DEF ProviderCommits, ProviderRefuses, ProviderFails, LeaseLost, VerifyCommit,
          CheckpointCommitted, ClearIntent, CheckpointHolding, Complete, FailImport, Report
    <3> QED BY <2>2, <3>1, <3>2, <3>3 DEF Work
  <2>3. ASSUME LeaseExpires \/ \E r \in Record : ResolveDependency(r) \/ LoseDependency(r)
        PROVE  own' = own
    BY <2>3 DEF LeaseExpires, ResolveDependency, LoseDependency
  <2> QED BY <1>3, <1>4, <2>1, <2>2, <2>3 DEF Next, vars
<1> QED BY <1>4, TypeCorrect, PTL DEF Spec, ClaimIsFinal

--------------------------------------------------------------------------------
(* Field by field, what every action does to the call that takes it: the   *)
(* theorems that follow are about fields, not about how a state is built.   *)

(* The fields of call state s, its token aside. *)
Shape(s, step, outs, prog, i, reg, err) ==
    /\ s.pc = step /\ s.outs = outs /\ s.prog = prog
    /\ s.i = i /\ s.reg = reg /\ s.err = err

(* Call w continues in state s. *)
Goes(w, s) == s \in CallState /\ wk' = [wk EXCEPT ![w] = s]

(* The store accepted this receipt from call w. *)
Accepted(w, status, outs, prog) ==
    /\ receipt.at = wk[w].at
    /\ receipt' \in Receipt
    /\ ValidTransition(receipt', receipt)
    /\ receipt'.status = status
    /\ receipt'.at = wk[w].at + 1
    /\ receipt'.outcome = outs
    /\ receipt'.progress = prog

(* A call state with other parts. *)
LEMMA StepFields ==
    ASSUME NEW s \in CallState, NEW step \in Steps
    PROVE  /\ To(s, step) \in CallState
           /\ To(s, step).at = s.at
           /\ Shape(To(s, step), step, s.outs, s.prog, s.i, s.reg, s.err)
<1>1. To(s, step) \in CallState
  BY CallUpdatesTyped
<1> QED BY <1>1 DEF To, CallState, Shape

LEMMA ProgressFields ==
    ASSUME NEW s \in CallState, NEW step \in Steps, NEW r \in Record, NEW g \in Progress
    PROVE  LET t == To(WithProgress(s, r, g), step)
           IN  /\ t \in CallState
               /\ t.at = s.at
               /\ Shape(t, step, s.outs, [s.prog EXCEPT ![r] = g], s.i, s.reg, s.err)
<1>1. WithProgress(s, r, g) \in CallState
  BY CallUpdatesTyped
<1>2. LET t == WithProgress(s, r, g)
      IN  t.at = s.at /\ Shape(t, s.pc, s.outs, [s.prog EXCEPT ![r] = g], s.i, s.reg, s.err)
  BY DEF WithProgress, CallState, Shape
<1> QED BY <1>1, <1>2, StepFields DEF Shape

LEMMA OutcomeFields ==
    ASSUME NEW s \in CallState, NEW r \in Record, NEW o \in Outcome
    PROVE  LET t == WithOutcome(s, r, o)
           IN  /\ t \in CallState
               /\ t.at = s.at
               /\ Shape(t, s.pc, [s.outs EXCEPT ![r] = o], s.prog, s.i, s.reg, s.err)
<1>1. WithOutcome(s, r, o) \in CallState
  BY CallUpdatesTyped
<1> QED BY <1>1 DEF WithOutcome, CallState, Shape

LEMMA NextFields ==
    ASSUME NEW s \in CallState
    PROVE  /\ NextRecord(s) \in CallState
           /\ NextRecord(s).at = s.at
           /\ Shape(NextRecord(s), "record", s.outs, s.prog, s.i + 1, NoRegistration, "none")
<1>1. NextRecord(s) \in CallState
  BY CallUpdatesTyped
<1> QED BY <1>1 DEF NextRecord, CallState, Shape

LEMMA ErrorFields ==
    ASSUME NEW s \in CallState, NEW step \in Steps,
           NEW e \in {"none", "error", "dependency", "leaseLost"}
    PROVE  LET t == To(WithError(s, e), step)
           IN  /\ t \in CallState
               /\ t.at = s.at
               /\ Shape(t, step, s.outs, s.prog, s.i, s.reg, e)
<1>1. WithError(s, e) \in CallState
  BY CallUpdatesTyped
<1>2. LET t == WithError(s, e)
      IN  t.at = s.at /\ Shape(t, s.pc, s.outs, s.prog, s.i, s.reg, e)
  BY DEF WithError, CallState, Shape
<1> QED BY <1>1, <1>2, StepFields DEF Shape

LEMMA RegistrationFields ==
    ASSUME NEW s \in CallState, NEW step \in Steps, NEW stamp \in Nat,
           NEW locked \in BOOLEAN, NEW created \in BOOLEAN
    PROVE  LET t == To(WithRegistration(s, stamp, locked, created), step)
           IN  /\ t \in CallState
               /\ t.at = s.at
               /\ Shape(t, step, s.outs, s.prog, s.i,
                        [stamp |-> stamp, locked |-> locked, created |-> created], s.err)
<1>1. WithRegistration(s, stamp, locked, created) \in CallState
  BY CallUpdatesTyped
<1>2. LET t == WithRegistration(s, stamp, locked, created)
      IN  /\ t.at = s.at
          /\ Shape(t, s.pc, s.outs, s.prog, s.i,
                   [stamp |-> stamp, locked |-> locked, created |-> created], s.err)
  BY DEF WithRegistration, CallState, Shape
<1> QED BY <1>1, <1>2, StepFields DEF Shape

(* The idle call. *)
LEMMA IdleFields ==
    /\ IdleCall \in CallState
    /\ IdleCall.at = 0
    /\ Shape(IdleCall, "idle", [r \in Record |-> NoOutcome], [r \in Record |-> NoProgress],
             1, NoRegistration, "none")
BY ConstantsTyped DEF IdleCall, Shape

(* A receipt update is accepted, and the call goes on with the new token,  *)
(* or it is refused and leaves the receipt as it was.                      *)
LEMMA UpdateEffect ==
    ASSUME TypeOK, NEW w \in Worker, NEW status \in ReceiptStatus,
           NEW outs \in [Record -> Outcome], NEW prog \in [Record -> Progress],
           NEW accepted \in CallState, NEW refused \in CallState,
           UpdatePackage(w, Candidate(w, status, outs, prog), accepted, refused)
    PROVE  \/ /\ Accepted(w, status, outs, prog)
              /\ Goes(w, [accepted EXCEPT !.at = wk[w].at + 1])
              /\ LET s == [accepted EXCEPT !.at = wk[w].at + 1]
                 IN  /\ s.at = wk[w].at + 1
                     /\ Shape(s, accepted.pc, accepted.outs, accepted.prog,
                              accepted.i, accepted.reg, accepted.err)
           \/ receipt' = receipt /\ Goes(w, refused)
<1> DEFINE p == Candidate(w, status, outs, prog)
           s == [accepted EXCEPT !.at = wk[w].at + 1]
<1>1. p \in Receipt
  BY CandidateTyped
<1>2. p.status = status /\ p.at = wk[w].at + 1 /\ p.outcome = outs /\ p.progress = prog
  BY DEF Candidate
<1>3. wk[w].at + 1 \in Nat
  BY CallTyped DEF CallState
<1>4. /\ s \in CallState /\ s.at = wk[w].at + 1
      /\ Shape(s, accepted.pc, accepted.outs, accepted.prog,
               accepted.i, accepted.reg, accepted.err)
  BY <1>3 DEF CallState, Shape
<1>5. \/ CanUpdate(w, p) /\ receipt' = p /\ Go(w, [accepted EXCEPT !.at = p.at])
      \/ receipt' = receipt /\ Go(w, refused)
  BY DEF UpdatePackage
<1>6. CASE CanUpdate(w, p) /\ receipt' = p /\ Go(w, [accepted EXCEPT !.at = p.at])
  <2>1. Go(w, s)
    BY <1>2, <1>6
  <2> HIDE DEF s, p
  <2>2. Goes(w, s)
    BY <2>1, <1>4 DEF Go, Goes
  <2>3. Accepted(w, status, outs, prog)
    BY <1>1, <1>2, <1>6 DEF Accepted, CanUpdate
  <2> QED BY <2>2, <2>3, <1>4 DEF s
<1>7. CASE receipt' = receipt /\ Go(w, refused)
  BY <1>7 DEF Go, Goes
<1> QED BY <1>5, <1>6, <1>7

(* What an action leaves alone: all but calls; all but the receipt; all but *)
(* Guard's entries and what befell them; all but the providers.             *)
CallOnly == UNCHANGED <<receipt, own, stored, wrote, provAudited, claiming>>
ReceiptOnly == UNCHANGED <<own, stored, wrote, provAudited, claiming>>
OwnOnly == UNCHANGED <<receipt, stored, wrote, provAudited, claiming>>
ProviderOnly == UNCHANGED <<receipt, own, claiming>>

(* Call w works on a record of the archive at this step. *)
Works(w, step) ==
    /\ wk[w] \in CallState /\ wk[w].pc = step
    /\ wk[w].i \in DOMAIN Order /\ Current(w) \in Record
    /\ Prog(w) \in Progress

LEMMA InLoopWorks ==
    ASSUME TypeOK, NEW w \in Worker, NEW step, InLoop(w, step)
    PROVE  Works(w, step)
BY CallTyped, CurrentTyped, ProgTyped DEF Works, InLoop, At

(* Call w only moves. *)
Moves(w, s, step) ==
    /\ Goes(w, s) /\ s.at = wk[w].at
    /\ Shape(s, step, wk[w].outs, wk[w].prog, wk[w].i, wk[w].reg, wk[w].err)

(* Call w moves with recovery state g for its record. *)
MovesWith(w, s, step, g) ==
    /\ Goes(w, s) /\ s.at = wk[w].at /\ g \in Progress
    /\ Shape(s, step, wk[w].outs, [wk[w].prog EXCEPT ![Current(w)] = g],
             wk[w].i, wk[w].reg, wk[w].err)

LEMMA MovesTo ==
    ASSUME TypeOK, NEW w \in Worker, NEW step \in Steps, Go(w, To(wk[w], step))
    PROVE  Moves(w, To(wk[w], step), step)
<1>1. wk[w] \in CallState
  BY CallTyped
<1> QED BY <1>1, StepFields DEF Moves, Goes, Go

LEMMA MovesFailing ==
    ASSUME TypeOK, NEW w \in Worker, NEW g \in Progress, Current(w) \in Record,
           Go(w, FailingWith(w, g))
    PROVE  MovesWith(w, FailingWith(w, g), "fail", g)
<1>1. wk[w] \in CallState /\ "fail" \in Steps
  BY CallTyped DEF Steps
<1> QED BY <1>1, ProgressFields DEF MovesWith, Goes, Go, FailingWith

(* Resume writes the receipt as it was read, or ends the call. *)
LEMMA ResumeEffect ==
    ASSUME TypeOK, NEW w \in Worker, Resume(w)
    PROVE  /\ ReceiptOnly /\ wk[w].pc = "resume"
           /\ LET outs == SuccessfulOutcomes(wk[w].outs)
              IN  \/ /\ Accepted(w, "processing", outs, wk[w].prog)
                     /\ \E s : /\ Goes(w, s) /\ s.at = wk[w].at + 1
                               /\ Shape(s, "preflight", outs, wk[w].prog,
                                        wk[w].i, wk[w].reg, wk[w].err)
                  \/ receipt' = receipt /\ Goes(w, IdleCall)
<1> DEFINE outs == SuccessfulOutcomes(wk[w].outs)
           acc == [wk[w] EXCEPT !.pc = "preflight", !.outs = outs]
<1>0. ReceiptOnly /\ wk[w].pc = "resume"
  BY DEF Resume, ReceiptOnly, providerVars, At
<1>1. wk[w] \in CallState /\ IdleCall \in CallState
  BY CallTyped, ConstantsTyped
<1>2. outs \in [Record -> Outcome] /\ wk[w].prog \in [Record -> Progress]
  BY <1>1, SuccessfulOutcomesTyped DEF CallState
<1>3. UpdatePackage(w, Candidate(w, "processing", outs, wk[w].prog), acc, IdleCall)
  BY DEF Resume
<1> HIDE DEF outs
<1>4. /\ acc \in CallState
      /\ Shape(acc, "preflight", outs, wk[w].prog, wk[w].i, wk[w].reg, wk[w].err)
  BY <1>1, <1>2 DEF CallState, Steps, Shape
<1> HIDE DEF acc
<1>5. \/ /\ Accepted(w, "processing", outs, wk[w].prog)
         /\ \E s : /\ Goes(w, s) /\ s.at = wk[w].at + 1
                   /\ Shape(s, "preflight", outs, wk[w].prog,
                            wk[w].i, wk[w].reg, wk[w].err)
      \/ receipt' = receipt /\ Goes(w, IdleCall)
  <2>1. "processing" \in ReceiptStatus
    BY DEF ReceiptStatus
  <2> QED BY <1>1, <1>2, <1>3, <1>4, <2>1, UpdateEffect DEF Shape
<1> QED BY <1>0, <1>5 DEF outs

LEMMA PreflightEffect ==
    ASSUME TypeOK, NEW w \in Worker, Preflight(w)
    PROVE  /\ CallOnly /\ wk[w].pc = "preflight"
           /\ \E s : Moves(w, s, "record") \/ Moves(w, s, "fail")
<1>0. CallOnly /\ wk[w].pc = "preflight"
  BY DEF Preflight, CallOnly, providerVars, At
<1>1. wk[w] \in CallState
  BY CallTyped
<1>2. ASSUME NEW held \in SUBSET Record, Go(w, [wk[w] EXCEPT !.pc = "record", !.held = held])
      PROVE  \E s : Moves(w, s, "record")
  <2> DEFINE s == [wk[w] EXCEPT !.pc = "record", !.held = held]
  <2>1. /\ s \in CallState /\ s.at = wk[w].at
        /\ Shape(s, "record", wk[w].outs, wk[w].prog, wk[w].i, wk[w].reg, wk[w].err)
    BY <1>1 DEF CallState, Steps, Shape
  <2>2. wk' = [wk EXCEPT ![w] = s]
    BY <1>2 DEF Go
  <2> HIDE DEF s
  <2> QED BY <2>1, <2>2 DEF Moves, Goes
<1>3. CASE Go(w, To(wk[w], "fail"))
  BY <1>0, <1>3, MovesTo DEF Steps
<1> QED BY <1>0, <1>2, <1>3 DEF Preflight

LEMMA SkipEffect ==
    ASSUME TypeOK, NEW w \in Worker, SkipRecord(w)
    PROVE  /\ CallOnly /\ Works(w, "record")
           /\ \E s : /\ Goes(w, s) /\ s.at = wk[w].at
                     /\ Shape(s, "record", wk[w].outs, wk[w].prog, wk[w].i + 1,
                              NoRegistration, "none")
<1>1. CallOnly /\ Works(w, "record") /\ Go(w, NextRecord(wk[w]))
  BY InLoopWorks DEF SkipRecord, CallOnly, providerVars
<1>2. wk[w] \in CallState
  BY CallTyped
<1> QED BY <1>1, <1>2, NextFields DEF Goes, Go

LEMMA HoldEffect ==
    ASSUME TypeOK, NEW w \in Worker, HoldRecord(w)
    PROVE  /\ CallOnly /\ Works(w, "record")
           /\ ~Successful(wk[w].outs[Current(w)]) /\ Prog(w).phase = "none"
           /\ \E s : /\ Goes(w, s) /\ s.at = wk[w].at
                     /\ Shape(s, "record", [wk[w].outs EXCEPT ![Current(w)] = HoldingOutcome],
                              wk[w].prog, wk[w].i + 1, NoRegistration, "none")
<1>1. /\ CallOnly /\ Works(w, "record")
      /\ ~Successful(wk[w].outs[Current(w)]) /\ Prog(w).phase = "none"
      /\ Go(w, NextRecord(WithOutcome(wk[w], Current(w), HoldingOutcome)))
  BY InLoopWorks DEF HoldRecord, CallOnly, providerVars
<1> DEFINE t == WithOutcome(wk[w], Current(w), HoldingOutcome)
<1>2. /\ t \in CallState /\ t.at = wk[w].at
      /\ t.outs = [wk[w].outs EXCEPT ![Current(w)] = HoldingOutcome]
      /\ t.prog = wk[w].prog /\ t.i = wk[w].i
  BY <1>1, OutcomeFields, ConstantsTyped DEF Works, Shape
<1> HIDE DEF t
<1>3. Go(w, NextRecord(t))
  BY <1>1 DEF t
<1>4. /\ NextRecord(t) \in CallState /\ NextRecord(t).at = t.at
      /\ Shape(NextRecord(t), "record", t.outs, t.prog, t.i + 1, NoRegistration, "none")
  BY <1>2, NextFields
<1>5. Goes(w, NextRecord(t))
  BY <1>3, <1>4 DEF Goes, Go
<1> QED BY <1>1, <1>2, <1>4, <1>5

LEMMA ResumeRecordEffect ==
    ASSUME TypeOK, NEW w \in Worker, ResumeRecord(w)
    PROVE  /\ CallOnly /\ Works(w, "record") /\ Prog(w).phase # "none"
           /\ \E s : Moves(w, s, "register")
<1>1. /\ CallOnly /\ Works(w, "record") /\ Prog(w).phase # "none"
      /\ Go(w, To(wk[w], "register"))
  BY InLoopWorks DEF ResumeRecord, CallOnly, providerVars
<1> QED BY <1>1, MovesTo DEF Steps

LEMMA InspectEffect ==
    ASSUME TypeOK, NEW w \in Worker, InspectRecord(w)
    PROVE  /\ CallOnly /\ Works(w, "record")
           /\ ~Successful(wk[w].outs[Current(w)]) /\ Prog(w).phase = "none"
           /\ \E s : \/ MovesWith(w, s, "intent", Intent(~stored[Current(w)]))
                     \/ MovesWith(w, s, "fail", NoProgress)
<1>1. /\ CallOnly /\ Works(w, "record")
      /\ ~Successful(wk[w].outs[Current(w)]) /\ Prog(w).phase = "none"
  BY InLoopWorks DEF InspectRecord, CallOnly, providerVars
<1> DEFINE g == Intent(~stored[Current(w)])
<1>2. CASE Go(w, To(WithProgress(wk[w], Current(w), g), "intent"))
  <2>1. g \in Progress
    BY ConstantsTyped DEF Intent, Progress
  <2> HIDE DEF g
  <2> DEFINE s == To(WithProgress(wk[w], Current(w), g), "intent")
  <2>2. /\ s \in CallState /\ s.at = wk[w].at
        /\ Shape(s, "intent", wk[w].outs, [wk[w].prog EXCEPT ![Current(w)] = g],
                 wk[w].i, wk[w].reg, wk[w].err)
    BY <1>1, <2>1, ProgressFields DEF Works, Steps
  <2> HIDE DEF s
  <2>3. MovesWith(w, s, "intent", g)
    BY <1>2, <2>1, <2>2 DEF MovesWith, Goes, Go, s
  <2> QED BY <1>1, <2>3 DEF g
<1>3. CASE Go(w, FailingWith(w, NoProgress))
  BY <1>1, <1>3, MovesFailing, ConstantsTyped DEF Works
<1> QED BY <1>2, <1>3 DEF InspectRecord

(* A checkpoint is accepted with what it was given, or changes nothing. *)
LEMMA CheckpointEffect ==
    ASSUME TypeOK, NEW w \in Worker,
           NEW outs \in [Record -> Outcome], NEW prog \in [Record -> Progress],
           NEW accepted \in CallState, NEW refused \in CallState,
           Checkpoint(w, outs, prog, accepted, refused)
    PROVE  \/ /\ Accepted(w, "processing", SuccessfulOutcomes(outs), prog)
              /\ \E s : /\ Goes(w, s) /\ s.at = wk[w].at + 1
                        /\ Shape(s, accepted.pc, accepted.outs, accepted.prog,
                                 accepted.i, accepted.reg, accepted.err)
           \/ receipt' = receipt /\ Goes(w, refused)
<1>1. SuccessfulOutcomes(outs) \in [Record -> Outcome] /\ "processing" \in ReceiptStatus
  BY SuccessfulOutcomesTyped DEF ReceiptStatus
<1>2. UpdatePackage(w, Candidate(w, "processing", SuccessfulOutcomes(outs), prog),
                    accepted, refused)
  BY DEF Checkpoint
<1> QED BY <1>1, <1>2, UpdateEffect

LEMMA ReserveIntentEffect ==
    ASSUME TypeOK, NEW w \in Worker, ReserveIntent(w)
    PROVE  /\ ReceiptOnly /\ Works(w, "intent")
           /\ \E s :
                 \/ /\ Accepted(w, "processing", SuccessfulOutcomes(wk[w].outs), wk[w].prog)
                    /\ Goes(w, s) /\ s.at = wk[w].at + 1
                    /\ Shape(s, "register", wk[w].outs, wk[w].prog,
                             wk[w].i, wk[w].reg, wk[w].err)
                 \/ receipt' = receipt /\ MovesWith(w, s, "fail", NoProgress)
<1> DEFINE acc == To(wk[w], "register")
           ref == FailingWith(w, NoProgress)
<1>1. ReceiptOnly /\ Works(w, "intent") /\ Checkpoint(w, wk[w].outs, wk[w].prog, acc, ref)
  BY InLoopWorks DEF ReserveIntent, ReceiptOnly, providerVars
<1>2. /\ acc \in CallState
      /\ Shape(acc, "register", wk[w].outs, wk[w].prog, wk[w].i, wk[w].reg, wk[w].err)
  BY <1>1, StepFields DEF Works, Steps
<1>3. /\ ref \in CallState /\ NoProgress \in Progress
      /\ Goes(w, ref) => MovesWith(w, ref, "fail", NoProgress)
  BY <1>1, MovesFailing, FailingWithTyped, ConstantsTyped DEF Works, Goes, Go
<1>4. wk[w].outs \in [Record -> Outcome] /\ wk[w].prog \in [Record -> Progress]
  BY <1>1 DEF Works, CallState
<1> HIDE DEF acc, ref
<1> QED BY <1>1, <1>2, <1>3, <1>4, CheckpointEffect DEF Shape

(* What befalls the lock of a record is remembered. *)
LEMMA BefellMarks ==
    ASSUME TypeOK, NEW r \in Record, NEW mark, Befell(r, mark)
    PROVE  mark \in marks'[r]
BY DEF TypeOK, Befell

LEMMA RegisterEffect ==
    ASSUME TypeOK, NEW w \in Worker, RegisterOwnership(w)
    PROVE  /\ OwnOnly /\ Works(w, "register")
           /\ LET r == Current(w)
              IN  \/ \E s : /\ own[r].state = "free"
                            /\ own' = [own EXCEPT ![r] = [state |-> "locked",
                                                          stamp |-> own[r].stamp + 1]]
                            /\ Goes(w, s) /\ s.at = wk[w].at
                            /\ Shape(s, "regAudit", wk[w].outs, wk[w].prog, wk[w].i,
                                     [stamp |-> own[r].stamp + 1, locked |-> TRUE,
                                      created |-> TRUE], wk[w].err)
                  \/ \E s : /\ own[r].state \in {"locked", "claimed"} /\ own' = own
                            /\ Goes(w, s) /\ s.at = wk[w].at
                            /\ Shape(s, "ownership", wk[w].outs, wk[w].prog, wk[w].i,
                                     [stamp |-> own[r].stamp, locked |-> own[r].state = "locked",
                                      created |-> FALSE], wk[w].err)
                  \/ \E s : /\ own[r].state = "foreign" \/ "guard" \in marks'[r]
                            /\ own' = own
                            /\ Moves(w, s, "lockError")
<1> DEFINE r == Current(w)
           o == own[r]
<1>1. OwnOnly /\ Works(w, "register")
  BY InLoopWorks DEF RegisterOwnership, OwnOnly, providerVars
<1>2. r \in Record /\ wk[w] \in CallState
  BY <1>1 DEF Works
<1>3. o.stamp \in Nat /\ o.stamp + 1 \in Nat
  BY <1>2 DEF TypeOK, Ownership
<1>4. CASE /\ o.state = "free"
           /\ own' = [own EXCEPT ![r] = [state |-> "locked", stamp |-> o.stamp + 1]]
           /\ Go(w, To(WithRegistration(wk[w], o.stamp + 1, TRUE, TRUE), "regAudit"))
  <2> DEFINE s == To(WithRegistration(wk[w], o.stamp + 1, TRUE, TRUE), "regAudit")
  <2>1. /\ s \in CallState /\ s.at = wk[w].at
        /\ Shape(s, "regAudit", wk[w].outs, wk[w].prog, wk[w].i,
                 [stamp |-> o.stamp + 1, locked |-> TRUE, created |-> TRUE], wk[w].err)
    BY <1>2, <1>3, RegistrationFields DEF Steps
  <2>2. wk' = [wk EXCEPT ![w] = s]
    BY <1>4 DEF Go
  <2> HIDE DEF s
  <2> QED BY <1>1, <1>4, <2>1, <2>2 DEF Goes
<1>5. CASE /\ o.state \in {"locked", "claimed"} /\ own' = own
           /\ Go(w, To(WithRegistration(wk[w], o.stamp, o.state = "locked", FALSE), "ownership"))
  <2> DEFINE s == To(WithRegistration(wk[w], o.stamp, o.state = "locked", FALSE), "ownership")
  <2>1. /\ s \in CallState /\ s.at = wk[w].at
        /\ Shape(s, "ownership", wk[w].outs, wk[w].prog, wk[w].i,
                 [stamp |-> o.stamp, locked |-> o.state = "locked", created |-> FALSE],
                 wk[w].err)
    <3> DEFINE locked == o.state = "locked"
               stamp == o.stamp
               t == To(WithRegistration(wk[w], stamp, locked, FALSE), "ownership")
    <3>1. "ownership" \in Steps /\ locked \in BOOLEAN /\ FALSE \in BOOLEAN
      BY DEF Steps
    <3>2. stamp \in Nat
      BY <1>3
    <3> HIDE DEF stamp, locked
    <3>3. /\ t \in CallState /\ t.at = wk[w].at
          /\ Shape(t, "ownership", wk[w].outs, wk[w].prog, wk[w].i,
                   [stamp |-> stamp, locked |-> locked, created |-> FALSE], wk[w].err)
      BY <1>2, <3>1, <3>2, RegistrationFields, ZenonT(60)
    <3> QED BY <3>3 DEF stamp, locked
  <2>2. wk' = [wk EXCEPT ![w] = s]
    BY <1>5 DEF Go
  <2> HIDE DEF s
  <2> QED BY <1>1, <1>5, <2>1, <2>2 DEF Goes
<1>6. CASE /\ o.state = "foreign" \/ "guard" \in marks'[r]
           /\ own' = own /\ Go(w, To(wk[w], "lockError"))
  BY <1>1, <1>6, MovesTo DEF Steps
<1>7. \/ /\ o.state = "free"
         /\ own' = [own EXCEPT ![r] = [state |-> "locked", stamp |-> o.stamp + 1]]
         /\ Go(w, To(WithRegistration(wk[w], o.stamp + 1, TRUE, TRUE), "regAudit"))
      \/ /\ o.state \in {"locked", "claimed"} /\ own' = own
         /\ Go(w, To(WithRegistration(wk[w], o.stamp, o.state = "locked", FALSE), "ownership"))
      \/ /\ o.state = "foreign" \/ "guard" \in marks'[r]
         /\ own' = own /\ Go(w, To(wk[w], "lockError"))
  BY <1>2, BefellMarks DEF RegisterOwnership
<1> QED BY <1>4, <1>5, <1>6, <1>7

LEMMA AuditEffect ==
    ASSUME TypeOK, NEW w \in Worker, AuditOwnership(w)
    PROVE  /\ CallOnly /\ Works(w, "regAudit")
           /\ \E s : Moves(w, s, "ownership") \/ Moves(w, s, "rollback")
<1>1. /\ CallOnly /\ Works(w, "regAudit")
      /\ Go(w, To(wk[w], "ownership")) \/ Go(w, To(wk[w], "rollback"))
  BY InLoopWorks DEF AuditOwnership, CallOnly, providerVars
<1> QED BY <1>1, MovesTo DEF Steps

(* A lock that is deleted: only its state changes. *)
Deleted(r, reg) == Deletable(r, reg) /\ own' = [own EXCEPT ![r].state = "free"]

LEMMA RollbackEffect ==
    ASSUME TypeOK, NEW w \in Worker, RollbackOwnership(w)
    PROVE  /\ OwnOnly /\ Works(w, "rollback")
           /\ \/ Deleted(Current(w), wk[w].reg)
              \/ own' = own /\ (~Deletable(Current(w), wk[w].reg) \/ "guard" \in marks'[Current(w)])
           /\ \E s : /\ Goes(w, s) /\ s.at = wk[w].at
                     /\ Shape(s, "lockError", wk[w].outs, wk[w].prog, wk[w].i,
                              NoRegistration, wk[w].err)
<1>1. OwnOnly /\ Works(w, "rollback") /\ Go(w, To([wk[w] EXCEPT !.reg = NoRegistration], "lockError"))
  BY InLoopWorks DEF RollbackOwnership, OwnOnly, providerVars
<1>2. \/ Deleted(Current(w), wk[w].reg)
      \/ own' = own /\ (~Deletable(Current(w), wk[w].reg) \/ "guard" \in marks'[Current(w)])
  BY <1>1, BefellMarks DEF RollbackOwnership, Deleted, DeleteOwnership, Works
<1> DEFINE t == [wk[w] EXCEPT !.reg = NoRegistration]
<1>3. /\ t \in CallState /\ t.at = wk[w].at
      /\ Shape(t, "rollback", wk[w].outs, wk[w].prog, wk[w].i, NoRegistration, wk[w].err)
  BY <1>1, ConstantsTyped DEF Works, CallState, Shape
<1> HIDE DEF t
<1>4. /\ To(t, "lockError") \in CallState /\ To(t, "lockError").at = t.at
      /\ Shape(To(t, "lockError"), "lockError", t.outs, t.prog, t.i, t.reg, t.err)
  BY <1>3, StepFields DEF Steps
<1>5. Go(w, To(t, "lockError"))
  BY <1>1 DEF t
<1>6. Goes(w, To(t, "lockError"))
  BY <1>4, <1>5 DEF Goes, Go
<1> QED BY <1>1, <1>2, <1>3, <1>4, <1>6 DEF Shape

(* The recovery state that a failed registration leaves. *)
Reconciled(w) ==
    IF own[Current(w)].state = "locked"
    THEN [Prog(w) EXCEPT !.ready = TRUE, !.created = TRUE, !.locked = TRUE]
    ELSE IF Prog(w).phase = "intent" /\ ~Prog(w).ready THEN NoProgress ELSE Prog(w)

LEMMA ReconcileEffect ==
    ASSUME TypeOK, NEW w \in Worker, ReconcileOwnership(w)
    PROVE  /\ CallOnly /\ Works(w, "lockError")
           /\ \E s : MovesWith(w, s, "fail", Reconciled(w)) \/ MovesWith(w, s, "fail", Prog(w))
<1>1. /\ CallOnly /\ Works(w, "lockError")
      /\ Go(w, FailingWith(w, Reconciled(w))) \/ Go(w, FailingWith(w, Prog(w)))
  BY InLoopWorks DEF ReconcileOwnership, CallOnly, providerVars, Reconciled
<1>2. Reconciled(w) \in Progress
  BY <1>1, ConstantsTyped DEF Works, Reconciled, Progress
<1> QED BY <1>1, <1>2, MovesFailing DEF Works

LEMMA CheckpointOwnershipEffect ==
    ASSUME TypeOK, NEW w \in Worker, CheckpointOwnership(w)
    PROVE  /\ ReceiptOnly /\ Works(w, "ownership")
           /\ LET g == WithOwnership(Prog(w), wk[w].reg)
                  prog == [wk[w].prog EXCEPT ![Current(w)] = g]
                  known == /\ Prog(w).ready /\ ~wk[w].reg.created
                           /\ Prog(w).locked = wk[w].reg.locked
              IN  \E s :
                     \/ known /\ receipt' = receipt /\ Moves(w, s, "calling")
                     \/ /\ ~known /\ g \in Progress
                        /\ Accepted(w, "processing", SuccessfulOutcomes(wk[w].outs), prog)
                        /\ Goes(w, s) /\ s.at = wk[w].at + 1
                        /\ Shape(s, "calling", wk[w].outs, prog, wk[w].i, wk[w].reg, wk[w].err)
                     \/ ~known /\ receipt' = receipt /\ MovesWith(w, s, "cleanup", g)
<1> DEFINE r == Current(w)
           g == WithOwnership(Prog(w), wk[w].reg)
           new == WithProgress(wk[w], r, g)
           prog == [wk[w].prog EXCEPT ![r] = g]
           known == Prog(w).ready /\ ~wk[w].reg.created /\ Prog(w).locked = wk[w].reg.locked
<1>1. ReceiptOnly /\ Works(w, "ownership")
  BY InLoopWorks DEF CheckpointOwnership, ReceiptOnly, providerVars
<1>2. g \in Progress
  BY <1>1 DEF WithOwnership, Works, CallState, Progress, Registration
<1>3. \/ known /\ receipt' = receipt /\ Go(w, To(wk[w], "calling"))
      \/ ~known /\ Checkpoint(w, wk[w].outs, new.prog, To(new, "calling"), To(new, "cleanup"))
  BY DEF CheckpointOwnership
<1>4. CASE known /\ receipt' = receipt /\ Go(w, To(wk[w], "calling"))
  BY <1>1, <1>4, MovesTo DEF Steps
<1>5. CASE ~known /\ Checkpoint(w, wk[w].outs, new.prog, To(new, "calling"), To(new, "cleanup"))
  <2>1. wk[w] \in CallState /\ r \in Record
    BY <1>1 DEF Works
  <2> HIDE DEF g
  <2>2. new.prog = prog
    BY <2>1 DEF WithProgress, CallState
  <2>3. prog \in [Record -> Progress] /\ wk[w].outs \in [Record -> Outcome]
    BY <1>2, <2>1 DEF CallState
  <2> DEFINE acc == To(new, "calling")
             ref == To(new, "cleanup")
  <2>4. /\ acc \in CallState /\ acc.at = wk[w].at
        /\ Shape(acc, "calling", wk[w].outs, prog, wk[w].i, wk[w].reg, wk[w].err)
    BY <1>2, <2>1, ProgressFields DEF Steps
  <2>5. /\ ref \in CallState /\ ref.at = wk[w].at
        /\ Shape(ref, "cleanup", wk[w].outs, prog, wk[w].i, wk[w].reg, wk[w].err)
    BY <1>2, <2>1, ProgressFields DEF Steps
  <2>6. Checkpoint(w, wk[w].outs, prog, acc, ref)
    BY <1>5, <2>2
  <2>7. Goes(w, ref) => MovesWith(w, ref, "cleanup", g)
    BY <1>2, <2>5 DEF MovesWith
  <2> HIDE DEF acc, ref, new
  <2>8. \/ /\ Accepted(w, "processing", SuccessfulOutcomes(wk[w].outs), prog)
           /\ \E s : /\ Goes(w, s) /\ s.at = wk[w].at + 1
                     /\ Shape(s, acc.pc, acc.outs, acc.prog, acc.i, acc.reg, acc.err)
        \/ receipt' = receipt /\ Goes(w, ref)
    BY <2>3, <2>4, <2>5, <2>6, CheckpointEffect
  <2>9. acc.pc = "calling" /\ acc.outs = wk[w].outs /\ acc.prog = prog
        /\ acc.i = wk[w].i /\ acc.reg = wk[w].reg /\ acc.err = wk[w].err
    BY <2>4 DEF Shape
  <2> HIDE DEF prog
  <2>10. \/ /\ Accepted(w, "processing", SuccessfulOutcomes(wk[w].outs), prog)
            /\ \E s : /\ Goes(w, s) /\ s.at = wk[w].at + 1
                      /\ Shape(s, "calling", wk[w].outs, prog, wk[w].i, wk[w].reg, wk[w].err)
         \/ receipt' = receipt /\ Goes(w, ref)
    BY <2>8, <2>9
  <2> QED BY <1>1, <1>2, <1>5, <2>7, <2>10 DEF prog, g
<1> QED BY <1>3, <1>4, <1>5

LEMMA CleanupEffect ==
    ASSUME TypeOK, NEW w \in Worker, CleanupOwnership(w)
    PROVE  /\ OwnOnly /\ Works(w, "cleanup")
           /\ \E s :
                 \/ /\ wk[w].reg.created /\ Deleted(Current(w), wk[w].reg)
                    /\ MovesWith(w, s, "fail", NoProgress)
                 \/ ~wk[w].reg.created /\ own' = own /\ MovesWith(w, s, "fail", NoProgress)
                 \/ /\ wk[w].reg.created /\ own' = own /\ MovesWith(w, s, "fail", Prog(w))
                    /\ ~Deletable(Current(w), wk[w].reg) \/ "guard" \in marks'[Current(w)]
<1>1. OwnOnly /\ Works(w, "cleanup")
  BY InLoopWorks DEF CleanupOwnership, OwnOnly, providerVars
<1>2. \/ /\ wk[w].reg.created /\ Deleted(Current(w), wk[w].reg)
         /\ Go(w, FailingWith(w, NoProgress))
      \/ ~wk[w].reg.created /\ own' = own /\ Go(w, FailingWith(w, NoProgress))
      \/ /\ wk[w].reg.created /\ own' = own /\ Go(w, FailingWith(w, Prog(w)))
         /\ ~Deletable(Current(w), wk[w].reg) \/ "guard" \in marks'[Current(w)]
  <2>1. wk[w].reg.created \in BOOLEAN
    BY <1>1 DEF Works, CallState, Registration
  <2> QED BY <1>1, <2>1, BefellMarks DEF CleanupOwnership, Deleted, DeleteOwnership, Works
<1>3. /\ Go(w, FailingWith(w, NoProgress)) => MovesWith(w, FailingWith(w, NoProgress), "fail", NoProgress)
      /\ Go(w, FailingWith(w, Prog(w))) => MovesWith(w, FailingWith(w, Prog(w)), "fail", Prog(w))
  BY <1>1, MovesFailing, ConstantsTyped DEF Works
<1> QED BY <1>1, <1>2, <1>3

(* Call w moves with error e. *)
MovesErr(w, s, step, e) ==
    /\ Goes(w, s) /\ s.at = wk[w].at
    /\ Shape(s, step, wk[w].outs, wk[w].prog, wk[w].i, wk[w].reg, e)

LEMMA MovesFailed ==
    ASSUME TypeOK, NEW w \in Worker, NEW step \in Steps,
           NEW e \in {"error", "dependency", "leaseLost"},
           Go(w, To(WithError(wk[w], e), step))
    PROVE  \E s : MovesErr(w, s, step, e)
<1> DEFINE s == To(WithError(wk[w], e), step)
<1>1. /\ s \in CallState /\ s.at = wk[w].at
      /\ Shape(s, step, wk[w].outs, wk[w].prog, wk[w].i, wk[w].reg, e)
  <2>1. wk[w] \in CallState /\ e \in {"none", "error", "dependency", "leaseLost"}
    BY CallTyped
  <2> QED BY <2>1, ErrorFields, Zenon
<1>2. wk' = [wk EXCEPT ![w] = s]
  BY DEF Go
<1> HIDE DEF s
<1> QED BY <1>1, <1>2 DEF MovesErr, Goes

(* The provider call, however it ends: it wrote nothing that the call knows *)
(* of, or it committed and said so or not.  Only a call that is told of a   *)
(* commit without an error is told of its audit.                            *)
LEMMA ProviderEffect ==
    ASSUME TypeOK, NEW w \in Worker,
           ProviderCommits(w) \/ ProviderRefuses(w) \/ ProviderFails(w) \/ LeaseLost(w)
    PROVE  /\ ProviderOnly /\ Works(w, "calling")
           /\ \E s :
                 \/ /\ CallOnly
                    /\ \E e \in {"error", "dependency", "leaseLost"} : MovesErr(w, s, "verify", e)
                 \/ /\ CanCommit(Current(w), Prog(w))
                    /\ ProviderWrites(Current(w), TRUE)
                    /\ Moves(w, s, "commit")
                 \/ /\ CanCommit(Current(w), Prog(w))
                    /\ \E audited \in BOOLEAN : ProviderWrites(Current(w), audited)
                    /\ \E e \in {"error", "leaseLost"}, step \in {"verify", "commit"} :
                          MovesErr(w, s, step, e)
<1> DEFINE Committed(s) ==
              /\ CanCommit(Current(w), Prog(w))
              /\ \E audited \in BOOLEAN : ProviderWrites(Current(w), audited)
              /\ \E e \in {"error", "leaseLost"}, step \in {"verify", "commit"} :
                    MovesErr(w, s, step, e)
           Nothing(s) ==
              /\ CallOnly
              /\ \E e \in {"error", "dependency", "leaseLost"} : MovesErr(w, s, "verify", e)
<1>1. ProviderOnly /\ Works(w, "calling")
  BY InLoopWorks DEF ProviderCommits, ProviderRefuses, ProviderFails, LeaseLost, ProviderOnly
<1>2. ASSUME NEW e \in {"error", "leaseLost"}, NEW step \in {"verify", "commit"},
             NEW audited \in BOOLEAN, CanCommit(Current(w), Prog(w)),
             ProviderWrites(Current(w), audited), Go(w, To(WithError(wk[w], e), step))
      PROVE  \E s : Committed(s)
  <2>1. \E s : MovesErr(w, s, step, e)
    BY <1>2, MovesFailed DEF Steps
  <2> QED BY <1>2, <2>1
<1>3. ASSUME NEW e \in {"error", "dependency", "leaseLost"}, UNCHANGED providerVars,
             Go(w, To(WithError(wk[w], e), "verify"))
      PROVE  \E s : Nothing(s)
  <2>1. \E s : MovesErr(w, s, "verify", e)
    BY <1>3, MovesFailed DEF Steps
  <2>2. CallOnly
    BY <1>1, <1>3 DEF ProviderOnly, CallOnly, providerVars
  <2> QED BY <2>1, <2>2
<1> HIDE DEF Committed, Nothing
<1>4. CASE ProviderCommits(w)
  <2>1. CASE /\ CanCommit(Current(w), Prog(w)) /\ ProviderWrites(Current(w), TRUE)
             /\ Go(w, To(wk[w], "commit"))
    BY <1>1, <2>1, MovesTo DEF Steps
  <2>2. CASE /\ CanCommit(Current(w), Prog(w)) /\ ProviderWrites(Current(w), FALSE)
             /\ Go(w, To(WithError(wk[w], "error"), "commit"))
    BY <1>1, <1>2, <2>2 DEF Committed
  <2> QED BY <1>4, <2>1, <2>2 DEF ProviderCommits
<1>5. CASE ProviderRefuses(w)
  <2>1. UNCHANGED providerVars /\ \E e \in {"error", "dependency"} : Go(w, To(WithError(wk[w], e), "verify"))
    BY <1>5 DEF ProviderRefuses
  <2> QED BY <1>1, <1>3, <2>1 DEF Nothing
<1>6. CASE ProviderFails(w)
  <2>1. /\ Go(w, To(WithError(wk[w], "error"), "verify"))
        /\ \/ UNCHANGED providerVars
           \/ CanCommit(Current(w), Prog(w)) /\ ProviderWrites(Current(w), FALSE)
    BY <1>6 DEF ProviderFails
  <2> QED BY <1>1, <1>2, <1>3, <2>1 DEF Nothing, Committed
<1>7. CASE LeaseLost(w)
  <2>1. \/ Go(w, To(WithError(wk[w], "leaseLost"), "verify")) /\ UNCHANGED providerVars
        \/ /\ CanCommit(Current(w), Prog(w))
           /\ \E step \in {"verify", "commit"}, audited \in BOOLEAN :
                 /\ ProviderWrites(Current(w), audited)
                 /\ Go(w, To(WithError(wk[w], "leaseLost"), step))
    BY <1>7 DEF LeaseLost
  <2> QED BY <1>1, <1>2, <1>3, <2>1 DEF Nothing, Committed
<1> QED BY <1>4, <1>5, <1>6, <1>7

LEMMA VerifyEffect ==
    ASSUME TypeOK, NEW w \in Worker, VerifyCommit(w)
    PROVE  /\ CallOnly /\ Works(w, "verify")
           /\ \/ Goes(w, IdleCall)
              \/ \E s : \/ stored[Current(w)] /\ Moves(w, s, "commit")
                        \/ ~stored[Current(w)] /\ Moves(w, s, "compensate")
                        \/ MovesWith(w, s, "fail", Prog(w))
<1>1. /\ CallOnly /\ Works(w, "verify")
      /\ \/ stored[Current(w)] /\ Go(w, To(wk[w], "commit"))
         \/ Go(w, IdleCall)
         \/ ~stored[Current(w)] /\ Go(w, To(wk[w], "compensate"))
         \/ Go(w, FailingWith(w, Prog(w)))
  BY InLoopWorks DEF VerifyCommit, CallOnly, providerVars
<1>2. Go(w, IdleCall) => Goes(w, IdleCall)
  BY ConstantsTyped DEF Go, Goes
<1>3. Go(w, FailingWith(w, Prog(w))) => MovesWith(w, FailingWith(w, Prog(w)), "fail", Prog(w))
  BY <1>1, MovesFailing DEF Works
<1> QED BY <1>1, <1>2, <1>3, MovesTo DEF Steps

(* What the commit checkpoint says of the current record. *)
CommitOutcome(w) ==
    [status |-> IF Prog(w).expected THEN "created" ELSE "unchanged", locked |-> Prog(w).locked]

CommitProgress(w) == [Prog(w) EXCEPT !.phase = "committed"]

LEMMA CommitEffect ==
    ASSUME TypeOK, NEW w \in Worker, CheckpointCommitted(w)
    PROVE  /\ ReceiptOnly /\ Works(w, "commit")
           /\ CommitOutcome(w) \in Outcome /\ CommitProgress(w) \in Progress
           /\ LET outs == [wk[w].outs EXCEPT ![Current(w)] = CommitOutcome(w)]
                  prog == [wk[w].prog EXCEPT ![Current(w)] = CommitProgress(w)]
              IN  \E s :
                     \/ /\ Accepted(w, "processing", SuccessfulOutcomes(outs), prog)
                        /\ Goes(w, s) /\ s.at = wk[w].at + 1
                        /\ Shape(s, IF wk[w].err = "none" THEN "clear" ELSE "fail",
                                 outs, prog, wk[w].i, wk[w].reg, wk[w].err)
                     \/ /\ receipt' = receipt
                        /\ Goes(w, s) /\ s.at = wk[w].at
                        /\ Shape(s, "fail", outs, prog, wk[w].i, wk[w].reg, wk[w].err)
<1> DEFINE r == Current(w)
           o == CommitOutcome(w)
           g == CommitProgress(w)
           outs == [wk[w].outs EXCEPT ![r] = o]
           prog == [wk[w].prog EXCEPT ![r] = g]
           new == WithOutcome(WithProgress(wk[w], r, g), r, o)
           step == IF wk[w].err = "none" THEN "clear" ELSE "fail"
           acc == To(new, step)
           ref == To(new, "fail")
<1>1. ReceiptOnly /\ Works(w, "commit")
  BY InLoopWorks DEF CheckpointCommitted, ReceiptOnly, providerVars
<1>2. o \in Outcome /\ g \in Progress
  BY <1>1 DEF Works, CommitOutcome, CommitProgress, Outcome, OutcomeStatus, Progress
<1>3. wk[w] \in CallState /\ r \in Record /\ wk[w].err = new.err
  BY <1>1 DEF Works, CallState, WithOutcome, WithProgress
<1>4. Checkpoint(w, new.outs, new.prog, acc, ref)
  BY <1>3 DEF CheckpointCommitted, CommitOutcome, CommitProgress
<1> HIDE DEF o, g
<1>5. /\ new \in CallState /\ new.at = wk[w].at
      /\ Shape(new, wk[w].pc, outs, prog, wk[w].i, wk[w].reg, wk[w].err)
  <2> DEFINE t == WithProgress(wk[w], r, g)
  <2>1. t \in CallState /\ t.at = wk[w].at
        /\ Shape(t, wk[w].pc, wk[w].outs, prog, wk[w].i, wk[w].reg, wk[w].err)
    BY <1>2, <1>3, CallUpdatesTyped DEF WithProgress, CallState, Shape
  <2> HIDE DEF t
  <2>2. LET u == WithOutcome(t, r, o)
        IN  u \in CallState /\ u.at = t.at
            /\ Shape(u, t.pc, [t.outs EXCEPT ![r] = o], t.prog, t.i, t.reg, t.err)
    BY <1>2, <1>3, <2>1, OutcomeFields
  <2> QED BY <2>1, <2>2 DEF Shape, t
<1>6. new.outs = outs /\ new.prog = prog
  BY <1>5 DEF Shape
<1>7. outs \in [Record -> Outcome] /\ prog \in [Record -> Progress]
  BY <1>5, <1>6 DEF CallState
<1> HIDE DEF new
<1>8. /\ acc \in CallState /\ acc.at = wk[w].at
      /\ Shape(acc, step, outs, prog, wk[w].i, wk[w].reg, wk[w].err)
  BY <1>5, StepFields DEF Steps, Shape
<1>9. /\ ref \in CallState /\ ref.at = wk[w].at
      /\ Shape(ref, "fail", outs, prog, wk[w].i, wk[w].reg, wk[w].err)
  BY <1>5, StepFields DEF Steps, Shape
<1>10. Checkpoint(w, outs, prog, acc, ref)
  BY <1>4, <1>6
<1> HIDE DEF acc, ref, outs, prog, step
<1>11. \/ /\ Accepted(w, "processing", SuccessfulOutcomes(outs), prog)
          /\ \E s : /\ Goes(w, s) /\ s.at = wk[w].at + 1
                    /\ Shape(s, acc.pc, acc.outs, acc.prog, acc.i, acc.reg, acc.err)
       \/ receipt' = receipt /\ Goes(w, ref)
  BY <1>7, <1>8, <1>9, <1>10, CheckpointEffect
<1>12. /\ acc.pc = step /\ acc.outs = outs /\ acc.prog = prog
       /\ acc.i = wk[w].i /\ acc.reg = wk[w].reg /\ acc.err = wk[w].err
  BY <1>8 DEF Shape
<1> QED BY <1>1, <1>2, <1>9, <1>11, <1>12 DEF outs, prog, step, o, g

LEMMA ClearEffect ==
    ASSUME TypeOK, NEW w \in Worker, ClearIntent(w)
    PROVE  /\ ReceiptOnly /\ Works(w, "clear")
           /\ LET prog == [wk[w].prog EXCEPT ![Current(w)] = NoProgress]
              IN  \E s :
                     \/ /\ Accepted(w, "processing", SuccessfulOutcomes(wk[w].outs), prog)
                        /\ Goes(w, s) /\ s.at = wk[w].at + 1
                        /\ Shape(s, "record", wk[w].outs, prog, wk[w].i + 1,
                                 NoRegistration, "none")
                     \/ receipt' = receipt /\ Moves(w, s, "fail")
<1> DEFINE r == Current(w)
           prog == [wk[w].prog EXCEPT ![r] = NoProgress]
           new == WithProgress(wk[w], r, NoProgress)
           acc == NextRecord(new)
           ref == To(wk[w], "fail")
<1>1. ReceiptOnly /\ Works(w, "clear") /\ Checkpoint(w, new.outs, new.prog, acc, ref)
  BY InLoopWorks DEF ClearIntent, ReceiptOnly, providerVars
<1>2. wk[w] \in CallState /\ r \in Record
  BY <1>1 DEF Works
<1>3. /\ new \in CallState
      /\ new.outs = wk[w].outs /\ new.prog = prog /\ new.i = wk[w].i /\ new.at = wk[w].at
  BY <1>2, ConstantsTyped, CallUpdatesTyped DEF WithProgress, CallState
<1>4. wk[w].outs \in [Record -> Outcome] /\ prog \in [Record -> Progress]
  BY <1>3 DEF CallState
<1> HIDE DEF new
<1>5. /\ acc \in CallState
      /\ Shape(acc, "record", wk[w].outs, prog, wk[w].i + 1, NoRegistration, "none")
  BY <1>3, NextFields
<1>6. ref \in CallState /\ (Goes(w, ref) => Moves(w, ref, "fail"))
  BY <1>2, MovesTo, StepFields DEF Steps, Goes, Go
<1>7. Checkpoint(w, wk[w].outs, prog, acc, ref)
  BY <1>1, <1>3
<1> HIDE DEF acc, ref, prog
<1>8. \/ /\ Accepted(w, "processing", SuccessfulOutcomes(wk[w].outs), prog)
         /\ \E s : /\ Goes(w, s) /\ s.at = wk[w].at + 1
                   /\ Shape(s, acc.pc, acc.outs, acc.prog, acc.i, acc.reg, acc.err)
      \/ receipt' = receipt /\ Goes(w, ref)
  BY <1>4, <1>5, <1>6, <1>7, CheckpointEffect
<1>9. /\ acc.pc = "record" /\ acc.outs = wk[w].outs /\ acc.prog = prog
      /\ acc.i = wk[w].i + 1 /\ acc.reg = NoRegistration /\ acc.err = "none"
  BY <1>5 DEF Shape
<1> QED BY <1>1, <1>6, <1>8, <1>9 DEF prog

LEMMA CompensateEffect ==
    ASSUME TypeOK, NEW w \in Worker, Compensate(w)
    PROVE  /\ OwnOnly /\ Works(w, "compensate")
           /\ \E s :
                 \/ /\ \/ Prog(w).created /\ Deleted(Current(w), wk[w].reg)
                       \/ ~Prog(w).created /\ own' = own
                    /\ \E step \in {"hold", "fail"} : MovesWith(w, s, step, NoProgress)
                 \/ /\ Prog(w).created /\ own' = own /\ MovesWith(w, s, "fail", Prog(w))
                    /\ ~Deletable(Current(w), wk[w].reg) \/ "guard" \in marks'[Current(w)]
<1> DEFINE r == Current(w)
           t == To(WithProgress(wk[w], r, NoProgress), "hold")
<1>1. OwnOnly /\ Works(w, "compensate")
  BY InLoopWorks DEF Compensate, OwnOnly, providerVars
<1>2. \/ /\ \/ Prog(w).created /\ Deleted(r, wk[w].reg)
            \/ ~Prog(w).created /\ own' = own
         /\ Go(w, t) \/ Go(w, FailingWith(w, NoProgress))
      \/ /\ Prog(w).created /\ own' = own /\ Go(w, FailingWith(w, Prog(w)))
         /\ ~Deletable(r, wk[w].reg) \/ "guard" \in marks'[Current(w)]
  <2>1. Prog(w).created \in BOOLEAN
    BY <1>1 DEF Works, Progress
  <2> QED BY <1>1, <2>1, BefellMarks DEF Compensate, Deleted, DeleteOwnership, Works
<1>3. /\ Go(w, FailingWith(w, NoProgress)) => MovesWith(w, FailingWith(w, NoProgress), "fail", NoProgress)
      /\ Go(w, FailingWith(w, Prog(w))) => MovesWith(w, FailingWith(w, Prog(w)), "fail", Prog(w))
  BY <1>1, MovesFailing, ConstantsTyped DEF Works
<1>4. Go(w, t) => MovesWith(w, t, "hold", NoProgress)
  <2>1. /\ t \in CallState /\ t.at = wk[w].at
        /\ Shape(t, "hold", wk[w].outs, [wk[w].prog EXCEPT ![r] = NoProgress],
                 wk[w].i, wk[w].reg, wk[w].err)
    BY <1>1, ConstantsTyped, ProgressFields DEF Works, Steps
  <2> QED BY <2>1, ConstantsTyped DEF MovesWith, Goes, Go
<1> HIDE DEF t
<1> QED BY <1>1, <1>2, <1>3, <1>4

LEMMA HoldingEffect ==
    ASSUME TypeOK, NEW w \in Worker, CheckpointHolding(w)
    PROVE  /\ ReceiptOnly /\ Works(w, "hold")
           /\ \E s :
                 \/ /\ Accepted(w, "processing", SuccessfulOutcomes(wk[w].outs), wk[w].prog)
                    /\ Goes(w, s) /\ s.at = wk[w].at + 1
                    /\ Shape(s, "record", [wk[w].outs EXCEPT ![Current(w)] = HoldingOutcome],
                             wk[w].prog, wk[w].i + 1, NoRegistration, "none")
                 \/ receipt' = receipt /\ Moves(w, s, "fail")
<1> DEFINE r == Current(w)
           outs == [wk[w].outs EXCEPT ![r] = HoldingOutcome]
           new == WithOutcome(wk[w], r, HoldingOutcome)
           acc == NextRecord(new)
           ref == To(wk[w], "fail")
<1>1. ReceiptOnly /\ Works(w, "hold") /\ Checkpoint(w, wk[w].outs, wk[w].prog, acc, ref)
  BY InLoopWorks DEF CheckpointHolding, ReceiptOnly, providerVars
<1>2. /\ wk[w] \in CallState /\ r \in Record
      /\ wk[w].outs \in [Record -> Outcome] /\ wk[w].prog \in [Record -> Progress]
  BY <1>1 DEF Works, CallState
<1>3. new \in CallState /\ new.outs = outs /\ new.prog = wk[w].prog /\ new.i = wk[w].i
  BY <1>2, ConstantsTyped, OutcomeFields DEF Shape
<1> HIDE DEF new
<1>4. /\ acc \in CallState
      /\ Shape(acc, "record", outs, wk[w].prog, wk[w].i + 1, NoRegistration, "none")
  BY <1>3, NextFields
<1>5. ref \in CallState /\ (Goes(w, ref) => Moves(w, ref, "fail"))
  BY <1>2, MovesTo, StepFields DEF Steps, Goes, Go
<1> HIDE DEF acc, ref, outs
<1>6. \/ /\ Accepted(w, "processing", SuccessfulOutcomes(wk[w].outs), wk[w].prog)
         /\ \E s : /\ Goes(w, s) /\ s.at = wk[w].at + 1
                   /\ Shape(s, acc.pc, acc.outs, acc.prog, acc.i, acc.reg, acc.err)
      \/ receipt' = receipt /\ Goes(w, ref)
  BY <1>1, <1>2, <1>4, <1>5, CheckpointEffect
<1>7. /\ acc.pc = "record" /\ acc.outs = outs /\ acc.prog = wk[w].prog
      /\ acc.i = wk[w].i + 1 /\ acc.reg = NoRegistration /\ acc.err = "none"
  BY <1>4 DEF Shape
<1> QED BY <1>1, <1>5, <1>6, <1>7 DEF outs

(* The terminal write: the receipt ends, or the call does without it. *)
LEMMA TerminalEffect ==
    ASSUME TypeOK, NEW w \in Worker, Complete(w) \/ FailImport(w)
    PROVE  /\ ReceiptOnly /\ wk[w].pc \in {"record", "fail"}
           /\ \/ \E status \in {"completed", "holding", "failed"},
                    outs \in {wk[w].outs, SuccessfulOutcomes(wk[w].outs)} :
                    /\ Accepted(w, status, outs, wk[w].prog)
                    /\ \E s : /\ Goes(w, s) /\ s.at = wk[w].at + 1
                              /\ Shape(s, "report", wk[w].outs, wk[w].prog,
                                       wk[w].i, wk[w].reg, wk[w].err)
              \/ receipt' = receipt /\ Goes(w, IdleCall)
<1> DEFINE acc == To(wk[w], "report")
<1>1. ReceiptOnly /\ wk[w].pc \in {"record", "fail"}
  BY DEF Complete, FailImport, ReceiptOnly, providerVars, At
<1>2. wk[w] \in CallState /\ IdleCall \in CallState
  BY CallTyped, ConstantsTyped
<1>3. PICK status \in {"completed", "holding", "failed"},
           outs \in {wk[w].outs, SuccessfulOutcomes(wk[w].outs)} :
           UpdatePackage(w, Candidate(w, status, outs, wk[w].prog), acc, IdleCall)
  <2>1. CASE Complete(w)
    <3> DEFINE st == IF \E r \in Record : wk[w].outs[r].status = "holding"
                     THEN "holding" ELSE "completed"
    <3>1. UpdatePackage(w, Candidate(w, st, wk[w].outs, wk[w].prog), acc, IdleCall)
      BY <2>1 DEF Complete
    <3>2. st \in {"completed", "holding", "failed"}
      OBVIOUS
    <3> HIDE DEF st, acc
    <3> QED BY <3>1, <3>2
  <2>2. CASE FailImport(w)
    <3>1. UpdatePackage(w, Candidate(w, "failed", SuccessfulOutcomes(wk[w].outs), wk[w].prog),
                        acc, IdleCall)
      BY <2>2 DEF FailImport
    <3> HIDE DEF acc
    <3> QED BY <3>1
  <2> QED BY <2>1, <2>2
<1>4. outs \in [Record -> Outcome] /\ wk[w].prog \in [Record -> Progress] /\ status \in ReceiptStatus
  BY <1>2, <1>3, SuccessfulOutcomesTyped DEF CallState, ReceiptStatus
<1>5. /\ acc \in CallState
      /\ Shape(acc, "report", wk[w].outs, wk[w].prog, wk[w].i, wk[w].reg, wk[w].err)
  BY <1>2, StepFields DEF Steps
<1> HIDE DEF acc
<1>6. \/ /\ Accepted(w, status, outs, wk[w].prog)
         /\ \E s : /\ Goes(w, s) /\ s.at = wk[w].at + 1
                   /\ Shape(s, acc.pc, acc.outs, acc.prog, acc.i, acc.reg, acc.err)
      \/ receipt' = receipt /\ Goes(w, IdleCall)
  BY <1>2, <1>3, <1>4, <1>5, UpdateEffect
<1>7. /\ acc.pc = "report" /\ acc.outs = wk[w].outs /\ acc.prog = wk[w].prog
      /\ acc.i = wk[w].i /\ acc.reg = wk[w].reg /\ acc.err = wk[w].err
  BY <1>5 DEF Shape
<1> QED BY <1>1, <1>6, <1>7

(* The steps between Guard's registration and the receipt's checkpoint of  *)
(* it, at which a crash leaves a lock that no receipt knows.               *)
LockSteps == {"regAudit", "rollback", "lockError", "ownership", "cleanup"}

LEMMA LeaveEffect ==
    ASSUME TypeOK, NEW w \in Worker, Report(w) \/ Crash(w)
    PROVE  CallOnly /\ Goes(w, IdleCall)
BY ConstantsTyped DEF Report, Crash, CallOnly, providerVars, Goes, Go

LEMMA CrashMarks ==
    ASSUME TypeOK, NEW w \in Worker, Report(w) \/ Crash(w), wk[w].pc \in LockSteps,
           Current(w) \in Record
    PROVE  "crash" \in marks'[Current(w)]
BY BefellMarks DEF Report, Crash, At, LockSteps

LEMMA HeartbeatEffect ==
    ASSUME TypeOK, NEW w \in Worker, Heartbeat(w)
    PROVE  /\ ReceiptOnly /\ Works(w, "calling")
           /\ receipt.status = "processing" /\ receipt.at = wk[w].at
           /\ receipt' = [receipt EXCEPT !.at = receipt.at + 1]
           /\ \E s : /\ Goes(w, s) /\ s.at = wk[w].at + 1
                     /\ Shape(s, "calling", wk[w].outs, wk[w].prog,
                              wk[w].i, wk[w].reg, wk[w].err)
<1> DEFINE s == [wk[w] EXCEPT !.at = wk[w].at + 1]
<1>1. /\ ReceiptOnly /\ Works(w, "calling")
      /\ receipt.status = "processing" /\ receipt.at = wk[w].at
      /\ receipt' = [receipt EXCEPT !.at = receipt.at + 1]
      /\ Go(w, s)
  BY InLoopWorks DEF Heartbeat, ReceiptOnly, providerVars
<1>2. /\ s \in CallState /\ s.at = wk[w].at + 1
      /\ Shape(s, "calling", wk[w].outs, wk[w].prog, wk[w].i, wk[w].reg, wk[w].err)
  BY <1>1 DEF Works, CallState, Shape
<1>3. Goes(w, s)
  BY <1>1, <1>2 DEF Goes, Go
<1> HIDE DEF s
<1> QED BY <1>1, <1>2, <1>3

LEMMA ReserveEffect ==
    ASSUME TypeOK, NEW w \in Worker, Reserve(w)
    PROVE  /\ ReceiptOnly /\ receipt.status = "absent"
           /\ receipt' = [receipt EXCEPT !.status = "processing", !.at = 1]
           /\ \E s : /\ Goes(w, s) /\ s.at = 1
                     /\ Shape(s, "preflight", [r \in Record |-> NoOutcome],
                              [r \in Record |-> NoProgress], 1, NoRegistration, "none")
<1> DEFINE s == [IdleCall EXCEPT !.pc = "preflight", !.at = 1]
<1>1. /\ ReceiptOnly /\ receipt.status = "absent"
      /\ receipt' = [receipt EXCEPT !.status = "processing", !.at = 1]
      /\ Go(w, s)
  BY DEF Reserve, ReceiptOnly, providerVars
<1>2. /\ s \in CallState /\ s.at = 1
      /\ Shape(s, "preflight", [r \in Record |-> NoOutcome],
               [r \in Record |-> NoProgress], 1, NoRegistration, "none")
  BY IdleFields DEF CallState, Shape, Steps
<1>3. Goes(w, s)
  BY <1>1, <1>2 DEF Goes, Go
<1> HIDE DEF s
<1> QED BY <1>1, <1>2, <1>3

LEMMA ReadEffect ==
    ASSUME TypeOK, NEW w \in Worker, ReadReceipt(w)
    PROVE  /\ CallOnly
           /\ \E s : /\ Goes(w, s) /\ s.at = receipt.at
                     /\ Shape(s, "resume", receipt.outcome, receipt.progress,
                              1, NoRegistration, "none")
<1> DEFINE s == [IdleCall EXCEPT !.pc = "resume", !.at = receipt.at,
                                 !.outs = receipt.outcome, !.prog = receipt.progress]
<1>1. CallOnly /\ Go(w, s)
  BY DEF ReadReceipt, CallOnly, providerVars
<1>2. /\ s \in CallState /\ s.at = receipt.at
      /\ Shape(s, "resume", receipt.outcome, receipt.progress, 1, NoRegistration, "none")
  BY IdleFields DEF CallState, Shape, Steps, TypeOK, Receipt
<1>3. Goes(w, s)
  BY <1>1, <1>2 DEF Goes, Go
<1> HIDE DEF s
<1> QED BY <1>1, <1>2, <1>3

(* The steps of the environment. *)
LEMMA EnvironmentEffect ==
    ASSUME TypeOK,
           \/ LeaseExpires
           \/ \E r \in Record : \/ ClaimOwnership(r) \/ AuditClaim(r)
                                \/ ResolveDependency(r) \/ LoseDependency(r)
    PROVE  /\ UNCHANGED <<receipt, stored, wrote, provAudited, wk>>
           /\ \/ UNCHANGED <<own, claiming>>
              \/ \E r \in Record : /\ own[r].state = "locked" /\ "claim" \in Faults
                                   /\ "claim" \in marks'[r]
                                   /\ own' = [own EXCEPT ![r].state = "claimed"]
                                   /\ claiming' = claiming \cup {r}
              \/ \E r \in claiming : /\ \/ own' = own
                                        \/ own' = [own EXCEPT ![r].state = "locked"]
                                     /\ claiming' = claiming \ {r}
BY BefellMarks DEF LeaseExpires, ClaimOwnership, AuditClaim, ResolveDependency,
       LoseDependency, providerVars, Fault

(* Nothing that befell a lock is forgotten. *)
MarkGrows(old, new) == \A r \in Record : old[r] \subseteq new[r]

LEMMA MarksSteps ==
    ASSUME TypeOK, [Next]_vars
    PROVE  MarkGrows(marks, marks')
<1>1. ASSUME marks' = marks PROVE MarkGrows(marks, marks')
  BY <1>1 DEF MarkGrows
<1>2. ASSUME NEW r \in Record, NEW mark, Befell(r, mark) PROVE MarkGrows(marks, marks')
  BY <1>2 DEF MarkGrows, Befell, TypeOK
<1>3. ASSUME NEW w \in Worker, Start(w) \/ Heartbeat(w) PROVE marks' = marks
  BY <1>3 DEF Start, Reserve, Replay, ReadReceipt, Heartbeat
<1>4. ASSUME NEW w \in Worker, Crash(w) PROVE MarkGrows(marks, marks')
  BY <1>1, <1>4 DEF Crash, Befell, MarkGrows, TypeOK
<1>5. ASSUME NEW w \in Worker, Work(w) PROVE MarkGrows(marks, marks')
  <2>1. CASE \/ Resume(w) \/ Preflight(w) \/ SkipRecord(w) \/ HoldRecord(w)
             \/ ResumeRecord(w) \/ InspectRecord(w) \/ ReserveIntent(w)
             \/ AuditOwnership(w) \/ ReconcileOwnership(w) \/ CheckpointOwnership(w)
    <3>1. marks' = marks
      BY <2>1 DEF Resume, Preflight, SkipRecord, HoldRecord, ResumeRecord, InspectRecord,
          ReserveIntent, AuditOwnership, ReconcileOwnership, CheckpointOwnership
    <3> QED BY <1>1, <3>1
  <2>2. CASE \/ ProviderCommits(w) \/ ProviderRefuses(w) \/ ProviderFails(w)
             \/ LeaseLost(w) \/ VerifyCommit(w) \/ CheckpointCommitted(w)
             \/ ClearIntent(w) \/ CheckpointHolding(w) \/ Complete(w)
             \/ FailImport(w) \/ Report(w)
    <3>1. marks' = marks
      BY <2>2 DEF ProviderCommits, ProviderRefuses, ProviderFails, LeaseLost, VerifyCommit,
          CheckpointCommitted, ClearIntent, CheckpointHolding, Complete, FailImport, Report
    <3> QED BY <1>1, <3>1
  <2>3. CASE \/ RegisterOwnership(w) \/ RollbackOwnership(w)
             \/ CleanupOwnership(w) \/ Compensate(w)
    <3>1. Current(w) \in Record
      BY <2>3, CurrentTyped DEF RegisterOwnership, RollbackOwnership, CleanupOwnership, Compensate
    <3>2. marks' = marks \/ \E mark : Befell(Current(w), mark)
      BY <2>3 DEF RegisterOwnership, RollbackOwnership, CleanupOwnership, Compensate,
          DeleteOwnership
    <3> QED BY <1>1, <1>2, <3>1, <3>2
  <2> QED BY <1>5, <2>1, <2>2, <2>3 DEF Work
<1>6. ASSUME NEW r \in Record, ClaimOwnership(r) PROVE MarkGrows(marks, marks')
  BY <1>2, <1>6 DEF ClaimOwnership
<1>7. ASSUME \/ LeaseExpires
             \/ \E r \in Record : AuditClaim(r) \/ ResolveDependency(r) \/ LoseDependency(r)
      PROVE  marks' = marks
  BY <1>7 DEF LeaseExpires, AuditClaim, ResolveDependency, LoseDependency
<1> QED BY <1>1, <1>3, <1>4, <1>5, <1>6, <1>7 DEF Next, vars

--------------------------------------------------------------------------------
(* The audit log has no gap. *)

(* How a step may move the token of the receipt and those of the calls: it *)
(* moves neither, or a call ends or goes on under its token, or it reads   *)
(* the receipt, or it writes it and takes the new token along.             *)
TokenStep ==
    \/ receipt' = receipt /\ wk' = wk
    \/ \E w \in Worker : \E s \in CallState :
          /\ wk' = [wk EXCEPT ![w] = s]
          /\ \/ /\ receipt' = receipt /\ s.pc # "resume"
                /\ Running(s) => Running(wk[w]) /\ s.at = wk[w].at
             \/ receipt' = receipt /\ ReadReceipt(w) /\ s.pc = "resume"
             \/ /\ receipt' # receipt
                /\ receipt.at = wk[w].at /\ receipt'.at = receipt.at + 1
                /\ s.at = receipt'.at /\ s.pc # "resume"
                /\ Running(s) => receipt'.status = "processing"
                /\ Running(wk[w]) \/ wk[w].pc = "resume"
             \/ /\ receipt.status = "absent" /\ receipt'.at = 1
                /\ receipt'.status = "processing"
                /\ s.at = 1 /\ s.pc # "resume"

(* A receipt that was accepted moves the token by one. *)
LEMMA AcceptedToken ==
    ASSUME TypeOK, NEW w \in Worker, NEW status, NEW outs, NEW prog,
           Accepted(w, status, outs, prog)
    PROVE  /\ receipt.at = wk[w].at /\ receipt'.at = receipt.at + 1
           /\ receipt' # receipt /\ receipt'.status = status
<1>1. receipt.at \in Nat
  BY DEF TypeOK, Receipt
<1> QED BY <1>1 DEF Accepted

LEMMA TokenSteps ==
    ASSUME TypeOK, [Next]_vars
    PROVE  TokenStep
<1>1. ASSUME NEW w \in Worker, NEW s, Goes(w, s), receipt' = receipt, s.pc # "resume",
             Running(s) => Running(wk[w]) /\ s.at = wk[w].at
      PROVE  TokenStep
  BY <1>1 DEF TokenStep, Goes
<1>2. ASSUME NEW w \in Worker, NEW s, Goes(w, s), NEW status, NEW outs, NEW prog,
             Accepted(w, status, outs, prog), s.at = wk[w].at + 1, s.pc # "resume",
             Running(s) => status = "processing", Running(wk[w]) \/ wk[w].pc = "resume"
      PROVE  TokenStep
  <2>1. /\ receipt.at = wk[w].at /\ receipt'.at = receipt.at + 1
        /\ receipt' # receipt /\ receipt'.status = status
    BY <1>2, AcceptedToken
  <2> QED BY <1>2, <2>1 DEF TokenStep, Goes
<1>3. ASSUME NEW w \in Worker, Goes(w, IdleCall), receipt' = receipt PROVE TokenStep
  BY <1>1, <1>3, IdleFields DEF Running, Shape
<1>4. ASSUME NEW w \in Worker, NEW s, NEW step, Moves(w, s, step), receipt' = receipt,
             step # "resume", Running(wk[w])
      PROVE  TokenStep
  BY <1>1, <1>4 DEF Moves, Shape
<1>5. ASSUME NEW w \in Worker, NEW s, NEW step, NEW g, MovesWith(w, s, step, g),
             receipt' = receipt, step # "resume", Running(wk[w])
      PROVE  TokenStep
  BY <1>1, <1>5 DEF MovesWith, Shape
<1>6. ASSUME NEW w \in Worker, NEW s, NEW step, NEW e, MovesErr(w, s, step, e),
             receipt' = receipt, step # "resume", Running(wk[w])
      PROVE  TokenStep
  BY <1>1, <1>6 DEF MovesErr, Shape
<1>7. ASSUME NEW w \in Worker, Start(w) PROVE TokenStep
  <2>1. CASE Reserve(w)
    BY <2>1, ReserveEffect DEF TokenStep, Goes, Shape, TypeOK, Receipt
  <2>2. CASE Replay(w)
    BY <2>2 DEF Replay, TokenStep
  <2>3. CASE ReadReceipt(w)
    BY <2>3, ReadEffect DEF TokenStep, Goes, Shape, CallOnly
  <2> QED BY <1>7, <2>1, <2>2, <2>3 DEF Start
<1>8. ASSUME NEW w \in Worker, Work(w) PROVE TokenStep
  <2>1. CASE Resume(w)
    BY <1>2, <1>3, <2>1, ResumeEffect DEF Shape, Running
  <2>2. CASE Preflight(w)
    BY <1>4, <2>2, PreflightEffect DEF Running, CallOnly
  <2>3. CASE SkipRecord(w)
    BY <1>1, <2>3, SkipEffect DEF Running, CallOnly, Shape, Works
  <2>4. CASE HoldRecord(w)
    BY <1>1, <2>4, HoldEffect DEF Running, CallOnly, Shape, Works
  <2>5. CASE ResumeRecord(w)
    BY <1>4, <2>5, ResumeRecordEffect DEF Running, CallOnly, Works
  <2>6. CASE InspectRecord(w)
    BY <1>5, <2>6, InspectEffect DEF Running, CallOnly, Works
  <2>7. CASE ReserveIntent(w)
    BY <1>2, <1>5, <2>7, ReserveIntentEffect DEF Running, Shape, Works
  <2>8. CASE RegisterOwnership(w)
    <3>1. receipt' = receipt /\ Running(wk[w])
      BY <2>8, RegisterEffect DEF OwnOnly, Works, Running
    <3>2. \E s : /\ Goes(w, s) /\ s.at = wk[w].at /\ s.pc # "resume"
      BY <2>8, RegisterEffect DEF Moves, Shape
    <3> QED BY <1>1, <3>1, <3>2
  <2>9. CASE AuditOwnership(w)
    BY <1>4, <2>9, AuditEffect DEF Running, CallOnly, Works
  <2>10. CASE RollbackOwnership(w)
    BY <1>1, <2>10, RollbackEffect DEF Running, OwnOnly, Shape, Works
  <2>11. CASE ReconcileOwnership(w)
    BY <1>5, <2>11, ReconcileEffect DEF Running, CallOnly, Works
  <2>12. CASE CheckpointOwnership(w)
    <3>1. Running(wk[w])
      BY <2>12, CheckpointOwnershipEffect DEF Works, Running
    <3>2. \/ \E s : receipt' = receipt /\ Moves(w, s, "calling")
          \/ \E s, prog : /\ Accepted(w, "processing", SuccessfulOutcomes(wk[w].outs), prog)
                          /\ Goes(w, s) /\ s.at = wk[w].at + 1 /\ s.pc = "calling"
          \/ \E s, g : receipt' = receipt /\ MovesWith(w, s, "cleanup", g)
      BY <2>12, CheckpointOwnershipEffect DEF Shape
    <3> QED BY <1>2, <1>4, <1>5, <3>1, <3>2
  <2>13. CASE CleanupOwnership(w)
    BY <1>5, <2>13, CleanupEffect DEF Running, OwnOnly, Works
  <2>14. CASE ProviderCommits(w) \/ ProviderRefuses(w) \/ ProviderFails(w) \/ LeaseLost(w)
    <3>1. receipt' = receipt /\ Running(wk[w])
      BY <2>14, ProviderEffect DEF ProviderOnly, Works, Running
    <3>2. \/ \E s : Moves(w, s, "commit")
          \/ \E s : \E e : \E step \in {"verify", "commit"} : MovesErr(w, s, step, e)
      BY <2>14, ProviderEffect
    <3>3. CASE \E s : Moves(w, s, "commit")
      BY <1>4, <3>1, <3>3
    <3>4. ASSUME NEW s, NEW e, NEW step \in {"verify", "commit"}, MovesErr(w, s, step, e)
          PROVE  TokenStep
      BY <1>6, <3>1, <3>4
    <3> QED BY <3>2, <3>3, <3>4
  <2>15. CASE VerifyCommit(w)
    BY <1>3, <1>4, <1>5, <2>15, VerifyEffect DEF Running, CallOnly, Works
  <2>16. CASE CheckpointCommitted(w)
    <3>1. Running(wk[w])
      BY <2>16, CommitEffect DEF Works, Running
    <3>2. \/ \E s, outs, prog : /\ Accepted(w, "processing", outs, prog)
                                /\ Goes(w, s) /\ s.at = wk[w].at + 1 /\ s.pc \in {"clear", "fail"}
          \/ \E s : receipt' = receipt /\ Goes(w, s) /\ s.at = wk[w].at /\ s.pc = "fail"
      BY <2>16, CommitEffect DEF Shape
    <3> QED BY <1>1, <1>2, <3>1, <3>2
  <2>17. CASE ClearIntent(w)
    <3>1. Running(wk[w])
      BY <2>17, ClearEffect DEF Works, Running
    <3>2. \/ \E s, outs, prog : /\ Accepted(w, "processing", outs, prog)
                                /\ Goes(w, s) /\ s.at = wk[w].at + 1 /\ s.pc = "record"
          \/ \E s : receipt' = receipt /\ Moves(w, s, "fail")
      BY <2>17, ClearEffect DEF Shape
    <3> QED BY <1>2, <1>4, <3>1, <3>2
  <2>18. CASE Compensate(w)
    BY <1>5, <2>18, CompensateEffect DEF Running, OwnOnly, Works
  <2>19. CASE CheckpointHolding(w)
    <3>1. Running(wk[w])
      BY <2>19, HoldingEffect DEF Works, Running
    <3>2. \/ \E s, outs, prog : /\ Accepted(w, "processing", outs, prog)
                                /\ Goes(w, s) /\ s.at = wk[w].at + 1 /\ s.pc = "record"
          \/ \E s : receipt' = receipt /\ Moves(w, s, "fail")
      BY <2>19, HoldingEffect DEF Shape
    <3> QED BY <1>2, <1>4, <3>1, <3>2
  <2>20. CASE Complete(w) \/ FailImport(w)
    <3>1. Running(wk[w])
      BY <2>20, TerminalEffect DEF Running
    <3>2. \/ \E s, status, outs : /\ Accepted(w, status, outs, wk[w].prog)
                                  /\ Goes(w, s) /\ s.at = wk[w].at + 1 /\ s.pc = "report"
          \/ receipt' = receipt /\ Goes(w, IdleCall)
      BY <2>20, TerminalEffect DEF Shape
    <3> QED BY <1>2, <1>3, <3>1, <3>2 DEF Running
  <2>21. CASE Report(w)
    BY <1>3, <2>21, LeaveEffect DEF CallOnly
  <2> QED BY <1>8, <2>1, <2>2, <2>3, <2>4, <2>5, <2>6, <2>7, <2>8, <2>9, <2>10, <2>11,
             <2>12, <2>13, <2>14, <2>15, <2>16, <2>17, <2>18, <2>19, <2>20, <2>21 DEF Work
<1>9. ASSUME NEW w \in Worker, Heartbeat(w) PROVE TokenStep
  <2>1. PICK s : Goes(w, s) /\ s.at = wk[w].at + 1 /\ s.pc = "calling"
    BY <1>9, HeartbeatEffect DEF Shape
  <2>2. receipt.at = wk[w].at /\ receipt.status = "processing" /\ receipt' = [receipt EXCEPT !.at = receipt.at + 1]
        /\ Running(wk[w])
    BY <1>9, HeartbeatEffect DEF Works, Running
  <2>3. receipt.at \in Nat /\ receipt \in Receipt
    BY DEF TypeOK, Receipt
  <2>4. receipt'.at = receipt.at + 1 /\ receipt'.status = "processing" /\ receipt' # receipt
    BY <2>2, <2>3 DEF Receipt
  <2> QED BY <2>1, <2>2, <2>4 DEF TokenStep, Goes
<1>10. ASSUME NEW w \in Worker, Crash(w) PROVE TokenStep
  BY <1>3, <1>10, LeaveEffect DEF CallOnly
<1>11. CASE \/ LeaseExpires
            \/ \E r \in Record : \/ ClaimOwnership(r) \/ AuditClaim(r)
                                 \/ ResolveDependency(r) \/ LoseDependency(r)
  BY <1>11, EnvironmentEffect DEF TokenStep
<1> QED BY <1>7, <1>8, <1>9, <1>10, <1>11 DEF Next, vars, TokenStep

(* A report is forgotten only when the receipt is written. *)
LEMMA ReportedKept ==
    ASSUME TypeOK, [Next]_vars, receipt' = receipt, reported
    PROVE  reported'
<1>1. ASSUME NEW w \in Worker, NEW status, NEW outs, NEW prog, NEW acc, NEW ref,
             UpdatePackage(w, Candidate(w, status, outs, prog), acc, ref)
      PROVE  reported'
  <2> DEFINE p == Candidate(w, status, outs, prog)
  <2>1. receipt.at \in Nat
    BY DEF TypeOK, Receipt
  <2>2. p.at = wk[w].at + 1
    BY DEF Candidate
  <2>3. UpdatePackage(w, p, acc, ref)
    BY <1>1
  <2> HIDE DEF p
  <2>4. CASE receipt.at = wk[w].at /\ receipt' = p
    BY <2>1, <2>2, <2>4
  <2>5. CASE reported' = reported
    BY <2>5
  <2> QED BY <2>3, <2>4, <2>5 DEF UpdatePackage, CanUpdate
<1>2. ASSUME NEW w \in Worker, NEW o, NEW g, NEW acc, NEW ref, Checkpoint(w, o, g, acc, ref)
      PROVE  reported'
  BY <1>1, <1>2 DEF Checkpoint
<1>3. ASSUME NEW w \in Worker, Start(w) \/ Heartbeat(w) \/ Crash(w) PROVE reported'
  BY <1>3 DEF Start, Reserve, Replay, ReadReceipt, Heartbeat, Crash
<1>4. ASSUME NEW w \in Worker, Work(w) PROVE reported'
  <2>1. CASE Resume(w) \/ Complete(w) \/ FailImport(w)
    BY <1>1, <2>1 DEF Resume, Complete, FailImport
  <2>2. CASE \/ ReserveIntent(w) \/ CheckpointOwnership(w) \/ CheckpointCommitted(w)
             \/ ClearIntent(w) \/ CheckpointHolding(w)
    BY <1>2, <2>2 DEF ReserveIntent, CheckpointOwnership, CheckpointCommitted, ClearIntent,
        CheckpointHolding
  <2>3. CASE \/ Preflight(w) \/ SkipRecord(w) \/ HoldRecord(w) \/ ResumeRecord(w)
             \/ InspectRecord(w) \/ RegisterOwnership(w) \/ AuditOwnership(w)
             \/ RollbackOwnership(w) \/ ReconcileOwnership(w) \/ CleanupOwnership(w)
             \/ ProviderCommits(w) \/ ProviderRefuses(w) \/ ProviderFails(w)
             \/ LeaseLost(w) \/ VerifyCommit(w) \/ Compensate(w) \/ Report(w)
    BY <2>3 DEF Preflight, SkipRecord, HoldRecord, ResumeRecord, InspectRecord,
        RegisterOwnership, AuditOwnership, RollbackOwnership, ReconcileOwnership,
        CleanupOwnership, ProviderCommits, ProviderRefuses, ProviderFails, LeaseLost,
        VerifyCommit, Compensate, Report
  <2> QED BY <1>4, <2>1, <2>2, <2>3 DEF Work
<1>5. CASE \/ LeaseExpires
           \/ \E r \in Record : \/ ClaimOwnership(r) \/ AuditClaim(r)
                                \/ ResolveDependency(r) \/ LoseDependency(r)
  BY <1>5 DEF LeaseExpires, ClaimOwnership, AuditClaim, ResolveDependency, LoseDependency
<1> QED BY <1>3, <1>4, <1>5 DEF Next, vars

(* A call that holds the current token works on a processing receipt, or   *)
(* read an ended one whose report was delivered.                           *)
ReportInv ==
    \A w \in Worker : wk[w].at = receipt.at =>
        /\ Running(wk[w]) => receipt.status = "processing"
        /\ wk[w].pc = "resume" /\ receipt.status \in {"failed", "holding"} => reported

LEMMA ReportInit == Init => ReportInv
<1> SUFFICES ASSUME Init, NEW w \in Worker PROVE wk[w].pc = "idle"
  BY DEF ReportInv, Running
<1> QED BY IdleFields DEF Init, Shape

LEMMA ReportStep ==
    ASSUME TypeOK, SafetyInv, ReportInv, [Next]_vars
    PROVE  ReportInv'
<1>1. TokenStep
  BY TokenSteps
<1>2. receipt.at \in Nat /\ \A v \in Worker : wk[v].at \in Nat /\ wk[v].at <= receipt.at
  BY DEF TypeOK, CallState, Receipt, SafetyInv, LeaseInv
<1>3. receipt.status = "absent" => receipt.at = 0
  BY DEF SafetyInv, LeaseInv
<1>4. receipt' = receipt /\ reported => reported'
  BY ReportedKept
<1>5. CASE receipt' = receipt /\ wk' = wk
  BY <1>4, <1>5 DEF ReportInv, Running
<1>6. ASSUME NEW w \in Worker, NEW s \in CallState, wk' = [wk EXCEPT ![w] = s]
      PROVE  /\ wk'[w] = s
             /\ \A v \in Worker : v # w => wk'[v] = wk[v]
  BY <1>6 DEF TypeOK
<1>7. ASSUME NEW w \in Worker, NEW s \in CallState, wk' = [wk EXCEPT ![w] = s],
             receipt' = receipt, s.pc # "resume",
             Running(s) => Running(wk[w]) /\ s.at = wk[w].at
      PROVE  ReportInv'
  BY <1>4, <1>6, <1>7 DEF ReportInv, Running
<1>8. ASSUME NEW w \in Worker, NEW s \in CallState, wk' = [wk EXCEPT ![w] = s],
             receipt' = receipt, ReadReceipt(w), s.pc = "resume"
      PROVE  ReportInv'
  <2>1. receipt.status \in {"failed", "holding"} => reported'
    BY <1>8 DEF ReadReceipt
  <2>2. ~Running(s)
    BY <1>8 DEF Running
  <2> QED BY <1>4, <1>6, <1>8, <2>1, <2>2 DEF ReportInv, Running
<1>9. ASSUME NEW w \in Worker, NEW s \in CallState, wk' = [wk EXCEPT ![w] = s],
             receipt.at = wk[w].at, receipt'.at = receipt.at + 1,
             s.at = receipt'.at, s.pc # "resume",
             Running(s) => receipt'.status = "processing"
      PROVE  ReportInv'
  <2>1. \A v \in Worker : v # w => wk'[v].at # receipt'.at
    BY <1>2, <1>6, <1>9
  <2> QED BY <1>6, <1>9, <2>1 DEF ReportInv, Running
<1>10. ASSUME NEW w \in Worker, NEW s \in CallState, wk' = [wk EXCEPT ![w] = s],
              receipt.status = "absent", receipt'.at = 1, receipt'.status = "processing",
              s.at = 1, s.pc # "resume"
       PROVE  ReportInv'
  <2>1. \A v \in Worker : v # w => wk'[v].at # receipt'.at
    BY <1>2, <1>3, <1>6, <1>10
  <2> QED BY <1>6, <1>10, <2>1 DEF ReportInv, Running
<1> QED BY <1>1, <1>5, <1>7, <1>8, <1>9, <1>10 DEF TokenStep

(* Every reachable state satisfies it. *)
THEOREM ReportInvariant == Spec => []ReportInv
BY TypeCorrect, SafetyInvariant, ReportInit, ReportStep, PTL DEF Spec

(* A failed or holding receipt is re-opened only after its audit event is  *)
(* delivered: every call that could re-open it repaired the event when it  *)
(* read the receipt, and loses its token if another call writes.           *)
THEOREM ReopeningsAreReported == Spec => ReopenedAfterReport
<1> DEFINE Closed == receipt.status \in {"failed", "holding"} /\ receipt'.status = "processing"
<1>1. ASSUME TypeOK, ReportInv, [Next]_vars PROVE [Closed => reported]_receipt
  <2>1. TokenStep
    BY <1>1, TokenSteps
  <2> QED BY <1>1, <2>1 DEF TokenStep, ReportInv
<1> QED BY <1>1, TypeCorrect, ReportInvariant, PTL DEF Spec, ReopenedAfterReport

--------------------------------------------------------------------------------
(* A lock that was there before the package is not deleted.                *)

(* The record that a call in state s works on. *)
RecordOf(s) == Order[s.i]

(* A recovery state that knows of a lock of its own, knows of one that was *)
(* registered after the package arrived, unless Guard failed on it.        *)
Later(r, entry, m) == entry[r].stamp > 0 \/ "guard" \in m[r]

Stamped(prog, entry, m) == \A r \in Record : prog[r].created => Later(r, entry, m)

CallStamped(s, entry, m) ==
    /\ Stamped(s.prog, entry, m)
    /\ s.pc \in {"regAudit", "rollback"} => s.reg.created
    /\ s.i \in DOMAIN Order =>
          /\ s.reg.created => s.reg.stamp > 0 /\ entry[RecordOf(s)].stamp > 0
          /\ s.pc = "lockError" => \/ Later(RecordOf(s), entry, m)
                                   \/ entry[RecordOf(s)].state = "foreign"

StampInv ==
    /\ Stamped(receipt.progress, own, marks)
    /\ \A w \in Worker : CallStamped(wk[w], own, marks)
    /\ \A r \in claiming : own[r].state = "claimed"

(* Stamps only grow, and foreign or claimed entries stay what they are. *)
EntryGrows(old, new) ==
    \A r \in Record : /\ new[r].stamp >= old[r].stamp
                      /\ old[r].state = "foreign" => new[r].state = "foreign"

LEMMA StampedGrows ==
    ASSUME NEW old \in [Record -> Ownership], NEW new \in [Record -> Ownership],
           EntryGrows(old, new), NEW m, NEW n, MarkGrows(m, n), NEW prog, Stamped(prog, old, m)
    PROVE  Stamped(prog, new, n)
<1>1. \A r \in Record : old[r].stamp \in Nat /\ new[r].stamp \in Nat
  BY DEF Ownership
<1> QED BY <1>1 DEF Stamped, EntryGrows, MarkGrows, Later

LEMMA CallStampedGrows ==
    ASSUME NEW old \in [Record -> Ownership], NEW new \in [Record -> Ownership],
           EntryGrows(old, new), NEW m, NEW n, MarkGrows(m, n),
           NEW s \in CallState, CallStamped(s, old, m)
    PROVE  CallStamped(s, new, n)
<1>1. \A r \in Record : old[r].stamp \in Nat /\ new[r].stamp \in Nat
  BY DEF Ownership
<1>2. s.i \in DOMAIN Order => RecordOf(s) \in Record
  BY OrderAssumption DEF RecordOf
<1>3. Stamped(s.prog, new, n)
  BY StampedGrows DEF CallStamped
<1> QED BY <1>1, <1>2, <1>3 DEF CallStamped, EntryGrows, MarkGrows, Later

(* A step that lets entries grow and gives one call a stamped state. *)
LEMMA StampFrame ==
    ASSUME TypeOK, own' \in [Record -> Ownership], StampInv, NEW w \in Worker, NEW s,
           Goes(w, s), EntryGrows(own, own'), MarkGrows(marks, marks'), claiming' = claiming,
           \A r \in claiming : own'[r] = own[r],
           Stamped(receipt'.progress, own', marks'), CallStamped(s, own', marks')
    PROVE  StampInv'
<1>1. own \in [Record -> Ownership] /\ wk \in [Worker -> CallState]
  BY DEF TypeOK
<1>2. wk' = [wk EXCEPT ![w] = s]
  BY DEF Goes
<1>3. \A v \in Worker : CallStamped(wk'[v], own', marks')
  <2> TAKE v \in Worker
  <2>1. CallStamped(wk[v], own', marks')
    BY <1>1, CallStampedGrows DEF StampInv
  <2> QED BY <1>1, <1>2, <2>1
<1> QED BY <1>3 DEF StampInv

(* A call state that keeps the registration of a stamped call, or has none. *)
LEMMA KeepsStamp ==
    ASSUME NEW c, NEW s, CallStamped(c, own, marks), Stamped(s.prog, own, marks),
           s.pc \notin {"regAudit", "rollback", "lockError"},
           (s.reg = c.reg /\ s.i = c.i) \/ s.reg = NoRegistration
    PROVE  CallStamped(s, own, marks)
BY DEF CallStamped, NoRegistration, RecordOf

LEMMA StampedWith ==
    ASSUME NEW prog \in [Record -> Progress], Stamped(prog, own, marks), NEW r \in Record, NEW g,
           g.created => Later(r, own, marks)
    PROVE  Stamped([prog EXCEPT ![r] = g], own, marks)
BY DEF Stamped

LEMMA IdleStamped == CallStamped(IdleCall, own, marks)
BY DEF IdleCall, CallStamped, Stamped, NoProgress, NoRegistration

LEMMA StampInit == Init => StampInv
<1> SUFFICES ASSUME Init PROVE StampInv
  OBVIOUS
<1>1. Stamped(receipt.progress, own, marks)
  BY DEF Init, AbsentReceipt, Stamped, NoProgress
<1>2. \A w \in Worker : wk[w] = IdleCall
  BY DEF Init
<1>3. claiming = {}
  BY DEF Init
<1> QED BY <1>1, <1>2, <1>3, IdleStamped DEF StampInv

(* Every step keeps the stamps. *)
LEMMA StampStep ==
    ASSUME TypeOK, TypeOK', StampInv, [Next]_vars
    PROVE  StampInv'
<1>0. MarkGrows(marks, marks') /\ MarkGrows(marks, marks)
  BY MarksSteps DEF MarkGrows
<1>1. own \in [Record -> Ownership] /\ own' \in [Record -> Ownership]
  BY DEF TypeOK
<1>2. EntryGrows(own, own)
  BY <1>1 DEF EntryGrows, Ownership
<1>3. Stamped(receipt.progress, own, marks) /\ \A v \in Worker : CallStamped(wk[v], own, marks)
  BY DEF StampInv
\* a step that changes no entry
<1>4. ASSUME NEW w \in Worker, NEW s, Goes(w, s), own' = own, claiming' = claiming,
             Stamped(receipt'.progress, own, marks), CallStamped(s, own, marks)
      PROVE  StampInv'
  <2>1. EntryGrows(own, own') /\ \A r \in claiming : own'[r] = own[r]
    BY <1>2, <1>4
  <2>2. s \in CallState
    BY <1>4 DEF Goes
  <2>3. Stamped(receipt'.progress, own', marks') /\ CallStamped(s, own', marks')
    BY <1>0, <1>1, <1>4, <2>1, <2>2, StampedGrows, CallStampedGrows
  <2> QED BY <1>0, <1>1, <1>4, <2>1, <2>3, StampFrame
<1>5. ASSUME NEW w \in Worker, Goes(w, IdleCall), own' = own, claiming' = claiming,
             receipt' = receipt
      PROVE  StampInv'
  BY <1>3, <1>4, <1>5, IdleStamped
<1>6. ASSUME NEW w \in Worker, NEW s, NEW step, Moves(w, s, step), own' = own,
             claiming' = claiming, receipt' = receipt,
             step \notin {"regAudit", "rollback", "lockError"}
      PROVE  StampInv'
  <2>1. CallStamped(wk[w], own, marks) /\ Stamped(wk[w].prog, own, marks)
    BY <1>3 DEF CallStamped
  <2>2. CallStamped(s, own, marks) /\ Goes(w, s)
    BY <1>6, <2>1, KeepsStamp DEF Moves, Shape
  <2> QED BY <1>3, <1>4, <1>6, <2>2
<1>7. ASSUME NEW w \in Worker, NEW s, NEW step, NEW e, MovesErr(w, s, step, e), own' = own,
             claiming' = claiming, receipt' = receipt,
             step \notin {"regAudit", "rollback", "lockError"}
      PROVE  StampInv'
  <2>1. CallStamped(wk[w], own, marks) /\ Stamped(wk[w].prog, own, marks)
    BY <1>3 DEF CallStamped
  <2>2. CallStamped(s, own, marks) /\ Goes(w, s)
    BY <1>7, <2>1, KeepsStamp DEF MovesErr, Shape
  <2> QED BY <1>3, <1>4, <1>7, <2>2
<1>8. ASSUME NEW w \in Worker, NEW s, NEW step, NEW g, MovesWith(w, s, step, g),
             Current(w) \in Record, own' = own, claiming' = claiming, receipt' = receipt,
             g.created => Later(Current(w), own, marks),
             step \notin {"regAudit", "rollback", "lockError"}
      PROVE  StampInv'
  <2>1. CallStamped(wk[w], own, marks) /\ Stamped(wk[w].prog, own, marks) /\ wk[w].prog \in [Record -> Progress]
    BY <1>3, CallTyped DEF CallStamped, CallState
  <2>2. Stamped([wk[w].prog EXCEPT ![Current(w)] = g], own, marks)
    BY <1>8, <2>1, StampedWith
  <2>3. Stamped(s.prog, own, marks)
    BY <1>8, <2>2 DEF MovesWith, Shape
  <2>4. CallStamped(s, own, marks) /\ Goes(w, s)
    BY <1>8, <2>1, <2>3, KeepsStamp DEF MovesWith, Shape
  <2> QED BY <1>3, <1>4, <1>8, <2>4
\* an accepted receipt with the call's own recovery state
<1>9. ASSUME NEW w \in Worker, NEW s, Goes(w, s), ReceiptOnly, NEW status, NEW outs, NEW prog,
             Accepted(w, status, outs, prog), s.prog = prog, Stamped(prog, own, marks),
             s.pc \notin {"regAudit", "rollback", "lockError"},
             (s.reg = wk[w].reg /\ s.i = wk[w].i) \/ s.reg = NoRegistration
      PROVE  StampInv'
  <2>1. CallStamped(s, own, marks)
    BY <1>3, <1>9, KeepsStamp
  <2>2. receipt'.progress = prog /\ own' = own /\ claiming' = claiming
    BY <1>9 DEF Accepted, ReceiptOnly
  <2> QED BY <1>4, <1>9, <2>1, <2>2
<1>10. \A w \in Worker : Stamped(wk[w].prog, own, marks)
  BY <1>3 DEF CallStamped
<1>11. ASSUME NEW w \in Worker, NEW step, Works(w, step)
       PROVE  /\ ~NoProgress.created
              /\ Prog(w).created => Later(Current(w), own, marks)
              /\ Current(w) \in Record
              /\ wk[w].prog \in [Record -> Progress]
              /\ RecordOf(wk[w]) = Current(w) /\ wk[w].i \in DOMAIN Order
  BY <1>10, <1>11 DEF NoProgress, Works, Stamped, Prog, CallState, RecordOf, Current
<1>12. ASSUME NEW w \in Worker, Start(w) PROVE StampInv'
  <2>1. CASE Reserve(w)
    <3>1. PICK s : Goes(w, s) /\ s.prog = [r \in Record |-> NoProgress]
                   /\ s.reg = NoRegistration /\ s.pc = "preflight"
      BY <2>1, ReserveEffect DEF Shape
    <3>2. Stamped(s.prog, own, marks)
      BY <3>1 DEF Stamped, NoProgress
    <3>3. CallStamped(s, own, marks)
      BY <1>3, <3>1, <3>2, KeepsStamp
    <3>4. receipt' = [receipt EXCEPT !.status = "processing", !.at = 1] /\ ReceiptOnly
      BY <2>1, ReserveEffect
    <3>5. receipt'.progress = receipt.progress /\ own' = own /\ claiming' = claiming
      BY <3>4 DEF TypeOK, Receipt, ReceiptOnly
    <3> QED BY <1>3, <1>4, <3>1, <3>3, <3>5
  <2>2. CASE Replay(w)
    BY <2>2 DEF Replay, StampInv
  <2>3. CASE ReadReceipt(w)
    <3>1. PICK s : Goes(w, s) /\ s.prog = receipt.progress
                   /\ s.reg = NoRegistration /\ s.pc = "resume"
      BY <2>3, ReadEffect DEF Shape
    <3>2. CallStamped(s, own, marks)
      BY <1>3, <3>1, KeepsStamp
    <3>3. CallOnly
      BY <2>3, ReadEffect
    <3> QED BY <1>3, <1>4, <3>1, <3>2, <3>3 DEF CallOnly
  <2> QED BY <1>12, <2>1, <2>2, <2>3 DEF Start
<1>13. ASSUME NEW w \in Worker, Heartbeat(w) PROVE StampInv'
  <2>1. PICK s : Goes(w, s) /\ s.prog = wk[w].prog /\ s.i = wk[w].i
                 /\ s.reg = wk[w].reg /\ s.pc = "calling"
    BY <1>13, HeartbeatEffect DEF Shape
  <2>2. CallStamped(s, own, marks)
    BY <1>3, <1>10, <2>1, KeepsStamp
  <2>3. receipt' = [receipt EXCEPT !.at = receipt.at + 1] /\ ReceiptOnly
    BY <1>13, HeartbeatEffect
  <2>4. receipt'.progress = receipt.progress /\ own' = own /\ claiming' = claiming
    BY <2>3 DEF TypeOK, Receipt, ReceiptOnly
  <2> QED BY <1>3, <1>4, <2>1, <2>2, <2>4
<1>14. ASSUME NEW w \in Worker, Report(w) \/ Crash(w) PROVE StampInv'
  BY <1>5, <1>14, LeaveEffect DEF CallOnly
<1>15. CASE \/ LeaseExpires
            \/ \E r \in Record : \/ ClaimOwnership(r) \/ AuditClaim(r)
                                 \/ ResolveDependency(r) \/ LoseDependency(r)
  <2>1. EntryGrows(own, own')
    <3>1. \A r \in claiming : own[r].state = "claimed"
      BY DEF StampInv
    <3> QED BY <1>1, <1>2, <1>15, <3>1, EnvironmentEffect DEF EntryGrows, Ownership
  <2>2. receipt' = receipt /\ wk' = wk
    BY <1>15, EnvironmentEffect
  <2>3. \A r \in claiming' : own'[r].state = "claimed"
    <3>1. claiming \in SUBSET Record /\ \A r \in claiming : own[r].state = "claimed"
      BY DEF StampInv, TypeOK
    <3> QED BY <1>1, <1>15, <3>1, EnvironmentEffect DEF Ownership
  <2>4. Stamped(receipt.progress, own', marks')
    BY <1>0, <1>1, <1>3, <2>1, StampedGrows
  <2>5. \A v \in Worker : CallStamped(wk[v], own', marks')
    BY <1>0, <1>1, <1>3, <2>1, CallTyped, CallStampedGrows
  <2> QED BY <2>2, <2>3, <2>4, <2>5 DEF StampInv
\* a lock that is deleted under a recovery state that no longer knows of it
<1>18. ASSUME NEW w \in Worker, NEW s, NEW step, OwnOnly, Works(w, "cleanup") \/ Works(w, "compensate"),
              Deleted(Current(w), wk[w].reg), MovesWith(w, s, step, NoProgress),
              step \notin {"regAudit", "rollback", "lockError"}
       PROVE  StampInv'
  <2>1. /\ Current(w) \in Record /\ wk[w].prog \in [Record -> Progress] /\ ~NoProgress.created
    BY <1>11, <1>18
  <2>2. /\ \A q \in Record : own'[q].stamp = own[q].stamp
        /\ \A q \in Record : own[q].state # "locked" => own'[q] = own[q]
    BY <1>1, <1>18, <2>1 DEF Deleted, Deletable, Ownership
  <2>3. EntryGrows(own, own')
    BY <1>2, <2>2 DEF EntryGrows
  <2>4. CallStamped(wk[w], own', marks') /\ Stamped(wk[w].prog, own', marks')
    BY <1>0, <1>1, <1>3, <2>3, CallTyped, CallStampedGrows DEF CallStamped
  <2>5. Stamped(receipt'.progress, own', marks') /\ Stamped(s.prog, own', marks')
    BY <1>0, <1>1, <1>3, <1>18, <2>1, <2>3, <2>4, StampedGrows DEF OwnOnly, MovesWith, Shape, Stamped
  <2>6. CallStamped(s, own', marks') /\ Goes(w, s)
    BY <1>18, <2>4, <2>5 DEF CallStamped, RecordOf, MovesWith, Shape
  <2>7. claiming' = claiming /\ \A q \in claiming : own'[q] = own[q]
    BY <1>18, <2>2 DEF StampInv, OwnOnly, TypeOK
  <2> QED BY <1>0, <1>1, <2>3, <2>5, <2>6, <2>7, StampFrame
<1>16. ASSUME NEW w \in Worker, Work(w) PROVE StampInv'
  <2>1. CASE Resume(w)
    <3>1. ReceiptOnly
      BY <2>1, ResumeEffect
    <3> QED BY <1>5, <1>9, <1>10, <2>1, <3>1, ResumeEffect DEF Shape, ReceiptOnly
  <2>2. CASE Preflight(w)
    BY <1>6, <2>2, PreflightEffect DEF CallOnly
  <2>3. CASE SkipRecord(w)
    <3>1. PICK s : Goes(w, s) /\ s.prog = wk[w].prog /\ s.reg = NoRegistration /\ s.pc = "record"
      BY <2>3, SkipEffect DEF Shape
    <3>2. CallStamped(s, own, marks)
      BY <1>3, <1>10, <3>1, KeepsStamp
    <3>3. CallOnly
      BY <2>3, SkipEffect
    <3> QED BY <1>3, <1>4, <3>1, <3>2, <3>3 DEF CallOnly
  <2>4. CASE HoldRecord(w)
    <3>1. PICK s : Goes(w, s) /\ s.prog = wk[w].prog /\ s.reg = NoRegistration /\ s.pc = "record"
      BY <2>4, HoldEffect DEF Shape
    <3>2. CallStamped(s, own, marks)
      BY <1>3, <1>10, <3>1, KeepsStamp
    <3>3. CallOnly
      BY <2>4, HoldEffect
    <3> QED BY <1>3, <1>4, <3>1, <3>2, <3>3 DEF CallOnly
  <2>5. CASE ResumeRecord(w)
    BY <1>6, <2>5, ResumeRecordEffect DEF CallOnly
  <2>6. CASE InspectRecord(w)
    <3>1. CallOnly /\ Current(w) \in Record /\ ~NoProgress.created
      BY <1>11, <2>6, InspectEffect
    <3>2. ~Intent(~stored[Current(w)]).created
      BY DEF Intent, NoProgress
    <3> QED BY <1>8, <2>6, <3>1, <3>2, InspectEffect DEF CallOnly
  <2>7. CASE ReserveIntent(w)
    <3>1. ReceiptOnly /\ Current(w) \in Record /\ ~NoProgress.created
      BY <1>11, <2>7, ReserveIntentEffect
    <3>2. CASE \E s : /\ Accepted(w, "processing", SuccessfulOutcomes(wk[w].outs), wk[w].prog)
                      /\ Goes(w, s) /\ s.at = wk[w].at + 1
                      /\ Shape(s, "register", wk[w].outs, wk[w].prog,
                               wk[w].i, wk[w].reg, wk[w].err)
      BY <1>9, <1>10, <3>1, <3>2 DEF Shape
    <3>3. CASE \E s : receipt' = receipt /\ MovesWith(w, s, "fail", NoProgress)
      BY <1>8, <3>1, <3>3 DEF ReceiptOnly
    <3> QED BY <2>7, <3>2, <3>3, ReserveIntentEffect
  <2>8. CASE RegisterOwnership(w)
    <3> DEFINE r == Current(w)
    <3>1. OwnOnly /\ Works(w, "register")
      BY <2>8, RegisterEffect
    <3>2. r \in Record /\ RecordOf(wk[w]) = r /\ own[r] \in Ownership
      BY <1>1, <1>11, <3>1
    <3>3. ASSUME NEW s, own[r].state = "free", Goes(w, s),
                 own' = [own EXCEPT ![r] = [state |-> "locked", stamp |-> own[r].stamp + 1]],
                 Shape(s, "regAudit", wk[w].outs, wk[w].prog, wk[w].i,
                       [stamp |-> own[r].stamp + 1, locked |-> TRUE, created |-> TRUE],
                       wk[w].err)
          PROVE  StampInv'
      <4>1. own'[r] = [state |-> "locked", stamp |-> own[r].stamp + 1]
            /\ \A q \in Record : q # r => own'[q] = own[q]
        BY <1>1, <3>2, <3>3
      <4>2. own[r].stamp \in Nat
        BY <3>2 DEF Ownership
      <4>3. EntryGrows(own, own')
        BY <1>2, <3>3, <4>1, <4>2 DEF EntryGrows
      <4>4. Stamped(receipt'.progress, own', marks') /\ Stamped(s.prog, own', marks')
        BY <1>0, <1>1, <1>3, <1>10, <3>1, <3>3, <4>3, StampedGrows DEF OwnOnly, Shape
      <4>5. RecordOf(s) = r
        BY <3>2, <3>3 DEF Shape, RecordOf
      <4>6. CallStamped(s, own', marks')
        BY <3>3, <4>1, <4>2, <4>4, <4>5 DEF CallStamped, Shape
      <4>7. claiming' = claiming /\ \A q \in claiming : own'[q] = own[q]
        BY <3>1, <3>3, <4>1 DEF StampInv, OwnOnly, TypeOK
      <4> QED BY <1>0, <1>1, <3>3, <4>3, <4>4, <4>6, <4>7, StampFrame
    <3>4. ASSUME NEW s, own' = own, Goes(w, s),
                 Shape(s, "ownership", wk[w].outs, wk[w].prog, wk[w].i,
                       [stamp |-> own[r].stamp, locked |-> own[r].state = "locked",
                        created |-> FALSE], wk[w].err)
          PROVE  StampInv'
      <4>1. CallStamped(s, own, marks)
        BY <1>10, <3>4 DEF CallStamped, Shape
      <4> QED BY <1>3, <1>4, <3>1, <3>4, <4>1 DEF OwnOnly
    <3>5. ASSUME NEW s, own' = own, own[r].state = "foreign" \/ "guard" \in marks'[r],
                 Moves(w, s, "lockError")
          PROVE  StampInv'
      <4>1. RecordOf(s) = r /\ s.pc = "lockError" /\ s.reg = wk[w].reg /\ s.i = wk[w].i
            /\ s.prog = wk[w].prog /\ Goes(w, s)
        BY <3>2, <3>5 DEF Moves, Shape, RecordOf
      <4>2. CallStamped(wk[w], own, marks') /\ Stamped(receipt'.progress, own', marks')
        BY <1>0, <1>1, <1>2, <1>3, <3>1, <3>5, CallTyped, StampedGrows, CallStampedGrows
        DEF OwnOnly
      <4>3. CallStamped(s, own', marks')
        BY <3>5, <4>1, <4>2 DEF CallStamped, RecordOf, Later
      <4>4. EntryGrows(own, own') /\ claiming' = claiming /\ \A q \in claiming : own'[q] = own[q]
        BY <1>2, <3>1, <3>5 DEF OwnOnly
      <4> QED BY <1>0, <1>1, <3>5, <4>1, <4>2, <4>3, <4>4, StampFrame
    <3> QED BY <2>8, <3>3, <3>4, <3>5, RegisterEffect
  <2>9. CASE AuditOwnership(w)
    <3>1. CallOnly /\ Works(w, "regAudit") /\ wk[w].reg.created
      BY <1>3, <2>9, AuditEffect DEF CallStamped, Works
    <3>2. ASSUME NEW s, Moves(w, s, "rollback") PROVE StampInv'
      <4>1. CallStamped(s, own, marks) /\ Goes(w, s)
        BY <1>3, <3>1, <3>2 DEF CallStamped, Moves, Shape, RecordOf
      <4> QED BY <1>3, <1>4, <3>1, <4>1 DEF CallOnly
    <3> QED BY <1>6, <2>9, <3>1, <3>2, AuditEffect DEF CallOnly
  <2>10. CASE RollbackOwnership(w)
    <3> DEFINE r == Current(w)
    <3>1. OwnOnly /\ Works(w, "rollback")
      BY <2>10, RollbackEffect
    <3>2. /\ r \in Record /\ RecordOf(wk[w]) = r /\ wk[w].i \in DOMAIN Order
          /\ wk[w].pc = "rollback"
      BY <1>11, <3>1 DEF Works
    <3>3. own[r].stamp > 0
      BY <1>3, <3>2 DEF CallStamped
    <3>4. /\ \A q \in Record : own'[q].stamp = own[q].stamp
          /\ \A q \in Record : own[q].state # "locked" => own'[q] = own[q]
      BY <1>1, <2>10, <3>2, RollbackEffect DEF Deleted, Deletable, Ownership
    <3>5. EntryGrows(own, own')
      BY <1>2, <3>4 DEF EntryGrows
    <3>6. PICK s : /\ Goes(w, s)
                   /\ Shape(s, "lockError", wk[w].outs, wk[w].prog, wk[w].i,
                            NoRegistration, wk[w].err)
      BY <2>10, RollbackEffect
    <3>7. Stamped(receipt'.progress, own', marks') /\ Stamped(s.prog, own', marks')
      BY <1>0, <1>1, <1>3, <1>10, <3>1, <3>5, <3>6, StampedGrows DEF OwnOnly, Shape
    <3>8. RecordOf(s) = r
      BY <3>2, <3>6 DEF Shape, RecordOf
    <3>9. CallStamped(s, own', marks')
      BY <3>2, <3>3, <3>4, <3>6, <3>7, <3>8 DEF CallStamped, Shape, NoRegistration, Later
    <3>10. claiming' = claiming /\ \A q \in claiming : own'[q] = own[q]
      BY <3>1, <3>4 DEF StampInv, OwnOnly, TypeOK
    <3> QED BY <1>0, <1>1, <3>5, <3>6, <3>7, <3>9, <3>10, StampFrame
  <2>11. CASE ReconcileOwnership(w)
    <3>1. CallOnly /\ Works(w, "lockError") /\ Current(w) \in Record
      BY <1>11, <2>11, ReconcileEffect
    <3>2. own[Current(w)].state = "locked" => Later(Current(w), own, marks)
      BY <1>3, <1>11, <3>1 DEF CallStamped, Works
    <3>3. Reconciled(w).created => Later(Current(w), own, marks)
      BY <1>11, <3>1, <3>2 DEF Reconciled, Works, Progress
    <3> QED BY <1>8, <1>11, <2>11, <3>1, <3>3, ReconcileEffect DEF CallOnly
  <2>12. CASE CheckpointOwnership(w)
    <3> DEFINE g == WithOwnership(Prog(w), wk[w].reg)
               prog == [wk[w].prog EXCEPT ![Current(w)] = g]
    <3>1. ReceiptOnly /\ Works(w, "ownership") /\ Current(w) \in Record
          /\ wk[w].prog \in [Record -> Progress]
      BY <1>11, <2>12, CheckpointOwnershipEffect
    <3>2. g.created => Later(Current(w), own, marks)
      BY <1>3, <1>11, <3>1 DEF CallStamped, Works, WithOwnership, Progress, Later
    <3>3. \/ \E s : receipt' = receipt /\ Moves(w, s, "calling")
          \/ \E s : /\ Accepted(w, "processing", SuccessfulOutcomes(wk[w].outs), prog)
                    /\ Goes(w, s)
                    /\ Shape(s, "calling", wk[w].outs, prog, wk[w].i, wk[w].reg, wk[w].err)
          \/ \E s : receipt' = receipt /\ MovesWith(w, s, "cleanup", g)
      BY <2>12, CheckpointOwnershipEffect
    <3> HIDE DEF g
    <3>4. Stamped(prog, own, marks)
      BY <1>10, <3>1, <3>2, StampedWith
    <3>5. CASE \E s : receipt' = receipt /\ Moves(w, s, "calling")
      BY <1>6, <3>1, <3>5 DEF ReceiptOnly
    <3>6. CASE \E s : receipt' = receipt /\ MovesWith(w, s, "cleanup", g)
      BY <1>8, <3>1, <3>2, <3>6 DEF ReceiptOnly
    <3> HIDE DEF prog
    <3>7. CASE \E s : /\ Accepted(w, "processing", SuccessfulOutcomes(wk[w].outs), prog)
                      /\ Goes(w, s)
                      /\ Shape(s, "calling", wk[w].outs, prog, wk[w].i, wk[w].reg, wk[w].err)
      BY <1>9, <3>1, <3>4, <3>7 DEF Shape
    <3> QED BY <3>3, <3>5, <3>6, <3>7
  <2>13. CASE CleanupOwnership(w)
    <3>1. /\ OwnOnly /\ Works(w, "cleanup") /\ Current(w) \in Record /\ ~NoProgress.created
          /\ Prog(w).created => Later(Current(w), own, marks)
      BY <1>11, <2>13, CleanupEffect
    <3>2. \/ \E s : \E step \in {"hold", "fail"} :
                 Deleted(Current(w), wk[w].reg) /\ MovesWith(w, s, step, NoProgress)
          \/ \E s : \E step \in {"hold", "fail"} : own' = own /\ MovesWith(w, s, step, NoProgress)
          \/ \E s : own' = own /\ MovesWith(w, s, "fail", Prog(w))
      BY <2>13, CleanupEffect
    <3>3. NoProgress.created => Later(Current(w), own, marks)
      BY <3>1
    <3>4. ASSUME NEW s, NEW step \in {"hold", "fail"}, own' = own, MovesWith(w, s, step, NoProgress)
          PROVE  StampInv'
      <4>1. claiming' = claiming /\ receipt' = receipt /\ step \notin {"regAudit", "rollback", "lockError"}
        BY <3>1, <3>4 DEF OwnOnly
      <4> QED BY <1>8, <3>1, <3>3, <3>4, <4>1
    <3>5. ASSUME NEW s, own' = own, MovesWith(w, s, "fail", Prog(w)) PROVE StampInv'
      <4>1. claiming' = claiming /\ receipt' = receipt
        BY <3>1 DEF OwnOnly
      <4> QED BY <1>8, <3>1, <3>5, <4>1
    <3>6. ASSUME NEW s, NEW step \in {"hold", "fail"}, Deleted(Current(w), wk[w].reg),
                 MovesWith(w, s, step, NoProgress)
          PROVE  StampInv'
      <4>1. Works(w, "cleanup") \/ Works(w, "compensate")
        BY <3>1
      <4>2. OwnOnly /\ step \notin {"regAudit", "rollback", "lockError"}
        BY <3>1, <3>6
      <4> QED BY <1>18, <3>6, <4>1, <4>2
    <3> QED BY <3>2, <3>4, <3>5, <3>6
  <2>14. CASE ProviderCommits(w) \/ ProviderRefuses(w) \/ ProviderFails(w) \/ LeaseLost(w)
    <3>1. ProviderOnly
      BY <2>14, ProviderEffect
    <3>2. \/ \E s : Moves(w, s, "commit")
          \/ \E s : \E e : \E step \in {"verify", "commit"} : MovesErr(w, s, step, e)
      BY <2>14, ProviderEffect
    <3>3. ASSUME NEW s, NEW e, NEW step \in {"verify", "commit"}, MovesErr(w, s, step, e)
          PROVE  StampInv'
      BY <1>7, <3>1, <3>3 DEF ProviderOnly
    <3> QED BY <1>6, <3>1, <3>2, <3>3 DEF ProviderOnly
  <2>15. CASE VerifyCommit(w)
    <3>1. CallOnly /\ Works(w, "verify")
      BY <2>15, VerifyEffect
    <3> QED BY <1>5, <1>6, <1>8, <1>11, <2>15, <3>1, VerifyEffect DEF CallOnly
  <2>16. CASE CheckpointCommitted(w)
    <3> DEFINE prog == [wk[w].prog EXCEPT ![Current(w)] = CommitProgress(w)]
    <3>1. ReceiptOnly /\ Works(w, "commit")
      BY <2>16, CommitEffect
    <3>2. CommitProgress(w).created => Later(Current(w), own, marks)
      BY <1>11, <3>1 DEF CommitProgress, Works, Progress
    <3>3. Stamped(prog, own, marks)
      BY <1>10, <1>11, <3>1, <3>2, StampedWith
    <3>4. \E s, outs, step :
             /\ Goes(w, s) /\ step \in {"clear", "fail"}
             /\ Shape(s, step, outs, prog, wk[w].i, wk[w].reg, wk[w].err)
             /\ Accepted(w, "processing", SuccessfulOutcomes(outs), prog) \/ receipt' = receipt
      BY <2>16, CommitEffect
    <3> HIDE DEF prog
    <3>5. PICK s, outs, step :
             /\ Goes(w, s) /\ step \in {"clear", "fail"}
             /\ Shape(s, step, outs, prog, wk[w].i, wk[w].reg, wk[w].err)
             /\ Accepted(w, "processing", SuccessfulOutcomes(outs), prog) \/ receipt' = receipt
      BY <3>4
    <3>6. CallStamped(s, own, marks)
      BY <1>3, <3>3, <3>5, KeepsStamp DEF Shape
    <3>7. Stamped(receipt'.progress, own, marks)
      BY <1>3, <3>3, <3>5 DEF Accepted
    <3> QED BY <1>4, <3>1, <3>5, <3>6, <3>7 DEF ReceiptOnly
  <2>17. CASE ClearIntent(w)
    <3> DEFINE prog == [wk[w].prog EXCEPT ![Current(w)] = NoProgress]
    <3>1. ReceiptOnly /\ Works(w, "clear")
      BY <2>17, ClearEffect
    <3>2. Stamped(prog, own, marks)
      BY <1>10, <1>11, <3>1, StampedWith
    <3>3. \/ \E s : /\ Accepted(w, "processing", SuccessfulOutcomes(wk[w].outs), prog)
                    /\ Goes(w, s)
                    /\ Shape(s, "record", wk[w].outs, prog, wk[w].i + 1, NoRegistration, "none")
          \/ \E s : receipt' = receipt /\ Moves(w, s, "fail")
      BY <2>17, ClearEffect
    <3> HIDE DEF prog
    <3>4. CASE \E s : /\ Accepted(w, "processing", SuccessfulOutcomes(wk[w].outs), prog)
                      /\ Goes(w, s)
                      /\ Shape(s, "record", wk[w].outs, prog, wk[w].i + 1, NoRegistration, "none")
      BY <1>9, <3>1, <3>2, <3>4 DEF Shape
    <3> QED BY <1>6, <3>1, <3>3, <3>4 DEF ReceiptOnly
  <2>18. CASE Compensate(w)
    <3>1. /\ OwnOnly /\ Works(w, "compensate") /\ Current(w) \in Record /\ ~NoProgress.created
          /\ Prog(w).created => Later(Current(w), own, marks)
      BY <1>11, <2>18, CompensateEffect
    <3>2. \/ \E s : \E step \in {"hold", "fail"} :
                 Deleted(Current(w), wk[w].reg) /\ MovesWith(w, s, step, NoProgress)
          \/ \E s : \E step \in {"hold", "fail"} : own' = own /\ MovesWith(w, s, step, NoProgress)
          \/ \E s : own' = own /\ MovesWith(w, s, "fail", Prog(w))
      BY <2>18, CompensateEffect
    <3>3. NoProgress.created => Later(Current(w), own, marks)
      BY <3>1
    <3>4. ASSUME NEW s, NEW step \in {"hold", "fail"}, own' = own, MovesWith(w, s, step, NoProgress)
          PROVE  StampInv'
      <4>1. claiming' = claiming /\ receipt' = receipt /\ step \notin {"regAudit", "rollback", "lockError"}
        BY <3>1, <3>4 DEF OwnOnly
      <4> QED BY <1>8, <3>1, <3>3, <3>4, <4>1
    <3>5. ASSUME NEW s, own' = own, MovesWith(w, s, "fail", Prog(w)) PROVE StampInv'
      <4>1. claiming' = claiming /\ receipt' = receipt
        BY <3>1 DEF OwnOnly
      <4> QED BY <1>8, <3>1, <3>5, <4>1
    <3>6. ASSUME NEW s, NEW step \in {"hold", "fail"}, Deleted(Current(w), wk[w].reg),
                 MovesWith(w, s, step, NoProgress)
          PROVE  StampInv'
      <4>1. Works(w, "cleanup") \/ Works(w, "compensate")
        BY <3>1
      <4>2. OwnOnly /\ step \notin {"regAudit", "rollback", "lockError"}
        BY <3>1, <3>6
      <4> QED BY <1>18, <3>6, <4>1, <4>2
    <3> QED BY <3>2, <3>4, <3>5, <3>6
  <2>19. CASE CheckpointHolding(w)
    <3>1. ReceiptOnly
      BY <2>19, HoldingEffect
    <3>2. CASE \E s : /\ Accepted(w, "processing", SuccessfulOutcomes(wk[w].outs), wk[w].prog)
                      /\ Goes(w, s)
                      /\ s.pc = "record" /\ s.prog = wk[w].prog /\ s.reg = NoRegistration
      BY <1>9, <1>10, <3>1, <3>2
    <3>3. CASE \E s : receipt' = receipt /\ Moves(w, s, "fail")
      BY <1>6, <3>1, <3>3 DEF ReceiptOnly
    <3> QED BY <2>19, <3>2, <3>3, HoldingEffect DEF Shape
  <2>20. CASE Complete(w) \/ FailImport(w)
    <3>1. ReceiptOnly
      BY <2>20, TerminalEffect
    <3>2. CASE \E status, outs : \E s :
                  /\ Accepted(w, status, outs, wk[w].prog) /\ Goes(w, s)
                  /\ s.pc = "report" /\ s.prog = wk[w].prog /\ s.i = wk[w].i /\ s.reg = wk[w].reg
      BY <1>9, <1>10, <3>1, <3>2
    <3>3. CASE receipt' = receipt /\ Goes(w, IdleCall)
      BY <1>5, <3>1, <3>3 DEF ReceiptOnly
    <3> QED BY <2>20, <3>2, <3>3, TerminalEffect DEF Shape
  <2>21. CASE Report(w)
    BY <1>14, <2>21
  <2> QED BY <1>16, <2>1, <2>2, <2>3, <2>4, <2>5, <2>6, <2>7, <2>8, <2>9, <2>10, <2>11,
             <2>12, <2>13, <2>14, <2>15, <2>16, <2>17, <2>18, <2>19, <2>20, <2>21 DEF Work
<1>17. CASE UNCHANGED vars
  BY <1>17 DEF vars, StampInv
<1> QED BY <1>12, <1>13, <1>14, <1>15, <1>16, <1>17 DEF Next

(* Every reachable state satisfies it, whatever fails: a lock that was     *)
(* there before is taken for this package's own only where Guard failed on *)
(* its registration and the entry was then read as the answer.             *)
THEOREM StampInvariant == Spec => []StampInv
BY StampInit, StampStep, TypeCorrect, PTL DEF Spec

(* Which steps change an entry of Guard. *)
LEMMA OwnSteps ==
    ASSUME [Next]_vars
    PROVE  \/ own' = own
           \/ \E w \in Worker : \/ RegisterOwnership(w) \/ RollbackOwnership(w)
                                \/ CleanupOwnership(w) \/ Compensate(w)
           \/ \E r \in Record : ClaimOwnership(r) \/ AuditClaim(r)
<1>1. ASSUME NEW w \in Worker, Start(w) \/ Heartbeat(w) \/ Crash(w) PROVE own' = own
  BY <1>1 DEF Start, Reserve, Replay, ReadReceipt, Heartbeat, Crash
<1>2. ASSUME NEW w \in Worker, Work(w)
      PROVE  own' = own \/ \/ RegisterOwnership(w) \/ RollbackOwnership(w)
                           \/ CleanupOwnership(w) \/ Compensate(w)
  <2>1. CASE \/ Resume(w) \/ Preflight(w) \/ SkipRecord(w) \/ HoldRecord(w)
             \/ ResumeRecord(w) \/ InspectRecord(w) \/ ReserveIntent(w)
             \/ AuditOwnership(w) \/ ReconcileOwnership(w) \/ CheckpointOwnership(w)
    BY <2>1 DEF Resume, Preflight, SkipRecord, HoldRecord, ResumeRecord, InspectRecord,
        ReserveIntent, AuditOwnership, ReconcileOwnership, CheckpointOwnership
  <2>2. CASE \/ ProviderCommits(w) \/ ProviderRefuses(w) \/ ProviderFails(w)
             \/ LeaseLost(w) \/ VerifyCommit(w) \/ CheckpointCommitted(w)
             \/ ClearIntent(w) \/ CheckpointHolding(w) \/ Complete(w)
             \/ FailImport(w) \/ Report(w)
    BY <2>2 DEF ProviderCommits, ProviderRefuses, ProviderFails, LeaseLost, VerifyCommit,
        CheckpointCommitted, ClearIntent, CheckpointHolding, Complete, FailImport, Report
  <2> QED BY <1>2, <2>1, <2>2 DEF Work
<1>3. ASSUME LeaseExpires \/ \E r \in Record : ResolveDependency(r) \/ LoseDependency(r)
      PROVE  own' = own
  BY <1>3 DEF LeaseExpires, ResolveDependency, LoseDependency
<1> QED BY <1>1, <1>2, <1>3 DEF Next, vars

(* A lock that existed before the package is never deleted: what rollback, *)
(* cleanup and compensation delete carries a later stamp, unless Guard     *)
(* failed on that very lock.                                               *)
THEOREM ExistingLocksAreKept == Spec => ExistingLockIsKept
<1> DEFINE Kept == \A r \in Record : 
              own[r].stamp = 0 /\ own[r].state # "free" /\ "guard" \notin marks[r] =>
                  own'[r].state # "free"
<1>1. ASSUME TypeOK, StampInv, [Next]_vars PROVE [Kept]_own
  <2>1. own \in [Record -> Ownership]
    BY <1>1 DEF TypeOK
  <2>2. ASSUME NEW w \in Worker, Current(w) \in Record, Deleted(Current(w), wk[w].reg),
               Later(Current(w), own, marks)
        PROVE  Kept
    BY <2>1, <2>2 DEF Deleted, Ownership, Later
  <2>3. ASSUME NEW w \in Worker, NEW step, Works(w, step)
        PROVE  /\ Current(w) \in Record
               /\ wk[w].reg.created => Later(Current(w), own, marks)
               /\ Prog(w).created => Later(Current(w), own, marks)
               /\ wk[w].pc = "rollback" => wk[w].reg.created
               /\ wk[w].pc = step
    BY <1>1, <2>3 DEF StampInv, CallStamped, Stamped, Works, Prog, RecordOf, Current, Later
  <2>4. ASSUME NEW w \in Worker, RegisterOwnership(w) PROVE Kept
    <3>1. Current(w) \in Record
      BY <1>1, <2>3, <2>4, RegisterEffect
    <3> QED BY <1>1, <2>1, <2>4, <3>1, RegisterEffect DEF Ownership
  <2>5. ASSUME NEW w \in Worker, RollbackOwnership(w) PROVE Kept
    <3>1. Current(w) \in Record /\ Later(Current(w), own, marks)
      BY <1>1, <2>3, <2>5, RollbackEffect
    <3> QED BY <1>1, <2>2, <2>5, <3>1, RollbackEffect
  <2>6. ASSUME NEW w \in Worker, CleanupOwnership(w) PROVE Kept
    <3>1. Current(w) \in Record /\ (wk[w].reg.created => Later(Current(w), own, marks))
      BY <1>1, <2>3, <2>6, CleanupEffect
    <3> QED BY <1>1, <2>2, <2>6, <3>1, CleanupEffect
  <2>7. ASSUME NEW w \in Worker, Compensate(w) PROVE Kept
    <3>1. Current(w) \in Record /\ (Prog(w).created => Later(Current(w), own, marks))
      BY <1>1, <2>3, <2>7, CompensateEffect
    <3> QED BY <1>1, <2>2, <2>7, <3>1, CompensateEffect
  <2>8. ASSUME NEW r \in Record, ClaimOwnership(r) \/ AuditClaim(r) PROVE Kept
    BY <2>1, <2>8 DEF ClaimOwnership, AuditClaim, Ownership
  <2> QED BY <1>1, <2>4, <2>5, <2>6, <2>7, <2>8, OwnSteps
<1> QED BY <1>1, StampInvariant, TypeCorrect, PTL DEF Spec, ExistingLockIsKept

--------------------------------------------------------------------------------
(* One call at a time: what the receipt says of a record is what the        *)
(* package did to it.                                                       *)

(* Guard holds a lock, or a claim, on this entry. *)
Held(e) == e.state \in {"locked", "claimed"}

(* What outcome o and recovery state g of one record tell of it, where e is *)
(* Guard's entry, wr says that the package wrote the record and au that the *)
(* provider's audit of it is delivered.                                     *)
Told(o, g, e, wr, au) ==
    /\ o.locked => Successful(o)
    /\ o.status \in {"unchanged", "holding"} => ~wr
    /\ g.phase = "intent" => ~Successful(o)
    /\ g.phase = "committed" => o.status = IF g.expected THEN "created" ELSE "unchanged"
    /\ wr => o.status = "created" \/ (g.phase = "intent" /\ g.expected /\ g.ready)
    /\ wr \/ Successful(o) =>
          /\ Held(e)
          /\ g.phase # "none" => g.ready /\ (g.locked <=> e.state = "locked")
    /\ o.status = "created" /\ g.phase = "none" => au

Accounted(outs, prog, ow, wr, au) ==
    \A r \in Record : Told(outs[r], prog[r], ow[r], wr[r], au[r])

(* The package has not written the record of call state s and says so. *)
Untouched(s, p, wr) ==
    ~wr[RecordOf(s)] /\ ~Successful(s.outs[RecordOf(s)]) /\ ~Successful(p.outcome[RecordOf(s)])

(* The steps at which a call works on a record it has an intent for. *)
IntentSteps == {"intent", "register", "regAudit", "rollback", "lockError", "ownership",
                "cleanup", "calling", "verify", "commit", "compensate"}

(* The steps at which the call knows all the recovery state of the receipt. *)
SyncedSteps == {"resume", "preflight", "record", "register", "regAudit", "rollback",
                "lockError", "ownership", "calling"}

(* What a call in state s knows of its package: p is the receipt, ow, st,   *)
(* wr and au are Guard's entries and the providers' records.                *)
CallTold(s, p, ow, st, wr, au) ==
    LET r == RecordOf(s)
    IN  /\ Running(s) =>
              /\ p.status = "processing"
              /\ Accounted(s.outs, s.prog, ow, wr, au)
              /\ \A j \in DOMAIN Order : s.outs[Order[j]].status = "holding" => j < s.i
              /\ \A q \in Record : Successful(p.outcome[q]) => Successful(s.outs[q])
        /\ s.pc = "resume" => s.outs = p.outcome
        /\ s.pc \in SyncedSteps => s.prog = p.progress
        /\ s.pc \in IntentSteps => s.prog[r].phase # "none"
        /\ s.pc \in {"intent", "regAudit", "rollback", "cleanup", "hold"} => Untouched(s, p, wr)
        /\ s.pc = "regAudit" => s.reg.locked /\ ow[r].state = "locked"
        /\ s.pc = "ownership" =>
              /\ s.reg.created => Untouched(s, p, wr)
              /\ Held(ow[r]) /\ (s.reg.locked <=> ow[r].state = "locked")
        /\ s.pc \in {"calling", "verify", "commit", "compensate"} =>
              /\ s.prog[r].ready /\ Held(ow[r])
              /\ s.prog[r].locked <=> ow[r].state = "locked"
        /\ s.pc = "verify" => s.err # "none"
        /\ s.pc = "compensate" => ~st[r]
        /\ s.pc = "commit" => st[r] /\ (s.err = "none" => au[r])
        /\ s.pc = "clear" => au[r] /\ Successful(s.outs[r])

(* The receipt itself. *)
ReceiptTold(p, ow, wr, au) ==
    /\ ValidReceipt(p)
    /\ p.status = "absent" => p = AbsentReceipt
    /\ Accounted(p.outcome, p.progress, ow, wr, au)

AccountInv ==
    /\ claiming = {}
    /\ \A r \in Record : wrote[r] => stored[r]
    /\ ReceiptTold(receipt, own, wrote, provAudited)
    /\ \A w \in Worker : CallTold(wk[w], receipt, own, stored, wrote, provAudited)

(* Dropping the outcomes that are evaluated again keeps the account. *)
LEMMA SuccessfulAccounted ==
    ASSUME NEW outs \in [Record -> Outcome], NEW prog \in [Record -> Progress],
           NEW ow, NEW wr, NEW au, Accounted(outs, prog, ow, wr, au)
    PROVE  Accounted(SuccessfulOutcomes(outs), prog, ow, wr, au)
<1> SUFFICES ASSUME NEW r \in Record
             PROVE  Told(SuccessfulOutcomes(outs)[r], prog[r], ow[r], wr[r], au[r])
  BY DEF Accounted
<1>1. Told(outs[r], prog[r], ow[r], wr[r], au[r])
  BY DEF Accounted
<1>2. CASE Successful(outs[r])
  BY <1>1, <1>2 DEF SuccessfulOutcomes
<1>3. CASE ~Successful(outs[r])
  <2>1. SuccessfulOutcomes(outs)[r] = NoOutcome
    BY <1>3 DEF SuccessfulOutcomes
  <2>2. Told(NoOutcome, prog[r], ow[r], wr[r], au[r])
    BY <1>1, <1>3 DEF Told, NoOutcome, Successful, Progress
  <2> QED BY <2>1, <2>2
<1> QED BY <1>2, <1>3

(* One record's entries are replaced. *)
LEMMA AccountedWith ==
    ASSUME NEW outs \in [Record -> Outcome], NEW prog \in [Record -> Progress],
           NEW ow, NEW wr, NEW au, Accounted(outs, prog, ow, wr, au),
           NEW r \in Record, NEW o, NEW g, Told(o, g, ow[r], wr[r], au[r])
    PROVE  Accounted([outs EXCEPT ![r] = o], [prog EXCEPT ![r] = g], ow, wr, au)
<1> SUFFICES ASSUME NEW q \in Record
             PROVE  Told([outs EXCEPT ![r] = o][q], [prog EXCEPT ![r] = g][q], ow[q], wr[q], au[q])
  BY DEF Accounted
<1>1. CASE q = r
  <2>1. [outs EXCEPT ![r] = o][q] = o /\ [prog EXCEPT ![r] = g][q] = g
    BY <1>1
  <2> QED BY <1>1, <2>1
<1>2. CASE q # r
  <2>1. [outs EXCEPT ![r] = o][q] = outs[q] /\ [prog EXCEPT ![r] = g][q] = prog[q]
    BY <1>2
  <2> QED BY <2>1 DEF Accounted
<1> QED BY <1>1, <1>2

LEMMA AccountedProgress ==
    ASSUME NEW outs \in [Record -> Outcome], NEW prog \in [Record -> Progress],
           NEW ow, NEW wr, NEW au, Accounted(outs, prog, ow, wr, au),
           NEW r \in Record, NEW g, Told(outs[r], g, ow[r], wr[r], au[r])
    PROVE  Accounted(outs, [prog EXCEPT ![r] = g], ow, wr, au)
<1>1. [outs EXCEPT ![r] = outs[r]] = outs
  OBVIOUS
<1>2. Accounted([outs EXCEPT ![r] = outs[r]], [prog EXCEPT ![r] = g], ow, wr, au)
  BY AccountedWith
<1> QED BY <1>1, <1>2

LEMMA AccountedOutcome ==
    ASSUME NEW outs \in [Record -> Outcome], NEW prog \in [Record -> Progress],
           NEW ow, NEW wr, NEW au, Accounted(outs, prog, ow, wr, au),
           NEW r \in Record, NEW o, Told(o, prog[r], ow[r], wr[r], au[r])
    PROVE  Accounted([outs EXCEPT ![r] = o], prog, ow, wr, au)
<1>1. [prog EXCEPT ![r] = prog[r]] = prog
  OBVIOUS
<1>2. Accounted([outs EXCEPT ![r] = o], [prog EXCEPT ![r] = prog[r]], ow, wr, au)
  BY AccountedWith
<1> QED BY <1>1, <1>2

(* Guard's entry of a record changes that the package did not write. *)
LEMMA AccountedOwn ==
    ASSUME NEW outs, NEW prog, NEW ow, NEW new, NEW wr, NEW au,
           Accounted(outs, prog, ow, wr, au), NEW r \in Record,
           \A q \in Record : q # r => new[q] = ow[q], ~wr[r], ~Successful(outs[r])
    PROVE  Accounted(outs, prog, new, wr, au)
<1> SUFFICES ASSUME NEW q \in Record PROVE Told(outs[q], prog[q], new[q], wr[q], au[q])
  BY DEF Accounted
<1>1. Told(outs[q], prog[q], ow[q], wr[q], au[q])
  BY DEF Accounted
<1>2. CASE q = r
  BY <1>1, <1>2 DEF Told, Held
<1>3. CASE q # r
  BY <1>1, <1>3
<1> QED BY <1>2, <1>3

(* The provider writes a record, or finds it there. *)
LEMMA AccountedWrite ==
    ASSUME NEW outs, NEW prog, NEW ow, NEW wr, NEW au, NEW wr2, NEW au2,
           Accounted(outs, prog, ow, wr, au), NEW r \in Record,
           \A q \in Record : q # r => wr2[q] = wr[q] /\ au2[q] = au[q],
           Told(outs[r], prog[r], ow[r], wr2[r], au2[r])
    PROVE  Accounted(outs, prog, ow, wr2, au2)
BY DEF Accounted

(* No record that the package did not write can be told otherwise. *)
LEMMA UntoldUntouched ==
    ASSUME NEW o \in Outcome, NEW g \in Progress, NEW e, NEW wr, NEW au,
           Told(o, g, e, wr, au), ~Successful(o), g.phase = "none"
    PROVE  ~wr
BY DEF Told, Successful

LEMMA ToldNothing ==
    ASSUME NEW o \in Outcome, NEW g \in Progress, NEW e, NEW wr \in BOOLEAN, NEW au,
           ~wr, ~Successful(o), ~o.locked, g.phase # "committed"
    PROVE  Told(o, g, e, wr, au)
BY DEF Told, Successful, Outcome

LEMMA AccountInit == Init => AccountInv
<1> SUFFICES ASSUME Init PROVE AccountInv
  OBVIOUS
<1>1. /\ claiming = {} /\ receipt = AbsentReceipt
      /\ wrote = [r \in Record |-> FALSE] /\ \A w \in Worker : wk[w] = IdleCall
  BY DEF Init
<1>2. \A r \in Record : Told(NoOutcome, NoProgress, own[r], FALSE, provAudited[r])
  BY DEF Told, NoOutcome, NoProgress, Successful
<1>3. Accounted(AbsentReceipt.outcome, AbsentReceipt.progress, own, wrote, provAudited)
  BY <1>1, <1>2 DEF Accounted, AbsentReceipt
<1>4. ValidReceipt(AbsentReceipt)
  BY DEF ValidReceipt, AbsentReceipt, ValidProgress, NoOutcome, NoProgress
<1>5. CallTold(IdleCall, receipt, own, stored, wrote, provAudited)
  BY DEF CallTold, IdleCall, Running, SyncedSteps, IntentSteps
<1> QED BY <1>1, <1>3, <1>4, <1>5 DEF AccountInv, ReceiptTold

(* With one call, a step is judged by the call state it ends in. *)
LEMMA AccountFrame ==
    ASSUME \A v, w \in Worker : v = w, TypeOK, NEW w \in Worker, NEW s, Goes(w, s),
           claiming' = {}, \A r \in Record : wrote'[r] => stored'[r],
           ReceiptTold(receipt', own', wrote', provAudited'),
           CallTold(s, receipt', own', stored', wrote', provAudited')
    PROVE  AccountInv'
<1>1. \A v \in Worker : wk'[v] = s
  BY DEF Goes, TypeOK
<1> QED BY <1>1 DEF AccountInv

(* Every step keeps the account, as long as one call runs at a time and no *)
(* administrator claims a record meanwhile.                                *)
LEMMA AccountStep ==
    ASSUME \A v, w \in Worker : v = w, "claim" \notin Faults,
           TypeOK, TypeOK', SafetyInv, AccountInv, [Next]_vars
    PROVE  AccountInv'
<1> DEFINE Tells(s) == CallTold(s, receipt, own, stored, wrote, provAudited)
           Counts(outs, prog) == Accounted(outs, prog, own, wrote, provAudited)
           Tell(o, g, r) == Told(o, g, own[r], wrote[r], provAudited[r])
<1>1. /\ receipt \in Receipt /\ own \in [Record -> Ownership]
      /\ stored \in [Record -> BOOLEAN] /\ wrote \in [Record -> BOOLEAN]
      /\ provAudited \in [Record -> BOOLEAN]
      /\ receipt.outcome \in [Record -> Outcome] /\ receipt.progress \in [Record -> Progress]
  BY DEF TypeOK, Receipt
<1>2. /\ claiming = {} /\ \A r \in Record : wrote[r] => stored[r]
      /\ ReceiptTold(receipt, own, wrote, provAudited)
      /\ ValidReceipt(receipt) /\ Counts(receipt.outcome, receipt.progress)
  BY DEF AccountInv, ReceiptTold
<1>3. \A w \in Worker : Tells(wk[w])
  BY DEF AccountInv
\* a step that leaves the receipt, Guard and the providers alone
<1>4. ASSUME NEW w \in Worker, NEW s, Goes(w, s), ReceiptOnly, receipt' = receipt, Tells(s)
      PROVE  AccountInv'
  <2>1. /\ claiming' = {} /\ \A r \in Record : wrote'[r] => stored'[r]
        /\ ReceiptTold(receipt', own', wrote', provAudited')
    BY <1>2, <1>4 DEF ReceiptOnly
  <2>2. CallTold(s, receipt', own', stored', wrote', provAudited')
    BY <1>4 DEF ReceiptOnly
  <2> QED BY <1>4, <2>1, <2>2, AccountFrame
<1>5. ASSUME NEW w \in Worker, Goes(w, IdleCall), ReceiptOnly, receipt' = receipt
      PROVE  AccountInv'
  <2>1. Tells(IdleCall)
    BY DEF CallTold, IdleCall, Running, SyncedSteps, IntentSteps
  <2> QED BY <1>4, <1>5, <2>1
\* a receipt that the store accepted
<1>6. ASSUME NEW w \in Worker, NEW s, Goes(w, s), ReceiptOnly, NEW status, NEW outs, NEW prog,
             status \in {"processing", "completed", "holding", "failed"},
             Accepted(w, status, outs, prog), Counts(outs, prog),
             CallTold(s, receipt', own, stored, wrote, provAudited)
      PROVE  AccountInv'
  <2>1. ValidReceipt(receipt') /\ receipt'.status # "absent"
    BY <1>6 DEF Accepted, ValidTransition
  <2>2. Accounted(receipt'.outcome, receipt'.progress, own, wrote, provAudited)
    BY <1>6 DEF Accepted
  <2>3. /\ claiming' = {} /\ \A r \in Record : wrote'[r] => stored'[r]
        /\ ReceiptTold(receipt', own', wrote', provAudited')
    BY <1>2, <1>6, <2>1, <2>2 DEF ReceiptOnly, ReceiptTold
  <2>4. CallTold(s, receipt', own', stored', wrote', provAudited')
    BY <1>6 DEF ReceiptOnly
  <2> QED BY <1>6, <2>3, <2>4, AccountFrame
\* what a working call knows
<1>7. ASSUME NEW w \in Worker, NEW step, Works(w, step)
      PROVE  /\ wk[w] \in CallState /\ wk[w].pc = step /\ Tells(wk[w])
             /\ RecordOf(wk[w]) = Current(w) /\ Current(w) \in Record
             /\ wk[w].i \in DOMAIN Order
             /\ wk[w].outs \in [Record -> Outcome] /\ wk[w].prog \in [Record -> Progress]
             /\ wk[w].outs[Current(w)] \in Outcome /\ Prog(w) \in Progress
             /\ Prog(w) = wk[w].prog[Current(w)]
  <2>1. wk[w] \in CallState /\ wk[w].pc = step /\ wk[w].i \in DOMAIN Order /\ Current(w) \in Record
    BY <1>7 DEF Works
  <2>2. wk[w].outs \in [Record -> Outcome] /\ wk[w].prog \in [Record -> Progress]
    BY <2>1 DEF CallState
  <2> QED BY <1>3, <2>1, <2>2 DEF RecordOf, Current, Prog
<1>8. ASSUME NEW w \in Worker, Running(wk[w])
      PROVE  /\ receipt.status = "processing"
             /\ Counts(wk[w].outs, wk[w].prog)
             /\ \A r \in Record : Tell(wk[w].outs[r], wk[w].prog[r], r)
             /\ \A j \in DOMAIN Order : wk[w].outs[Order[j]].status = "holding" => j < wk[w].i
             /\ \A q \in Record : Successful(receipt.outcome[q]) => Successful(wk[w].outs[q])
  BY <1>3, <1>8 DEF CallTold, Accounted
\* a call that fails, with a recovery state for its record that tells the truth
<1>9. ASSUME NEW w \in Worker, NEW s, NEW step, Works(w, step), Running(wk[w]), ReceiptOnly,
             receipt' = receipt, NEW g, MovesWith(w, s, "fail", g),
             Tell(wk[w].outs[Current(w)], g, Current(w))
      PROVE  AccountInv'
  <2> DEFINE prog == [wk[w].prog EXCEPT ![Current(w)] = g]
  <2>1. Counts(wk[w].outs, prog)
    BY <1>7, <1>8, <1>9, AccountedProgress
  <2>2. Goes(w, s) /\ s.pc = "fail" /\ s.outs = wk[w].outs /\ s.prog = prog /\ s.i = wk[w].i
    BY <1>9 DEF MovesWith, Shape
  <2> HIDE DEF prog
  <2>3. Tells(s)
    BY <1>8, <1>9, <2>1, <2>2 DEF CallTold, SyncedSteps, IntentSteps
  <2> QED BY <1>4, <1>9, <2>2, <2>3
<1>10. ASSUME NEW w \in Worker, NEW s, Running(wk[w]), ReceiptOnly,
              receipt' = receipt, Moves(w, s, "fail")
       PROVE  AccountInv'
  <2>1. Goes(w, s) /\ s.pc = "fail" /\ s.outs = wk[w].outs /\ s.prog = wk[w].prog /\ s.i = wk[w].i
    BY <1>10 DEF Moves, Shape
  <2>2. Tells(s)
    BY <1>8, <1>10, <2>1 DEF CallTold, SyncedSteps, IntentSteps
  <2> QED BY <1>4, <1>10, <2>1, <2>2
\* entering the import
<1>11. ASSUME NEW w \in Worker, Start(w) PROVE AccountInv'
  <2>1. CASE Reserve(w)
    <3>1. ReceiptOnly /\ receipt = AbsentReceipt
          /\ receipt' = [receipt EXCEPT !.status = "processing", !.at = 1]
      BY <1>2, <2>1, ReserveEffect DEF ReceiptTold
    <3>2. PICK s : Goes(w, s) /\ s.pc = "preflight" /\ s.outs = [r \in Record |-> NoOutcome]
                   /\ s.prog = [r \in Record |-> NoProgress]
      BY <2>1, ReserveEffect DEF Shape
    <3>3. /\ receipt'.status = "processing"
          /\ receipt'.outcome = s.outs /\ receipt'.progress = s.prog
          /\ receipt.outcome = s.outs /\ receipt.progress = s.prog
      BY <1>1, <3>1, <3>2 DEF AbsentReceipt, Receipt
    <3>4. \A r \in Record : s.outs[r] = NoOutcome /\ s.prog[r] = NoProgress
      BY <3>2
    <3>5. ValidReceipt(receipt')
      BY <3>3, <3>4 DEF ValidReceipt, ValidProgress, NoOutcome, NoProgress
    <3>6. Counts(s.outs, s.prog)
      BY <1>2, <3>3
    <3>7. \A j \in DOMAIN Order : s.outs[Order[j]].status # "holding"
      BY <3>4, OrderAssumption DEF NoOutcome
    <3>8. CallTold(s, receipt', own, stored, wrote, provAudited)
      BY <3>2, <3>3, <3>6, <3>7 DEF CallTold, SyncedSteps, IntentSteps
    <3>9. /\ claiming' = {} /\ \A r \in Record : wrote'[r] => stored'[r]
          /\ ReceiptTold(receipt', own', wrote', provAudited')
      BY <1>2, <3>1, <3>3, <3>5, <3>6 DEF ReceiptOnly, ReceiptTold
    <3>10. CallTold(s, receipt', own', stored', wrote', provAudited')
      BY <3>1, <3>8 DEF ReceiptOnly
    <3> QED BY <3>2, <3>9, <3>10, AccountFrame
  <2>2. CASE Replay(w)
    BY <2>2 DEF Replay, providerVars, AccountInv
  <2>3. CASE ReadReceipt(w)
    <3>1. PICK s : Goes(w, s) /\ s.pc = "resume" /\ s.outs = receipt.outcome
                   /\ s.prog = receipt.progress
      BY <2>3, ReadEffect DEF Shape
    <3>2. ReceiptOnly /\ receipt' = receipt
      BY <2>3, ReadEffect DEF CallOnly, ReceiptOnly
    <3>3. Tells(s)
      BY <3>1 DEF CallTold, Running, SyncedSteps, IntentSteps
    <3> QED BY <1>4, <3>1, <3>2, <3>3
  <2> QED BY <1>11, <2>1, <2>2, <2>3 DEF Start
<1>12. ASSUME NEW w \in Worker, Heartbeat(w) PROVE AccountInv'
  <2>1. /\ ReceiptOnly /\ Works(w, "calling")
        /\ receipt' = [receipt EXCEPT !.at = receipt.at + 1]
    BY <1>12, HeartbeatEffect
  <2>2. PICK s : Goes(w, s) /\ s.pc = "calling" /\ s.outs = wk[w].outs
                 /\ s.prog = wk[w].prog /\ s.i = wk[w].i
    BY <1>12, HeartbeatEffect DEF Shape
  <2>3. /\ receipt'.status = receipt.status /\ receipt'.outcome = receipt.outcome
        /\ receipt'.progress = receipt.progress
    BY <1>1, <2>1 DEF Receipt
  <2>4. wk[w].pc = "calling" /\ Running(wk[w]) /\ receipt.status = "processing"
    BY <1>7, <1>8, <2>1 DEF Running
  <2>5. ValidReceipt(receipt')
    BY <1>2, <2>3 DEF ValidReceipt
  <2>6. CallTold(s, receipt', own, stored, wrote, provAudited)
    BY <1>7, <2>1, <2>2, <2>3, <2>4
       DEF CallTold, Running, SyncedSteps, IntentSteps, RecordOf
  <2>7. /\ claiming' = {} /\ \A r \in Record : wrote'[r] => stored'[r]
        /\ ReceiptTold(receipt', own', wrote', provAudited')
    BY <1>2, <2>1, <2>3, <2>4, <2>5 DEF ReceiptOnly, ReceiptTold
  <2>8. CallTold(s, receipt', own', stored', wrote', provAudited')
    BY <2>1, <2>6 DEF ReceiptOnly
  <2> QED BY <2>2, <2>7, <2>8, AccountFrame
\* an accepted checkpoint of the call's own outcomes
<1>13. ASSUME NEW w \in Worker, NEW s, Goes(w, s), ReceiptOnly, NEW prog \in [Record -> Progress],
              NEW outs \in [Record -> Outcome], Running(wk[w]) \/ wk[w].pc = "resume",
              Accepted(w, "processing", SuccessfulOutcomes(outs), prog), Counts(outs, prog),
              CallTold(s, receipt', own, stored, wrote, provAudited)
       PROVE  AccountInv'
  <2>1. Counts(SuccessfulOutcomes(outs), prog)
    BY <1>13, SuccessfulAccounted
  <2> QED BY <1>6, <1>13, <2>1
<1>14. ASSUME NEW w \in Worker, NEW outs \in [Record -> Outcome], NEW prog,
              Accepted(w, "processing", SuccessfulOutcomes(outs), prog)
       PROVE  /\ receipt'.status = "processing" /\ receipt'.progress = prog
              /\ \A r \in Record : /\ Successful(receipt'.outcome[r]) => Successful(outs[r])
                                   /\ receipt'.outcome[r].status # "holding"
  BY <1>14 DEF Accepted, SuccessfulOutcomes, NoOutcome, Successful
<1>15. ASSUME NEW w \in Worker, Resume(w) PROVE AccountInv'
  <2> DEFINE outs == SuccessfulOutcomes(wk[w].outs)
  <2>1. ReceiptOnly /\ wk[w].pc = "resume"
    BY <1>15, ResumeEffect
  <2>2. wk[w].outs = receipt.outcome /\ wk[w].prog = receipt.progress
    BY <1>3, <2>1 DEF CallTold, SyncedSteps
  <2>3. Counts(outs, wk[w].prog) /\ Counts(wk[w].outs, wk[w].prog)
    BY <1>1, <1>2, <2>2, SuccessfulAccounted
  <2>4. \A r \in Record : outs[r].status # "holding"
    BY DEF SuccessfulOutcomes, NoOutcome, Successful
  <2>5. \A j \in DOMAIN Order : outs[Order[j]].status # "holding"
    BY <2>4, OrderAssumption
  <2>6. \/ /\ Accepted(w, "processing", outs, wk[w].prog)
           /\ \E s : Goes(w, s) /\ s.pc = "preflight" /\ s.outs = outs /\ s.prog = wk[w].prog
        \/ receipt' = receipt /\ Goes(w, IdleCall)
    BY <1>15, ResumeEffect DEF Shape
  <2> HIDE DEF outs
  <2>7. ASSUME NEW s, Accepted(w, "processing", outs, wk[w].prog), Goes(w, s), s.pc = "preflight",
               s.outs = outs, s.prog = wk[w].prog
        PROVE  AccountInv'
    <3>1. receipt'.status = "processing" /\ receipt'.outcome = outs /\ receipt'.progress = wk[w].prog
      BY <2>7 DEF Accepted
    <3>2. CallTold(s, receipt', own, stored, wrote, provAudited)
      BY <2>3, <2>5, <2>7, <3>1 DEF CallTold, SyncedSteps, IntentSteps
    <3> QED BY <1>6, <2>1, <2>3, <2>7, <3>2
  <2> QED BY <1>5, <2>1, <2>6, <2>7
<1>16. ASSUME NEW w \in Worker, Preflight(w) PROVE AccountInv'
  <2>1. CallOnly /\ wk[w].pc = "preflight"
    BY <1>16, PreflightEffect
  <2>2. ReceiptOnly /\ receipt' = receipt /\ Running(wk[w])
    BY <2>1 DEF CallOnly, ReceiptOnly, Running
  <2>3. ASSUME NEW s, Moves(w, s, "record") PROVE AccountInv'
    <3>1. Goes(w, s) /\ s.pc = "record" /\ s.outs = wk[w].outs /\ s.prog = wk[w].prog
          /\ s.i = wk[w].i
      BY <2>3 DEF Moves, Shape
    <3>2. wk[w].prog = receipt.progress
      BY <1>3, <2>1 DEF CallTold, SyncedSteps
    <3>3. Tells(s)
      BY <1>8, <2>2, <3>1, <3>2 DEF CallTold, SyncedSteps, IntentSteps
    <3> QED BY <1>4, <2>2, <3>1, <3>3
  <2> QED BY <1>10, <1>16, <2>2, <2>3, PreflightEffect
<1>17. ASSUME NEW w \in Worker, SkipRecord(w) PROVE AccountInv'
  <2>1. CallOnly /\ Works(w, "record")
    BY <1>17, SkipEffect
  <2>2. PICK s : /\ Goes(w, s) /\ s.pc = "record" /\ s.outs = wk[w].outs
                 /\ s.prog = wk[w].prog /\ s.i = wk[w].i + 1
    BY <1>17, SkipEffect DEF Shape
  <2>3. /\ ReceiptOnly /\ receipt' = receipt /\ Running(wk[w]) /\ wk[w].pc = "record"
        /\ wk[w].i \in Nat
    BY <1>7, <2>1 DEF CallOnly, ReceiptOnly, Running, CallState
  <2>4. wk[w].prog = receipt.progress
    BY <1>3, <2>3 DEF CallTold, SyncedSteps
  <2>5. \A j \in DOMAIN Order : s.outs[Order[j]].status = "holding" => j < s.i
    BY <1>8, <2>2, <2>3, OrderAssumption
  <2>6. Tells(s)
    BY <1>8, <2>2, <2>3, <2>4, <2>5 DEF CallTold, SyncedSteps, IntentSteps
  <2> QED BY <1>4, <2>2, <2>3, <2>6
\* a holding outcome for a record that the package did not write
<1>18. ASSUME NEW w \in Worker, NEW step, Works(w, step), Running(wk[w]), ~wrote[Current(w)],
              ~Successful(wk[w].outs[Current(w)]), Prog(w).phase # "committed",
              ~Successful(receipt.outcome[Current(w)])
       PROVE  LET outs == [wk[w].outs EXCEPT ![Current(w)] = HoldingOutcome]
              IN  /\ Counts(outs, wk[w].prog)
                  /\ \A j \in DOMAIN Order : outs[Order[j]].status = "holding" => j < wk[w].i + 1
                  /\ \A r \in Record : r # Current(w) => outs[r] = wk[w].outs[r]
  <2> DEFINE outs == [wk[w].outs EXCEPT ![Current(w)] = HoldingOutcome]
  <2>1. /\ HoldingOutcome \in Outcome /\ ~Successful(HoldingOutcome) /\ ~HoldingOutcome.locked
    BY ConstantsTyped DEF HoldingOutcome, Successful
  <2>2. Tell(HoldingOutcome, Prog(w), Current(w))
    BY <1>1, <1>7, <1>18, <2>1, ToldNothing
  <2>3. Counts(outs, wk[w].prog)
    <3>1. /\ wk[w].outs \in [Record -> Outcome] /\ wk[w].prog \in [Record -> Progress]
          /\ Counts(wk[w].outs, wk[w].prog) /\ Current(w) \in Record
          /\ Tell(HoldingOutcome, wk[w].prog[Current(w)], Current(w))
      BY <1>7, <1>8, <1>18, <2>2
    <3> QED BY <3>1, AccountedOutcome
  <2>4. \A r \in Record : r # Current(w) => outs[r] = wk[w].outs[r]
    BY <1>7, <1>18
  <2> HIDE DEF outs
  <2>5. ASSUME NEW j \in DOMAIN Order, outs[Order[j]].status = "holding" PROVE j < wk[w].i + 1
    <3>1. j \in Nat /\ wk[w].i \in Nat /\ Order[j] \in Record
      BY <1>7, <1>18, OrderAssumption DEF CallState
    <3>2. CASE Order[j] = Current(w)
      <4>1. j = wk[w].i
        BY <1>7, <1>18, <3>1, <3>2, TopologicalAssumption DEF Topological, Current
      <4> QED BY <3>1, <4>1
    <3>3. CASE Order[j] # Current(w)
      BY <1>8, <1>18, <2>4, <2>5, <3>1, <3>3
    <3> QED BY <3>2, <3>3
  <2> QED BY <2>3, <2>4, <2>5 DEF outs
<1>19. ASSUME NEW w \in Worker, HoldRecord(w) PROVE AccountInv'
  <2> DEFINE outs == [wk[w].outs EXCEPT ![Current(w)] = HoldingOutcome]
  <2>1. /\ CallOnly /\ Works(w, "record")
        /\ ~Successful(wk[w].outs[Current(w)]) /\ Prog(w).phase = "none"
    BY <1>19, HoldEffect
  <2>2. /\ ReceiptOnly /\ receipt' = receipt /\ Running(wk[w])
        /\ Current(w) \in Record /\ wk[w].outs[Current(w)] \in Outcome /\ Prog(w) \in Progress
        /\ Prog(w) = wk[w].prog[Current(w)] /\ wk[w].pc = "record"
    BY <1>7, <2>1 DEF CallOnly, ReceiptOnly, Running
  <2>3. ~wrote[Current(w)] /\ ~Successful(receipt.outcome[Current(w)])
    BY <1>8, <2>1, <2>2, UntoldUntouched
  <2>4. /\ Counts(outs, wk[w].prog)
        /\ \A j \in DOMAIN Order : outs[Order[j]].status = "holding" => j < wk[w].i + 1
        /\ \A r \in Record : r # Current(w) => outs[r] = wk[w].outs[r]
    BY <1>18, <2>1, <2>2, <2>3
  <2>5. PICK s : /\ Goes(w, s) /\ s.pc = "record" /\ s.outs = outs
                 /\ s.prog = wk[w].prog /\ s.i = wk[w].i + 1
    BY <1>19, HoldEffect DEF Shape
  <2>6. wk[w].prog = receipt.progress
    BY <1>3, <2>2 DEF CallTold, SyncedSteps
  <2> HIDE DEF outs
  <2>7. \A q \in Record : Successful(receipt.outcome[q]) => Successful(outs[q])
    BY <1>8, <2>2, <2>3, <2>4
  <2>8. Tells(s)
    BY <1>8, <2>2, <2>4, <2>5, <2>6, <2>7 DEF CallTold, SyncedSteps, IntentSteps
  <2> QED BY <1>4, <2>2, <2>5, <2>8
<1>20. ASSUME NEW w \in Worker, ResumeRecord(w) PROVE AccountInv'
  <2>1. CallOnly /\ Works(w, "record") /\ Prog(w).phase # "none"
    BY <1>20, ResumeRecordEffect
  <2>2. PICK s : Moves(w, s, "register")
    BY <1>20, ResumeRecordEffect
  <2>3. /\ ReceiptOnly /\ receipt' = receipt /\ Running(wk[w]) /\ wk[w].pc = "record"
        /\ Prog(w) = wk[w].prog[RecordOf(wk[w])]
    BY <1>7, <2>1 DEF CallOnly, ReceiptOnly, Running
  <2>4. Goes(w, s) /\ s.pc = "register" /\ s.outs = wk[w].outs /\ s.prog = wk[w].prog
        /\ s.i = wk[w].i /\ RecordOf(s) = RecordOf(wk[w])
    BY <2>2 DEF Moves, Shape, RecordOf
  <2>5. wk[w].prog = receipt.progress
    BY <1>3, <2>3 DEF CallTold, SyncedSteps
  <2>6. Tells(s)
    BY <1>8, <2>1, <2>3, <2>4, <2>5 DEF CallTold, SyncedSteps, IntentSteps
  <2> QED BY <1>4, <2>3, <2>4, <2>6
<1>21. ASSUME NEW w \in Worker, InspectRecord(w) PROVE AccountInv'
  <2> DEFINE r == Current(w)
             g == Intent(~stored[r])
             prog == [wk[w].prog EXCEPT ![r] = g]
  <2>1. /\ CallOnly /\ Works(w, "record")
        /\ ~Successful(wk[w].outs[r]) /\ Prog(w).phase = "none"
    BY <1>21, InspectEffect
  <2>2. /\ ReceiptOnly /\ receipt' = receipt /\ Running(wk[w])
        /\ r \in Record /\ wk[w].outs[r] \in Outcome /\ Prog(w) \in Progress
        /\ Prog(w) = wk[w].prog[r] /\ RecordOf(wk[w]) = r
        /\ wk[w].outs \in [Record -> Outcome] /\ wk[w].prog \in [Record -> Progress]
    BY <1>7, <2>1 DEF CallOnly, ReceiptOnly, Running
  <2>3. ~wrote[r] /\ ~Successful(receipt.outcome[r])
    BY <1>8, <2>1, <2>2, UntoldUntouched
  <2>4. ~wk[w].outs[r].locked
    BY <1>8, <2>1, <2>2 DEF Told
  <2>5. NoProgress \in Progress /\ NoProgress.phase = "none"
        /\ g \in Progress /\ g.phase = "intent"
    BY ConstantsTyped DEF NoProgress, Intent, Progress
  <2> HIDE DEF g
  <2>6. Tell(wk[w].outs[r], NoProgress, r) /\ Tell(wk[w].outs[r], g, r)
    BY <1>1, <2>1, <2>2, <2>3, <2>4, <2>5, ToldNothing
  <2>7. ASSUME NEW s, MovesWith(w, s, "intent", g) PROVE AccountInv'
    <3>1. Goes(w, s) /\ s.pc = "intent" /\ s.outs = wk[w].outs /\ s.prog = prog
          /\ s.i = wk[w].i /\ RecordOf(s) = r
      BY <2>2, <2>7 DEF MovesWith, Shape, RecordOf
    <3>2. Counts(wk[w].outs, prog) /\ prog[r] = g
      BY <1>8, <2>2, <2>6, AccountedProgress
    <3> HIDE DEF prog, r
    <3>3. Untouched(s, receipt, wrote)
      BY <2>1, <2>3, <3>1 DEF Untouched
    <3>4. Tells(s)
      BY <1>8, <2>2, <2>5, <3>1, <3>2, <3>3 DEF CallTold, SyncedSteps, IntentSteps
    <3> QED BY <1>4, <2>2, <3>1, <3>4
  <2>8. ASSUME NEW s, MovesWith(w, s, "fail", NoProgress) PROVE AccountInv'
    BY <1>9, <2>1, <2>2, <2>6, <2>8
  <2> QED BY <1>21, <2>7, <2>8, InspectEffect DEF g
<1>22. ASSUME NEW w \in Worker, NEW step \in {"intent", "rollback", "cleanup", "hold"}, Works(w, step)
       PROVE  /\ Running(wk[w]) /\ ~wrote[Current(w)] /\ ~Successful(wk[w].outs[Current(w)])
              /\ ~Successful(receipt.outcome[Current(w)]) /\ ~wk[w].outs[Current(w)].locked
  <2>1. /\ Running(wk[w]) /\ ~wrote[Current(w)] /\ ~Successful(wk[w].outs[Current(w)])
        /\ ~Successful(receipt.outcome[Current(w)])
    BY <1>7, <1>22 DEF Running, CallTold, Untouched
  <2>2. Tell(wk[w].outs[Current(w)], wk[w].prog[Current(w)], Current(w))
    BY <1>7, <1>8, <1>22, <2>1
  <2> QED BY <2>1, <2>2 DEF Told
<1>23. ASSUME NEW w \in Worker, NEW step \in {"intent", "rollback", "cleanup", "hold"}, Works(w, step)
       PROVE  Tell(wk[w].outs[Current(w)], NoProgress, Current(w))
  <2>1. NoProgress \in Progress /\ NoProgress.phase = "none"
    BY ConstantsTyped DEF NoProgress
  <2> QED BY <1>1, <1>7, <1>22, <1>23, <2>1, ToldNothing
<1>24. ASSUME NEW w \in Worker, ReserveIntent(w) PROVE AccountInv'
  <2>1. /\ ReceiptOnly /\ Works(w, "intent")
    BY <1>24, ReserveIntentEffect
  <2>2. Running(wk[w]) /\ wk[w].prog[RecordOf(wk[w])].phase # "none"
    BY <1>7, <2>1 DEF Running, CallTold, IntentSteps
  <2>3. ASSUME NEW s, Accepted(w, "processing", SuccessfulOutcomes(wk[w].outs), wk[w].prog),
               Goes(w, s),
               Shape(s, "register", wk[w].outs, wk[w].prog, wk[w].i, wk[w].reg, wk[w].err)
        PROVE  AccountInv'
    <3>1. s.pc = "register" /\ s.outs = wk[w].outs /\ s.prog = wk[w].prog /\ s.i = wk[w].i
          /\ RecordOf(s) = RecordOf(wk[w])
      BY <2>3 DEF Shape, RecordOf
    <3>2. wk[w].outs \in [Record -> Outcome] /\ wk[w].prog \in [Record -> Progress]
      BY <1>7, <2>1
    <3>3. /\ receipt'.status = "processing" /\ receipt'.progress = wk[w].prog
          /\ \A r \in Record : Successful(receipt'.outcome[r]) => Successful(wk[w].outs[r])
      BY <1>14, <2>3, <3>2
    <3>4. CallTold(s, receipt', own, stored, wrote, provAudited)
      BY <1>8, <2>2, <3>1, <3>3 DEF CallTold, SyncedSteps, IntentSteps
    <3> QED BY <1>8, <1>13, <2>1, <2>2, <2>3, <3>2, <3>4
  <2>4. ASSUME NEW s, receipt' = receipt, MovesWith(w, s, "fail", NoProgress) PROVE AccountInv'
    BY <1>9, <1>23, <2>1, <2>2, <2>4
  <2> QED BY <1>24, <2>3, <2>4, ReserveIntentEffect
\* a step that changes Guard's entry of a record that the package did not write
<1>25. ASSUME NEW w \in Worker, NEW s, Goes(w, s), OwnOnly, NEW r \in Record,
              \A q \in Record : q # r => own'[q] = own[q], ~wrote[r],
              ~Successful(receipt.outcome[r]),
              CallTold(s, receipt, own', stored, wrote, provAudited)
       PROVE  AccountInv'
  <2>1. Accounted(receipt.outcome, receipt.progress, own', wrote, provAudited)
    BY <1>2, <1>25, AccountedOwn
  <2>2. /\ claiming' = {} /\ \A q \in Record : wrote'[q] => stored'[q]
        /\ ReceiptTold(receipt', own', wrote', provAudited')
    BY <1>2, <1>25, <2>1 DEF OwnOnly, ReceiptTold
  <2>3. CallTold(s, receipt', own', stored', wrote', provAudited')
    BY <1>25 DEF OwnOnly
  <2> QED BY <1>25, <2>2, <2>3, AccountFrame
<1>26. ASSUME NEW w \in Worker, RegisterOwnership(w) PROVE AccountInv'
  <2> DEFINE r == Current(w)
  <2>1. OwnOnly /\ Works(w, "register")
    BY <1>26, RegisterEffect
  <2>2. /\ r \in Record /\ RecordOf(wk[w]) = r /\ Running(wk[w]) /\ own[r] \in Ownership
        /\ wk[w].prog = receipt.progress /\ wk[w].prog[r].phase # "none"
        /\ wk[w].outs[r] \in Outcome
    BY <1>1, <1>7, <2>1 DEF Running, CallTold, SyncedSteps, IntentSteps
  <2>3. own' = own => ReceiptOnly /\ receipt' = receipt
    BY <2>1 DEF OwnOnly, ReceiptOnly
  <2>4. Tell(wk[w].outs[r], wk[w].prog[r], r)
    BY <1>8, <2>2
  <2>5. ASSUME NEW s, own[r].state = "free", Goes(w, s),
               own' = [own EXCEPT ![r] = [state |-> "locked", stamp |-> own[r].stamp + 1]],
               Shape(s, "regAudit", wk[w].outs, wk[w].prog, wk[w].i,
                     [stamp |-> own[r].stamp + 1, locked |-> TRUE, created |-> TRUE],
                     wk[w].err)
        PROVE  AccountInv'
    <3>1. /\ s.pc = "regAudit" /\ s.outs = wk[w].outs /\ s.prog = wk[w].prog /\ s.i = wk[w].i
          /\ s.reg.locked /\ RecordOf(s) = r
      BY <2>2, <2>5 DEF Shape, RecordOf
    <3>2. own'[r].state = "locked" /\ \A q \in Record : q # r => own'[q] = own[q]
      BY <1>1, <2>2, <2>5
    <3>3. ~wrote[r] /\ ~Successful(wk[w].outs[r])
      BY <2>4, <2>5 DEF Told, Held
    <3>4. ~Successful(receipt.outcome[r])
      BY <1>8, <2>2, <3>3
    <3>5. Accounted(s.outs, s.prog, own', wrote, provAudited)
      BY <1>8, <2>2, <3>1, <3>2, <3>3, AccountedOwn
    <3> HIDE DEF r
    <3>6. Untouched(s, receipt, wrote)
      BY <3>1, <3>3, <3>4 DEF Untouched
    <3>7. CallTold(s, receipt, own', stored, wrote, provAudited)
      BY <1>8, <2>2, <3>1, <3>2, <3>5, <3>6 DEF CallTold, SyncedSteps, IntentSteps
    <3> QED BY <1>25, <2>1, <2>2, <2>5, <3>2, <3>3, <3>4, <3>7
  <2>6. ASSUME NEW s, own[r].state \in {"locked", "claimed"}, own' = own, Goes(w, s),
               Shape(s, "ownership", wk[w].outs, wk[w].prog, wk[w].i,
                     [stamp |-> own[r].stamp, locked |-> own[r].state = "locked",
                      created |-> FALSE], wk[w].err)
        PROVE  AccountInv'
    <3> DEFINE reg == [stamp |-> own[r].stamp, locked |-> own[r].state = "locked",
                       created |-> FALSE]
    <3>1. reg.locked = (own[r].state = "locked") /\ reg.created = FALSE
      BY Zenon
    <3> HIDE DEF reg
    <3>2. s.reg = reg
      BY <2>6 DEF Shape, reg
    <3>3. /\ s.pc = "ownership" /\ s.outs = wk[w].outs /\ s.prog = wk[w].prog /\ s.i = wk[w].i
          /\ ~s.reg.created /\ (s.reg.locked <=> own[r].state = "locked") /\ RecordOf(s) = r
      <4>1. s.pc = "ownership" /\ s.outs = wk[w].outs /\ s.prog = wk[w].prog /\ s.i = wk[w].i
        BY <2>6 DEF Shape
      <4>2. RecordOf(s) = r
        BY <2>2, <4>1 DEF RecordOf
      <4>3. ~s.reg.created /\ (s.reg.locked <=> own[r].state = "locked")
        BY <3>1, <3>2, Zenon
      <4> QED BY <4>1, <4>2, <4>3
    <3> HIDE DEF r
    <3>4. Tells(s)
      BY <1>8, <2>2, <2>6, <3>3 DEF CallTold, SyncedSteps, IntentSteps, Held
    <3> QED BY <1>4, <2>3, <2>6, <3>4
  <2>7. ASSUME NEW s, own' = own, Moves(w, s, "lockError") PROVE AccountInv'
    <3>1. /\ s.pc = "lockError" /\ s.outs = wk[w].outs /\ s.prog = wk[w].prog /\ s.i = wk[w].i
          /\ RecordOf(s) = r /\ Goes(w, s)
      BY <2>2, <2>7 DEF Moves, Shape, RecordOf
    <3> HIDE DEF r
    <3>2. Tells(s)
      BY <1>8, <2>2, <3>1 DEF CallTold, SyncedSteps, IntentSteps
    <3> QED BY <1>4, <2>3, <2>7, <3>1, <3>2
  <2> QED BY <1>26, <2>5, <2>6, <2>7, RegisterEffect
<1>27. ASSUME NEW w \in Worker, AuditOwnership(w) PROVE AccountInv'
  <2>1. CallOnly /\ Works(w, "regAudit")
    BY <1>27, AuditEffect
  <2>2. /\ ReceiptOnly /\ receipt' = receipt /\ Running(wk[w])
        /\ wk[w].prog = receipt.progress
        /\ wk[w].prog[RecordOf(wk[w])].phase # "none"
        /\ Untouched(wk[w], receipt, wrote)
        /\ wk[w].reg.locked /\ own[RecordOf(wk[w])].state = "locked"
    BY <1>7, <2>1 DEF CallOnly, ReceiptOnly, Running, CallTold, SyncedSteps, IntentSteps
  <2>3. ASSUME NEW s, NEW step \in {"ownership", "rollback"}, Moves(w, s, step)
        PROVE  AccountInv'
    <3>1. /\ s.pc = step /\ s.outs = wk[w].outs /\ s.prog = wk[w].prog /\ s.i = wk[w].i
          /\ s.reg = wk[w].reg /\ RecordOf(s) = RecordOf(wk[w]) /\ Goes(w, s)
      BY <2>3 DEF Moves, Shape, RecordOf
    <3>2. Untouched(s, receipt, wrote)
      BY <2>2, <3>1 DEF Untouched
    <3>3. Tells(s)
      BY <1>8, <2>2, <2>3, <3>1, <3>2 DEF CallTold, SyncedSteps, IntentSteps, Held
    <3> QED BY <1>4, <2>2, <3>1, <3>3
  <2> QED BY <1>27, <2>3, AuditEffect
<1>28. ASSUME NEW w \in Worker, RollbackOwnership(w) PROVE AccountInv'
  <2> DEFINE r == Current(w)
  <2>1. OwnOnly /\ Works(w, "rollback")
    BY <1>28, RollbackEffect
  <2>2. /\ r \in Record /\ RecordOf(wk[w]) = r /\ Running(wk[w])
        /\ wk[w].prog = receipt.progress /\ wk[w].prog[r].phase # "none"
    BY <1>7, <2>1 DEF Running, CallTold, SyncedSteps, IntentSteps
  <2>3. ~wrote[r] /\ ~Successful(wk[w].outs[r]) /\ ~Successful(receipt.outcome[r])
    BY <1>22, <2>1
  <2>4. \A q \in Record : q # r => own'[q] = own[q]
    BY <1>1, <1>28, <2>2, RollbackEffect DEF Deleted
  <2>5. PICK s : /\ Goes(w, s)
                 /\ Shape(s, "lockError", wk[w].outs, wk[w].prog, wk[w].i,
                          NoRegistration, wk[w].err)
    BY <1>28, RollbackEffect
  <2>6. /\ s.pc = "lockError" /\ s.outs = wk[w].outs /\ s.prog = wk[w].prog /\ s.i = wk[w].i
        /\ RecordOf(s) = r
    BY <2>2, <2>5 DEF Shape, RecordOf
  <2>7. Accounted(s.outs, s.prog, own', wrote, provAudited)
    BY <1>8, <2>2, <2>3, <2>4, <2>6, AccountedOwn
  <2> HIDE DEF r
  <2>8. CallTold(s, receipt, own', stored, wrote, provAudited)
    BY <1>8, <2>2, <2>6, <2>7 DEF CallTold, SyncedSteps, IntentSteps
  <2> QED BY <1>25, <2>1, <2>2, <2>3, <2>4, <2>5, <2>8
<1>29. ASSUME NEW w \in Worker, ReconcileOwnership(w) PROVE AccountInv'
  <2> DEFINE r == Current(w)
             o == wk[w].outs[r]
             g == Prog(w)
  <2>1. CallOnly /\ Works(w, "lockError")
    BY <1>29, ReconcileEffect
  <2>2. /\ ReceiptOnly /\ receipt' = receipt /\ Running(wk[w])
        /\ r \in Record /\ o \in Outcome /\ g \in Progress /\ g = wk[w].prog[r]
        /\ g.phase # "none"
    BY <1>7, <2>1 DEF CallOnly, ReceiptOnly, Running, CallTold, IntentSteps
  <2>3. Tell(o, g, r)
    BY <1>8, <2>2
  <2>4. Tell(o, Reconciled(w), r)
    <3>1. CASE own[r].state = "locked"
      <4> DEFINE h == [g EXCEPT !.ready = TRUE, !.created = TRUE, !.locked = TRUE]
      <4>1. Reconciled(w) = h
        BY <3>1 DEF Reconciled
      <4>2. h.phase = g.phase /\ h.expected = g.expected /\ h.ready /\ h.locked
        BY <2>2 DEF Progress
      <4> HIDE DEF h, g, o, r
      <4> QED BY <2>2, <2>3, <3>1, <4>1, <4>2 DEF Told, Held
    <3>2. CASE own[r].state # "locked" /\ g.phase = "intent" /\ ~g.ready
      <4>1. Reconciled(w) = NoProgress /\ NoProgress \in Progress /\ NoProgress.phase = "none"
        BY <3>2, ConstantsTyped DEF Reconciled, NoProgress
      <4>2. ~wrote[r] /\ ~Successful(o) /\ ~o.locked
        BY <2>3, <3>2 DEF Told, Successful
      <4> QED BY <1>1, <2>2, <4>1, <4>2, ToldNothing
    <3>3. CASE own[r].state # "locked" /\ ~(g.phase = "intent" /\ ~g.ready)
      BY <2>3, <3>3 DEF Reconciled
    <3> QED BY <3>1, <3>2, <3>3
  <2> HIDE DEF g, o, r
  <2>5. ASSUME NEW s, MovesWith(w, s, "fail", Reconciled(w)) PROVE AccountInv'
    BY <1>9, <2>1, <2>2, <2>4, <2>5 DEF o, r
  <2>6. ASSUME NEW s, MovesWith(w, s, "fail", Prog(w)) PROVE AccountInv'
    BY <1>9, <2>1, <2>2, <2>3, <2>6 DEF o, r, g
  <2> QED BY <1>29, <2>5, <2>6, ReconcileEffect
<1>30. ASSUME NEW w \in Worker, CheckpointOwnership(w) PROVE AccountInv'
  <2> DEFINE r == Current(w)
             o == wk[w].outs[r]
             reg == wk[w].reg
             g == WithOwnership(Prog(w), reg)
             prog == [wk[w].prog EXCEPT ![r] = g]
  <2>1. ReceiptOnly /\ Works(w, "ownership")
    BY <1>30, CheckpointOwnershipEffect
  <2>2. /\ Running(wk[w]) /\ r \in Record /\ RecordOf(wk[w]) = r
        /\ o \in Outcome /\ Prog(w) \in Progress /\ Prog(w) = wk[w].prog[r]
        /\ reg \in Registration
        /\ wk[w].outs \in [Record -> Outcome] /\ wk[w].prog \in [Record -> Progress]
    BY <1>7, <2>1 DEF Running, CallState
  <2>3. /\ wk[w].prog = receipt.progress /\ Prog(w).phase # "none"
        /\ reg.created => ~wrote[r] /\ ~Successful(o) /\ ~Successful(receipt.outcome[r])
        /\ Held(own[r]) /\ (reg.locked <=> own[r].state = "locked")
    BY <1>7, <2>1, <2>2 DEF CallTold, SyncedSteps, IntentSteps, Untouched
  <2>4. Tell(o, Prog(w), r) /\ Tell(receipt.outcome[r], Prog(w), r)
    BY <1>2, <1>8, <2>2, <2>3 DEF Accounted
  <2>5. /\ g.phase = Prog(w).phase /\ g.expected = Prog(w).expected
        /\ g.ready = TRUE /\ g.locked = reg.locked
    BY <2>2 DEF WithOwnership, Progress
  <2>6. Tell(o, g, r)
    BY <2>3, <2>4, <2>5 DEF Told
  <2> HIDE DEF g
  <2>7. Counts(wk[w].outs, prog) /\ prog[r] = g
    BY <1>8, <2>2, <2>6, AccountedProgress
  <2>8. \/ \E s : /\ Prog(w).ready /\ Prog(w).locked = reg.locked
                  /\ receipt' = receipt /\ Moves(w, s, "calling")
        \/ \E s : /\ g \in Progress
                  /\ Accepted(w, "processing", SuccessfulOutcomes(wk[w].outs), prog)
                  /\ Goes(w, s)
                  /\ Shape(s, "calling", wk[w].outs, prog, wk[w].i, reg, wk[w].err)
        \/ \E s : /\ ~(Prog(w).ready /\ ~reg.created /\ Prog(w).locked = reg.locked)
                  /\ receipt' = receipt /\ MovesWith(w, s, "cleanup", g)
    BY <1>30, CheckpointOwnershipEffect DEF g
  <2>9. ASSUME NEW s, Prog(w).ready, Prog(w).locked = reg.locked, receipt' = receipt,
               Moves(w, s, "calling")
        PROVE  AccountInv'
    <3>1. /\ s.pc = "calling" /\ s.outs = wk[w].outs /\ s.prog = wk[w].prog /\ s.i = wk[w].i
          /\ RecordOf(s) = r /\ Goes(w, s)
      BY <2>2, <2>9 DEF Moves, Shape, RecordOf
    <3>2. Prog(w).locked <=> own[r].state = "locked"
      BY <2>3, <2>9
    <3> HIDE DEF r, reg
    <3>3. Tells(s)
      BY <1>8, <2>2, <2>3, <2>9, <3>1, <3>2 DEF CallTold, SyncedSteps, IntentSteps
    <3> QED BY <1>4, <2>1, <2>9, <3>1, <3>3
  <2>10. ASSUME NEW s, g \in Progress,
                Accepted(w, "processing", SuccessfulOutcomes(wk[w].outs), prog), Goes(w, s),
                Shape(s, "calling", wk[w].outs, prog, wk[w].i, reg, wk[w].err)
         PROVE  AccountInv'
    <3>1. /\ s.pc = "calling" /\ s.outs = wk[w].outs /\ s.prog = prog /\ s.i = wk[w].i
          /\ RecordOf(s) = r
      BY <2>2, <2>10 DEF Shape, RecordOf
    <3>2. prog \in [Record -> Progress]
      BY <2>2, <2>10
    <3> HIDE DEF r, reg, prog
    <3>3. /\ receipt'.status = "processing" /\ receipt'.progress = prog
          /\ \A q \in Record : Successful(receipt'.outcome[q]) => Successful(wk[w].outs[q])
      BY <1>14, <2>2, <2>10
    <3>4. CallTold(s, receipt', own, stored, wrote, provAudited)
      BY <1>8, <2>2, <2>3, <2>5, <2>7, <3>1, <3>3 DEF CallTold, SyncedSteps, IntentSteps
    <3> QED BY <1>13, <2>1, <2>2, <2>7, <2>10, <3>2, <3>4
  <2>11. ASSUME NEW s, ~(Prog(w).ready /\ ~reg.created /\ Prog(w).locked = reg.locked),
                receipt' = receipt, MovesWith(w, s, "cleanup", g)
         PROVE  AccountInv'
    <3>1. /\ s.pc = "cleanup" /\ s.outs = wk[w].outs /\ s.prog = prog /\ s.i = wk[w].i
          /\ RecordOf(s) = r /\ Goes(w, s)
      BY <2>2, <2>11 DEF MovesWith, Shape, RecordOf
    <3>2. ~wrote[r] /\ ~Successful(o) /\ ~Successful(receipt.outcome[r])
      <4>1. CASE reg.created
        BY <2>3, <4>1
      <4>2. CASE ~reg.created
        <5>1. Prog(w).locked \in BOOLEAN /\ reg.locked \in BOOLEAN
          BY <2>2 DEF Progress, Registration
        <5>2. ~(Prog(w).ready /\ (Prog(w).locked <=> reg.locked))
          BY <2>11, <4>2, <5>1
        <5>3. (wrote[r] \/ Successful(o) \/ Successful(receipt.outcome[r])) =>
                 Prog(w).ready /\ (Prog(w).locked <=> own[r].state = "locked")
          BY <2>3, <2>4 DEF Told
        <5> QED BY <2>3, <5>2, <5>3
      <4> QED BY <4>1, <4>2
    <3> HIDE DEF r, reg, prog
    <3>3. Untouched(s, receipt, wrote)
      BY <3>1, <3>2 DEF Untouched
    <3>4. Tells(s)
      BY <1>8, <2>2, <2>3, <2>5, <2>7, <3>1, <3>3 DEF CallTold, SyncedSteps, IntentSteps
    <3> QED BY <1>4, <2>1, <2>11, <3>1, <3>4
  <2> QED BY <2>8, <2>9, <2>10, <2>11
\* a lock that is deleted for a record that the package did not write
<1>31. ASSUME NEW w \in Worker, NEW s, NEW step, Works(w, step), OwnOnly, Running(wk[w]),
              Deleted(Current(w), wk[w].reg), NEW next \in {"hold", "fail"},
              MovesWith(w, s, next, NoProgress),
              Tell(wk[w].outs[Current(w)], NoProgress, Current(w)), ~wrote[Current(w)],
              ~Successful(wk[w].outs[Current(w)]), ~Successful(receipt.outcome[Current(w)])
       PROVE  AccountInv'
  <2> DEFINE r == Current(w)
             prog == [wk[w].prog EXCEPT ![r] = NoProgress]
  <2>1. r \in Record /\ RecordOf(wk[w]) = r
        /\ wk[w].outs \in [Record -> Outcome] /\ wk[w].prog \in [Record -> Progress]
    BY <1>7, <1>31
  <2>2. \A q \in Record : q # r => own'[q] = own[q]
    BY <1>1, <1>31, <2>1 DEF Deleted
  <2>3. Counts(wk[w].outs, prog)
    BY <1>8, <1>31, <2>1, AccountedProgress
  <2>4. Accounted(wk[w].outs, prog, own', wrote, provAudited)
    BY <1>31, <2>1, <2>2, <2>3, AccountedOwn
  <2>5. /\ s.pc = next /\ s.outs = wk[w].outs /\ s.prog = prog /\ s.i = wk[w].i
        /\ RecordOf(s) = r /\ Goes(w, s)
    BY <1>31, <2>1 DEF MovesWith, Shape, RecordOf
  <2> HIDE DEF r, prog
  <2>6. Untouched(s, receipt, wrote)
    BY <1>31, <2>5 DEF Untouched, r
  <2>7. CallTold(s, receipt, own', stored, wrote, provAudited)
    BY <1>8, <1>31, <2>1, <2>4, <2>5, <2>6 DEF CallTold, SyncedSteps, IntentSteps
  <2> QED BY <1>25, <1>31, <2>1, <2>2, <2>5, <2>7 DEF r
<1>32. ASSUME NEW w \in Worker, CleanupOwnership(w) PROVE AccountInv'
  <2>1. OwnOnly /\ Works(w, "cleanup")
    BY <1>32, CleanupEffect
  <2>2. /\ Running(wk[w]) /\ ~wrote[Current(w)] /\ ~Successful(wk[w].outs[Current(w)])
        /\ ~Successful(receipt.outcome[Current(w)])
        /\ Tell(wk[w].outs[Current(w)], NoProgress, Current(w))
        /\ Tell(wk[w].outs[Current(w)], Prog(w), Current(w))
    BY <1>7, <1>8, <1>22, <1>23, <2>1
  <2>3. ASSUME NEW s, Deleted(Current(w), wk[w].reg), MovesWith(w, s, "fail", NoProgress)
        PROVE  AccountInv'
    BY <1>31, <2>1, <2>2, <2>3
  <2>4. ASSUME NEW s, own' = own, NEW g \in {NoProgress, Prog(w)}, MovesWith(w, s, "fail", g)
        PROVE  AccountInv'
    <3>1. ReceiptOnly /\ receipt' = receipt
      BY <2>1, <2>4 DEF OwnOnly, ReceiptOnly
    <3>2. Tell(wk[w].outs[Current(w)], g, Current(w))
      BY <2>2
    <3> QED BY <1>9, <2>1, <2>2, <2>4, <3>1, <3>2
  <2> QED BY <1>32, <2>3, <2>4, CleanupEffect
\* the provider wrote the exact record of the call, or found it there
<1>33. ASSUME NEW w \in Worker, NEW s, NEW audited \in BOOLEAN, Works(w, "calling"), ProviderOnly,
              CanCommit(Current(w), Prog(w)), ProviderWrites(Current(w), audited), NEW e,
              NEW step \in {"verify", "commit"}, MovesErr(w, s, step, e),
              step = "verify" => e # "none", step = "commit" /\ e = "none" => audited
       PROVE  AccountInv'
  <2> DEFINE r == Current(w)
             g == Prog(w)
  <2>1. /\ r \in Record /\ RecordOf(wk[w]) = r /\ Running(wk[w])
        /\ g \in Progress /\ g = wk[w].prog[r] /\ wk[w].outs[r] \in Outcome
        /\ wk[w].prog = receipt.progress /\ g.phase # "none" /\ g.ready /\ Held(own[r])
        /\ (g.locked <=> own[r].state = "locked")
    BY <1>7, <1>33 DEF Running, CallTold, SyncedSteps, IntentSteps
  <2>2. /\ stored'[r] = TRUE /\ wrote'[r] = (wrote[r] \/ ~stored[r])
        /\ (audited => provAudited'[r]) /\ (provAudited[r] => provAudited'[r])
        /\ \A q \in Record : q # r => /\ stored'[q] = stored[q] /\ wrote'[q] = wrote[q]
                                      /\ provAudited'[q] = provAudited[q]
    BY <1>1, <1>33, <2>1 DEF ProviderWrites
  <2>3. /\ own' = own /\ receipt' = receipt /\ claiming' = {}
        /\ \A q \in Record : wrote'[q] => stored'[q]
    BY <1>1, <1>2, <1>33, <2>1, <2>2 DEF ProviderOnly
  <2>4. ~stored[r] => g.expected
    BY <1>33 DEF CanCommit
  <2>5. receipt.status = "processing" /\ wk[w].outs[r].status # "holding"
    <3>1. wk[w] \in CallState /\ wk[w].i \in DOMAIN Order
      BY <1>7, <1>33
    <3>2. wk[w].i \in Nat /\ r = Order[wk[w].i]
      BY <3>1 DEF CallState, Current
    <3>3. /\ receipt.status = "processing"
          /\ wk[w].outs[Order[wk[w].i]].status = "holding" => wk[w].i < wk[w].i
      BY <1>8, <2>1, <3>1
    <3> HIDE DEF r
    <3> QED BY <3>2, <3>3
  <2>6. receipt.outcome[r].status # "holding"
    BY <1>2, <2>1, <2>5 DEF ValidReceipt
  <2>7. Justified(receipt.outcome, receipt.progress, stored, wrote)
        /\ Justified(wk[w].outs, wk[w].prog, stored, wrote)
    BY DEF SafetyInv, AttributionInv
  <2>8. ASSUME NEW o \in Outcome, Told(o, g, own[r], wrote[r], provAudited[r]),
               o.status # "holding", Successful(o) => stored[r]
        PROVE  Told(o, g, own[r], wrote'[r], provAudited'[r])
    <3>1. CASE stored[r]
      <4>1. wrote'[r] = wrote[r]
        BY <1>1, <2>1, <2>2, <3>1
      <4> HIDE DEF g, r
      <4> QED BY <2>2, <2>8, <4>1 DEF Told
    <3>2. CASE ~stored[r]
      <4>1. g.expected /\ g.phase = "intent" /\ ~Successful(o) /\ ~o.locked
        BY <2>1, <2>4, <2>8, <3>2 DEF Told, Progress, Successful
      <4> HIDE DEF g, r
      <4> QED BY <2>1, <2>8, <4>1 DEF Told, Successful
    <3> QED BY <3>1, <3>2
  <2>9. Told(wk[w].outs[r], wk[w].prog[r], own[r], wrote'[r], provAudited'[r])
    BY <1>8, <2>1, <2>5, <2>7, <2>8 DEF Justified
  <2>10. Told(receipt.outcome[r], receipt.progress[r], own[r], wrote'[r], provAudited'[r])
    <3>1. receipt.outcome[r] \in Outcome /\ Tell(receipt.outcome[r], receipt.progress[r], r)
      BY <1>1, <1>2, <2>1 DEF Accounted
    <3> QED BY <2>1, <2>6, <2>7, <2>8, <3>1 DEF Justified
  <2> HIDE DEF g
  <2>11. Accounted(receipt.outcome, receipt.progress, own, wrote', provAudited')
    BY <1>2, <2>1, <2>2, <2>10, AccountedWrite
  <2>12. Accounted(wk[w].outs, wk[w].prog, own, wrote', provAudited')
    BY <1>8, <2>1, <2>2, <2>9, AccountedWrite
  <2>13. /\ s.pc = step /\ s.outs = wk[w].outs /\ s.prog = wk[w].prog /\ s.i = wk[w].i
         /\ s.err = e /\ RecordOf(s) = r /\ Goes(w, s)
    BY <1>33, <2>1 DEF MovesErr, Shape, RecordOf
  <2> HIDE DEF r
  <2>14. CallTold(s, receipt, own, stored', wrote', provAudited')
    BY <1>8, <1>33, <2>1, <2>2, <2>12, <2>13 DEF CallTold, SyncedSteps, IntentSteps
  <2>15. ReceiptTold(receipt, own, wrote', provAudited')
    BY <1>2, <2>11 DEF ReceiptTold
  <2> QED BY <2>3, <2>13, <2>14, <2>15, AccountFrame
<1>34. ASSUME NEW w \in Worker,
              ProviderCommits(w) \/ ProviderRefuses(w) \/ ProviderFails(w) \/ LeaseLost(w)
       PROVE  AccountInv'
  <2>1. ProviderOnly /\ Works(w, "calling")
    BY <1>34, ProviderEffect
  <2>2. \/ \E s : \E e \in {"error", "dependency", "leaseLost"} :
              CallOnly /\ MovesErr(w, s, "verify", e)
        \/ \E s : /\ CanCommit(Current(w), Prog(w))
                  /\ ProviderWrites(Current(w), TRUE)
                  /\ Moves(w, s, "commit")
        \/ \E s : \E audited \in BOOLEAN : \E e \in {"error", "leaseLost"} :
           \E step \in {"verify", "commit"} :
              /\ CanCommit(Current(w), Prog(w))
              /\ ProviderWrites(Current(w), audited)
              /\ MovesErr(w, s, step, e)
    BY <1>34, ProviderEffect
  <2>3. ASSUME NEW s, NEW e \in {"error", "dependency", "leaseLost"}, CallOnly,
               MovesErr(w, s, "verify", e)
        PROVE  AccountInv'
    <3>1. /\ RecordOf(wk[w]) = Current(w) /\ Running(wk[w])
          /\ Prog(w) = wk[w].prog[Current(w)] /\ Prog(w).phase # "none"
          /\ Prog(w).ready /\ Held(own[Current(w)])
          /\ (Prog(w).locked <=> own[Current(w)].state = "locked")
      BY <1>7, <2>1 DEF Running, CallTold, IntentSteps
    <3>2. /\ s.pc = "verify" /\ s.outs = wk[w].outs /\ s.prog = wk[w].prog /\ s.i = wk[w].i
          /\ s.err = e /\ RecordOf(s) = Current(w) /\ Goes(w, s)
      BY <2>3, <3>1 DEF MovesErr, Shape, RecordOf
    <3>3. Tells(s)
      BY <1>8, <3>1, <3>2 DEF CallTold, SyncedSteps, IntentSteps
    <3>4. ReceiptOnly /\ receipt' = receipt
      BY <2>3 DEF CallOnly, ReceiptOnly
    <3> QED BY <1>4, <3>2, <3>3, <3>4
  <2>4. ASSUME NEW s, CanCommit(Current(w), Prog(w)), ProviderWrites(Current(w), TRUE),
               Moves(w, s, "commit")
        PROVE  AccountInv'
    <3>1. MovesErr(w, s, "commit", wk[w].err)
      BY <2>4 DEF Moves, MovesErr
    <3> QED BY <1>33, <2>1, <2>4, <3>1
  <2>5. ASSUME NEW s, NEW audited \in BOOLEAN, NEW e \in {"error", "leaseLost"},
               NEW step \in {"verify", "commit"}, CanCommit(Current(w), Prog(w)),
               ProviderWrites(Current(w), audited), MovesErr(w, s, step, e)
        PROVE  AccountInv'
    BY <1>33, <2>1, <2>5
  <2> QED BY <2>2, <2>3, <2>4, <2>5
<1>35. ASSUME NEW w \in Worker, VerifyCommit(w) PROVE AccountInv'
  <2> DEFINE r == Current(w)
  <2>1. CallOnly /\ Works(w, "verify")
    BY <1>35, VerifyEffect
  <2>2. ReceiptOnly /\ receipt' = receipt
    BY <2>1 DEF CallOnly, ReceiptOnly
  <2>3. /\ r \in Record /\ RecordOf(wk[w]) = r /\ Running(wk[w])
        /\ Prog(w) = wk[w].prog[r] /\ Prog(w).phase # "none"
        /\ Prog(w).ready /\ Held(own[r]) /\ (Prog(w).locked <=> own[r].state = "locked")
        /\ wk[w].err # "none"
    BY <1>7, <2>1 DEF Running, CallTold, IntentSteps
  <2>4. ASSUME NEW s, NEW step \in {"commit", "compensate"}, Moves(w, s, step),
               step = "commit" => stored[r], step = "compensate" => ~stored[r]
        PROVE  AccountInv'
    <3>1. /\ s.pc = step /\ s.outs = wk[w].outs /\ s.prog = wk[w].prog /\ s.i = wk[w].i
          /\ s.err = wk[w].err /\ RecordOf(s) = r /\ Goes(w, s)
      BY <2>3, <2>4 DEF Moves, Shape, RecordOf
    <3> HIDE DEF r
    <3>2. Tells(s)
      BY <1>8, <2>3, <2>4, <3>1 DEF CallTold, SyncedSteps, IntentSteps
    <3> QED BY <1>4, <2>2, <3>1, <3>2
  <2>5. ASSUME NEW s, MovesWith(w, s, "fail", Prog(w)) PROVE AccountInv'
    <3>1. Tell(wk[w].outs[r], Prog(w), r)
      BY <1>8, <2>3
    <3> QED BY <1>9, <2>1, <2>2, <2>3, <2>5, <3>1
  <2>6. \/ Goes(w, IdleCall)
        \/ \E s : Moves(w, s, "commit") /\ stored[r]
        \/ \E s : Moves(w, s, "compensate") /\ ~stored[r]
        \/ \E s : MovesWith(w, s, "fail", Prog(w))
    BY <1>35, VerifyEffect
  <2> QED BY <1>5, <2>2, <2>4, <2>5, <2>6
<1>36. ASSUME NEW w \in Worker, CheckpointCommitted(w) PROVE AccountInv'
  <2> DEFINE r == Current(w)
             o == CommitOutcome(w)
             g == CommitProgress(w)
             outs == [wk[w].outs EXCEPT ![r] = o]
             prog == [wk[w].prog EXCEPT ![r] = g]
  <2>1. ReceiptOnly /\ Works(w, "commit") /\ o \in Outcome /\ g \in Progress
    BY <1>36, CommitEffect
  <2>2. /\ r \in Record /\ RecordOf(wk[w]) = r /\ Running(wk[w])
        /\ Prog(w) \in Progress /\ Prog(w) = wk[w].prog[r] /\ wk[w].outs[r] \in Outcome
        /\ wk[w].outs \in [Record -> Outcome] /\ wk[w].prog \in [Record -> Progress]
        /\ Prog(w).phase # "none" /\ Prog(w).ready /\ Held(own[r])
        /\ (Prog(w).locked <=> own[r].state = "locked")
        /\ (wk[w].err = "none" => provAudited[r])
    BY <1>7, <2>1 DEF Running, CallTold, IntentSteps
  <2>3. /\ g.phase = "committed" /\ g.expected = Prog(w).expected
        /\ g.ready = Prog(w).ready /\ g.locked = Prog(w).locked
        /\ o.status = IF Prog(w).expected THEN "created" ELSE "unchanged"
        /\ Successful(o)
    BY <2>2 DEF CommitProgress, CommitOutcome, Progress, Successful
  <2>4. Tell(wk[w].outs[r], Prog(w), r)
    BY <1>8, <2>2
  <2>5. wrote[r] => Prog(w).expected
    <3> DEFINE h == Prog(w)
               b == wk[w].outs[r]
    <3>1. /\ h.phase = "intent" => ~Successful(b)
          /\ h.phase = "committed" => b.status = IF h.expected THEN "created" ELSE "unchanged"
          /\ wrote[r] => b.status = "created" \/ (h.phase = "intent" /\ h.expected /\ h.ready)
      BY <2>4 DEF Told
    <3>2. h.phase \in {"intent", "committed"}
      BY <2>2 DEF Progress
    <3> HIDE DEF h, b
    <3>3. wrote[r] => h.expected
      BY <3>1, <3>2 DEF Successful
    <3> QED BY <3>3 DEF h
  <2> HIDE DEF o, g
  <2>6. Tell(o, g, r)
    BY <2>2, <2>3, <2>5 DEF Told
  <2>7. Counts(outs, prog)
    <3>1. Tell(o, g, r) /\ Counts(wk[w].outs, wk[w].prog)
      BY <1>8, <2>2, <2>6
    <3> HIDE DEF r
    <3> QED BY <2>2, <3>1, AccountedWith
  <2>8. outs \in [Record -> Outcome] /\ prog \in [Record -> Progress]
    BY <2>1, <2>2
  <2>9. outs[r] = o /\ \A q \in Record : q # r => outs[q] = wk[w].outs[q]
    BY <2>2
  <2>10. \E s : /\ Goes(w, s)
                /\ \/ /\ Accepted(w, "processing", SuccessfulOutcomes(outs), prog)
                      /\ Shape(s, IF wk[w].err = "none" THEN "clear" ELSE "fail",
                               outs, prog, wk[w].i, wk[w].reg, wk[w].err)
                   \/ /\ receipt' = receipt
                      /\ Shape(s, "fail", outs, prog, wk[w].i, wk[w].reg, wk[w].err)
    BY <1>36, CommitEffect DEF o, g
  <2> HIDE DEF outs, prog
  <2>11. \A j \in DOMAIN Order : outs[Order[j]].status = "holding" => j < wk[w].i
    <3> TAKE j \in DOMAIN Order
    <3>1. Order[j] \in Record
      BY OrderAssumption
    <3> QED BY <1>8, <2>2, <2>3, <2>9, <3>1 DEF Successful
  <2>12. \A q \in Record : Successful(wk[w].outs[q]) => Successful(outs[q])
    BY <2>3, <2>9
  <2>13. ASSUME NEW s, Goes(w, s), Accepted(w, "processing", SuccessfulOutcomes(outs), prog),
                Shape(s, IF wk[w].err = "none" THEN "clear" ELSE "fail",
                      outs, prog, wk[w].i, wk[w].reg, wk[w].err)
         PROVE  AccountInv'
    <3>1. /\ s.pc = (IF wk[w].err = "none" THEN "clear" ELSE "fail")
          /\ s.outs = outs /\ s.prog = prog /\ s.i = wk[w].i /\ RecordOf(s) = r
      BY <2>2, <2>13 DEF Shape, RecordOf
    <3>2. /\ receipt'.status = "processing" /\ receipt'.progress = prog
          /\ \A q \in Record : Successful(receipt'.outcome[q]) => Successful(outs[q])
      BY <1>14, <2>8, <2>13
    <3> HIDE DEF r
    <3>3. CallTold(s, receipt', own, stored, wrote, provAudited)
      BY <2>2, <2>3, <2>7, <2>9, <2>11, <3>1, <3>2
         DEF CallTold, SyncedSteps, IntentSteps
    <3> QED BY <1>13, <2>1, <2>2, <2>7, <2>8, <2>13, <3>3
  <2>14. ASSUME NEW s, Goes(w, s), receipt' = receipt,
                Shape(s, "fail", outs, prog, wk[w].i, wk[w].reg, wk[w].err)
         PROVE  AccountInv'
    <3>1. s.pc = "fail" /\ s.outs = outs /\ s.prog = prog /\ s.i = wk[w].i
      BY <2>14 DEF Shape
    <3>2. Tells(s)
      BY <1>8, <2>2, <2>7, <2>11, <2>12, <3>1 DEF CallTold, SyncedSteps, IntentSteps
    <3> QED BY <1>4, <2>1, <2>14, <3>2
  <2> QED BY <2>10, <2>13, <2>14
<1>37. ASSUME NEW w \in Worker, ClearIntent(w) PROVE AccountInv'
  <2> DEFINE r == Current(w)
             prog == [wk[w].prog EXCEPT ![r] = NoProgress]
  <2>1. ReceiptOnly /\ Works(w, "clear")
    BY <1>37, ClearEffect
  <2>2. /\ r \in Record /\ Running(wk[w])
        /\ wk[w].outs \in [Record -> Outcome] /\ wk[w].prog \in [Record -> Progress]
        /\ provAudited[r] /\ Successful(wk[w].outs[r]) /\ wk[w].i \in Nat
    BY <1>7, <2>1 DEF Running, CallTold, CallState
  <2>3. NoProgress \in Progress /\ NoProgress.phase = "none"
    BY ConstantsTyped DEF NoProgress
  <2>4. Tell(wk[w].outs[r], wk[w].prog[r], r)
    BY <1>8, <2>2
  <2>5. Tell(wk[w].outs[r], NoProgress, r)
    BY <2>2, <2>3, <2>4 DEF Told
  <2>6. Counts(wk[w].outs, prog) /\ prog \in [Record -> Progress]
    BY <1>8, <2>2, <2>3, <2>5, AccountedProgress
  <2>7. \/ \E s : /\ Accepted(w, "processing", SuccessfulOutcomes(wk[w].outs), prog)
                  /\ Goes(w, s)
                  /\ Shape(s, "record", wk[w].outs, prog, wk[w].i + 1, NoRegistration, "none")
        \/ \E s : receipt' = receipt /\ Moves(w, s, "fail")
    BY <1>37, ClearEffect
  <2> HIDE DEF prog
  <2>8. ASSUME NEW s, Accepted(w, "processing", SuccessfulOutcomes(wk[w].outs), prog), Goes(w, s),
               Shape(s, "record", wk[w].outs, prog, wk[w].i + 1, NoRegistration, "none")
        PROVE  AccountInv'
    <3>1. s.pc = "record" /\ s.outs = wk[w].outs /\ s.prog = prog /\ s.i = wk[w].i + 1
      BY <2>8 DEF Shape
    <3>2. /\ receipt'.status = "processing" /\ receipt'.progress = prog
          /\ \A q \in Record : Successful(receipt'.outcome[q]) => Successful(wk[w].outs[q])
      BY <1>14, <2>2, <2>8
    <3>3. \A j \in DOMAIN Order : s.outs[Order[j]].status = "holding" => j < s.i
      BY <1>8, <2>2, <3>1, OrderAssumption
    <3>4. CallTold(s, receipt', own, stored, wrote, provAudited)
      BY <2>6, <3>1, <3>2, <3>3 DEF CallTold, SyncedSteps, IntentSteps
    <3> QED BY <1>13, <2>1, <2>2, <2>6, <2>8, <3>4
  <2> QED BY <1>10, <2>1, <2>2, <2>7, <2>8
<1>38. ASSUME NEW w \in Worker, Compensate(w) PROVE AccountInv'
  <2> DEFINE r == Current(w)
  <2>1. OwnOnly /\ Works(w, "compensate")
    BY <1>38, CompensateEffect
  <2>2. /\ r \in Record /\ RecordOf(wk[w]) = r /\ Running(wk[w])
        /\ Prog(w) = wk[w].prog[r] /\ wk[w].outs[r] \in Outcome /\ ~stored[r]
        /\ wk[w].outs \in [Record -> Outcome] /\ wk[w].prog \in [Record -> Progress]
    BY <1>7, <2>1 DEF Running, CallTold
  <2>3. Justified(receipt.outcome, receipt.progress, stored, wrote)
        /\ Justified(wk[w].outs, wk[w].prog, stored, wrote)
    BY DEF SafetyInv, AttributionInv
  <2>4. ~wrote[r] /\ ~Successful(wk[w].outs[r]) /\ ~Successful(receipt.outcome[r])
    BY <1>2, <2>2, <2>3 DEF Justified
  <2>5. Tell(wk[w].outs[r], wk[w].prog[r], r)
    BY <1>8, <2>2
  <2>6. Tell(wk[w].outs[r], NoProgress, r)
    <3>1. NoProgress \in Progress /\ NoProgress.phase = "none" /\ ~wk[w].outs[r].locked
      BY <2>4, <2>5, ConstantsTyped DEF NoProgress, Told
    <3> QED BY <1>1, <2>2, <2>4, <3>1, ToldNothing
  <2>7. \/ \E s : \E step \in {"hold", "fail"} :
              Deleted(r, wk[w].reg) /\ MovesWith(w, s, step, NoProgress)
        \/ \E s : \E step \in {"hold", "fail"} : own' = own /\ MovesWith(w, s, step, NoProgress)
        \/ \E s : own' = own /\ MovesWith(w, s, "fail", Prog(w))
    BY <1>38, CompensateEffect
  <2>8. ASSUME NEW s, NEW step \in {"hold", "fail"}, Deleted(r, wk[w].reg),
               MovesWith(w, s, step, NoProgress)
        PROVE  AccountInv'
    BY <1>31, <2>1, <2>2, <2>4, <2>6, <2>8
  <2>9. own' = own => ReceiptOnly /\ receipt' = receipt
    BY <2>1 DEF OwnOnly, ReceiptOnly
  <2>10. ASSUME NEW s, own' = own, MovesWith(w, s, "fail", Prog(w)) PROVE AccountInv'
    BY <1>9, <2>1, <2>2, <2>5, <2>9, <2>10
  <2>11. ASSUME NEW s, NEW step \in {"hold", "fail"}, own' = own, MovesWith(w, s, step, NoProgress)
         PROVE  AccountInv'
    <3> DEFINE prog == [wk[w].prog EXCEPT ![r] = NoProgress]
    <3>1. Counts(wk[w].outs, prog)
      BY <1>8, <2>2, <2>6, AccountedProgress
    <3>2. /\ s.pc = step /\ s.outs = wk[w].outs /\ s.prog = prog /\ s.i = wk[w].i
          /\ RecordOf(s) = r /\ Goes(w, s)
      BY <2>2, <2>11 DEF MovesWith, Shape, RecordOf
    <3> HIDE DEF prog, r
    <3>3. Untouched(s, receipt, wrote)
      BY <2>4, <3>2 DEF Untouched
    <3>4. Tells(s)
      BY <1>8, <2>2, <2>11, <3>1, <3>2, <3>3 DEF CallTold, SyncedSteps, IntentSteps
    <3> QED BY <1>4, <2>9, <2>11, <3>2, <3>4
  <2> QED BY <2>7, <2>8, <2>10, <2>11
<1>39. ASSUME NEW w \in Worker, CheckpointHolding(w) PROVE AccountInv'
  <2> DEFINE r == Current(w)
             outs == [wk[w].outs EXCEPT ![r] = HoldingOutcome]
  <2>1. ReceiptOnly /\ Works(w, "hold")
    BY <1>39, HoldingEffect
  <2>2. /\ r \in Record /\ Running(wk[w]) /\ ~wrote[r]
        /\ ~Successful(wk[w].outs[r]) /\ ~Successful(receipt.outcome[r])
        /\ wk[w].outs \in [Record -> Outcome] /\ wk[w].prog \in [Record -> Progress]
        /\ wk[w].outs[r] \in Outcome /\ Prog(w) \in Progress /\ Prog(w) = wk[w].prog[r]
    BY <1>7, <1>22, <2>1
  <2>3. Prog(w).phase # "committed"
    <3>1. Tell(wk[w].outs[r], Prog(w), r)
      BY <1>8, <2>2
    <3> QED BY <2>2, <3>1 DEF Told, Successful
  <2>4. /\ Counts(outs, wk[w].prog)
        /\ \A j \in DOMAIN Order : outs[Order[j]].status = "holding" => j < wk[w].i + 1
        /\ \A q \in Record : q # r => outs[q] = wk[w].outs[q]
    BY <1>18, <2>1, <2>2, <2>3
  <2>5. \/ \E s : /\ Accepted(w, "processing", SuccessfulOutcomes(wk[w].outs), wk[w].prog)
                  /\ Goes(w, s)
                  /\ Shape(s, "record", outs, wk[w].prog, wk[w].i + 1, NoRegistration, "none")
        \/ \E s : receipt' = receipt /\ Moves(w, s, "fail")
    BY <1>39, HoldingEffect
  <2> HIDE DEF outs
  <2>6. ASSUME NEW s, Accepted(w, "processing", SuccessfulOutcomes(wk[w].outs), wk[w].prog),
               Goes(w, s),
               Shape(s, "record", outs, wk[w].prog, wk[w].i + 1, NoRegistration, "none")
        PROVE  AccountInv'
    <3>1. s.pc = "record" /\ s.outs = outs /\ s.prog = wk[w].prog /\ s.i = wk[w].i + 1
      BY <2>6 DEF Shape
    <3>2. /\ receipt'.status = "processing" /\ receipt'.progress = wk[w].prog
          /\ \A q \in Record : Successful(receipt'.outcome[q]) => Successful(wk[w].outs[q])
      BY <1>14, <2>2, <2>6
    <3>3. \A q \in Record : Successful(receipt'.outcome[q]) => Successful(outs[q])
      BY <2>2, <2>4, <3>2
    <3>4. CallTold(s, receipt', own, stored, wrote, provAudited)
      BY <2>4, <3>1, <3>2, <3>3 DEF CallTold, SyncedSteps, IntentSteps
    <3>5. Counts(wk[w].outs, wk[w].prog)
      BY <1>8, <2>2
    <3> QED BY <1>13, <2>1, <2>2, <2>6, <3>4, <3>5
  <2> QED BY <1>10, <2>1, <2>2, <2>5, <2>6
<1>40. ASSUME NEW w \in Worker, Complete(w) \/ FailImport(w) PROVE AccountInv'
  <2>1. ReceiptOnly /\ wk[w].pc \in {"record", "fail"}
    BY <1>40, TerminalEffect
  <2>2. Running(wk[w]) /\ wk[w].outs \in [Record -> Outcome] /\ wk[w].prog \in [Record -> Progress]
    BY <2>1, CallTyped DEF Running, CallState
  <2>3. \/ \E status \in {"completed", "holding", "failed"},
              outs \in {wk[w].outs, SuccessfulOutcomes(wk[w].outs)} : \E s :
              /\ Accepted(w, status, outs, wk[w].prog)
              /\ Goes(w, s) /\ s.pc = "report"
        \/ receipt' = receipt /\ Goes(w, IdleCall)
    BY <1>40, TerminalEffect DEF Shape
  <2>4. ASSUME NEW status \in {"completed", "holding", "failed"},
               NEW outs \in {wk[w].outs, SuccessfulOutcomes(wk[w].outs)}, NEW s,
               Accepted(w, status, outs, wk[w].prog), Goes(w, s), s.pc = "report"
        PROVE  AccountInv'
    <3>1. Counts(wk[w].outs, wk[w].prog)
      BY <1>8, <2>2
    <3>2. Counts(outs, wk[w].prog)
      BY <2>2, <3>1, SuccessfulAccounted
    <3>3. CallTold(s, receipt', own, stored, wrote, provAudited)
      BY <2>4 DEF CallTold, Running, SyncedSteps, IntentSteps
    <3> QED BY <1>6, <2>1, <2>4, <3>2, <3>3
  <2> QED BY <1>5, <2>1, <2>3, <2>4
<1>41. ASSUME NEW w \in Worker, Report(w) \/ Crash(w) PROVE AccountInv'
  BY <1>5, <1>41, LeaveEffect DEF CallOnly, ReceiptOnly
<1>42. ASSUME NEW w \in Worker, Work(w) PROVE AccountInv'
  BY <1>15, <1>16, <1>17, <1>19, <1>20, <1>21, <1>24, <1>26, <1>27, <1>28, <1>29, <1>30,
     <1>32, <1>34, <1>35, <1>36, <1>37, <1>38, <1>39, <1>40, <1>41, <1>42 DEF Work
<1>43. CASE \/ LeaseExpires
            \/ \E r \in Record : \/ ClaimOwnership(r) \/ AuditClaim(r)
                                 \/ ResolveDependency(r) \/ LoseDependency(r)
  <2>1. UNCHANGED <<receipt, own, stored, wrote, provAudited, claiming, wk>>
    BY <1>2, <1>43, EnvironmentEffect
  <2> QED BY <2>1 DEF AccountInv
<1>44. CASE UNCHANGED vars
  BY <1>44 DEF vars, AccountInv
<1> QED BY <1>11, <1>12, <1>41, <1>42, <1>43, <1>44 DEF Next

(* Every reachable state of an import whose calls do not overlap satisfies *)
(* it, whatever fails: two calls of one package can each write and each    *)
(* checkpoint, and a claim in the middle of a call changes what it told.   *)
THEOREM AccountInvariant ==
    ASSUME \A v, w \in Worker : v = w, "claim" \notin Faults
    PROVE  Spec => []AccountInv
BY AccountInit, AccountStep, TypeCorrect, SafetyInvariant, PTL DEF Spec

(* A record that this package wrote is never reported unchanged or holding, *)
(* not even after a crash between the provider's commit and the receipt.    *)
THEOREM AttributedWrites ==
    ASSUME \A v, w \in Worker : v = w, "claim" \notin Faults
    PROVE  Spec => []WritesAreAttributed
<1>1. AccountInv => WritesAreAttributed
  BY DEF AccountInv, ReceiptTold, Accounted, Told, WritesAreAttributed
<1> QED BY <1>1, AccountInvariant, PTL

(* A completed receipt leaves no creation without its provider audit event. *)
THEOREM CompletedWritesAreAudited ==
    ASSUME \A v, w \in Worker : v = w, "claim" \notin Faults
    PROVE  Spec => []CompletedIsAudited
<1>1. AccountInv => CompletedIsAudited
  BY DEF AccountInv, ReceiptTold, ValidReceipt, Accounted, Told, CompletedIsAudited
<1> QED BY <1>1, AccountInvariant, PTL

--------------------------------------------------------------------------------
(* No lock is forgotten, whatever fails: cl stands for the clean records,   *)
(* on whose locks Guard has not failed, no call has died and nobody has a   *)
(* claim.                                                                   *)

Clean == {r \in Record : marks[r] \subseteq {"stale"}}

(* A lock that a recovery state takes for the package's own can be undone   *)
(* from it: the state says so, and the lock is there or has been removed.   *)
Undoable(e) == e.state \in {"free", "locked"}

Recoverable(prog, ow, cl) ==
    \A r \in Record : r \in cl /\ prog[r].created =>
        prog[r].phase # "none" /\ prog[r].ready /\ prog[r].locked /\ Undoable(ow[r])

(* What a call in state s knows of the locks ow, when p is the receipt and  *)
(* st are the providers' records.                                           *)
CallFenced(s, p, ow, st, cl) ==
    LET r == RecordOf(s)
    IN  /\ Recoverable(s.prog, ow, cl)
        /\ s.pc = "resume" /\ s.at = p.at => s.prog = p.progress
        /\ s.pc \in {"regAudit", "rollback"} => s.reg.created
        /\ s.reg.created => s.reg.locked
        /\ s.i \in DOMAIN Order /\ r \in cl =>
              /\ s.pc \in IntentSteps => s.prog[r].phase # "none"
              /\ s.pc = "intent" => ~s.prog[r].created
              /\ s.pc = "clear" => st[r]
              /\ s.reg.created => Undoable(ow[r])
              /\ s.pc = "ownership" /\ ~s.reg.created /\ ~s.reg.locked =>
                    ow[r].state = "claimed"
              /\ s.pc = "cleanup" /\ ~s.reg.created => ~s.prog[r].created

(* The call in state s has registered the lock e of record r and will       *)
(* checkpoint it or delete it.                                              *)
Undoes(s, e, r) ==
    /\ s.pc \in {"regAudit", "rollback", "ownership", "cleanup"}
    /\ s.i \in DOMAIN Order /\ RecordOf(s) = r
    /\ s.reg.created /\ s.reg.stamp = e.stamp

(* A running call with the token of receipt p has not forgotten the lock.   *)
Remembers(s, p, r) == Running(s) /\ s.at = p.at => s.prog[r].created

(* The package has locked a clean record, and the provider does not hold it. *)
Fenced(r, ow, st, cl) == r \in cl /\ ow[r].state = "locked" /\ ow[r].stamp > 0 /\ ~st[r]

Covered(r, calls, p, e) ==
    \/ \E w \in Worker : Undoes(calls[w], e, r)
    \/ p.progress[r].created /\ \A w \in Worker : Remembers(calls[w], p, r)

FenceOf(cl) ==
    /\ claiming \cap cl = {}
    /\ Recoverable(receipt.progress, own, cl)
    /\ receipt.status = "absent" => \A r \in Record : r \in cl => ~receipt.progress[r].created
    /\ \A w \in Worker : CallFenced(wk[w], receipt, own, stored, cl)
    /\ \A r \in Record : Fenced(r, own, stored, cl) => Covered(r, wk, receipt, own[r])

FenceInv == FenceOf(Clean)

(* Locks come and go, claimed and foreign entries stay. *)
EntriesSettle(old, new, cl) ==
    \A r \in Record : r \in cl =>
                      /\ Undoable(old[r]) => Undoable(new[r])
                      /\ old[r].state = "claimed" => new[r].state = "claimed"

LEMMA RecoverableSettles ==
    ASSUME NEW cl, NEW old, NEW new, EntriesSettle(old, new, cl), NEW prog, Recoverable(prog, old, cl)
    PROVE  Recoverable(prog, new, cl)
BY DEF EntriesSettle, Recoverable

(* A recovery state with another entry for one record. *)
LEMMA RecoverableWith ==
    ASSUME NEW cl, NEW prog \in [Record -> Progress], NEW ow, Recoverable(prog, ow, cl),
           NEW r \in Record, NEW g,
           r \in cl /\ g.created => g.phase # "none" /\ g.ready /\ g.locked /\ Undoable(ow[r])
    PROVE  Recoverable([prog EXCEPT ![r] = g], ow, cl)
<1> SUFFICES ASSUME NEW q \in Record, q \in cl, [prog EXCEPT ![r] = g][q].created
             PROVE  LET h == [prog EXCEPT ![r] = g][q]
                    IN  h.phase # "none" /\ h.ready /\ h.locked /\ Undoable(ow[q])
  BY DEF Recoverable
<1>1. CASE q = r
  <2>1. [prog EXCEPT ![r] = g][q] = g
    BY <1>1
  <2> QED BY <1>1, <2>1
<1>2. CASE q # r
  <2>1. [prog EXCEPT ![r] = g][q] = prog[q]
    BY <1>2
  <2> QED BY <2>1 DEF Recoverable
<1> QED BY <1>1, <1>2

(* What a call knows of its record does not change when other calls act. *)
LEMMA CallFencedKept ==
    ASSUME NEW cl, NEW s \in CallState, NEW p, NEW q, NEW old, NEW new, NEW st, NEW st2,
           CallFenced(s, p, old, st, cl), EntriesSettle(old, new, cl),
           \A r \in Record : st[r] => st2[r],
           s.pc = "resume" /\ s.at = q.at => s.prog = q.progress
    PROVE  CallFenced(s, q, new, st2, cl)
<1>1. Recoverable(s.prog, new, cl)
  BY RecoverableSettles DEF CallFenced
<1>2. s.i \in DOMAIN Order => RecordOf(s) \in Record
  BY OrderAssumption DEF RecordOf
<1> QED BY <1>1, <1>2 DEF CallFenced, EntriesSettle

LEMMA FenceInit == Init => FenceInv
<1> SUFFICES ASSUME NEW cl, Init PROVE FenceOf(cl)
  BY DEF FenceInv
<1>1. /\ claiming = {} /\ receipt = AbsentReceipt /\ \A w \in Worker : wk[w] = IdleCall
      /\ \A r \in Record : own[r].stamp = 0
  BY DEF Init
<1>2. \A r \in Record : ~receipt.progress[r].created
  BY <1>1 DEF AbsentReceipt, NoProgress
<1>3. CallFenced(IdleCall, receipt, own, stored, cl)
  BY DEF CallFenced, IdleCall, IntentSteps, Recoverable, NoProgress, NoRegistration
<1> QED BY <1>1, <1>2, <1>3 DEF FenceOf, Recoverable, Fenced

(* A step that leaves the receipt alone: call w, in state s afterwards,     *)
(* covers what it covered, or has just taken the lock.                      *)
LEMMA FenceQuiet ==
    ASSUME NEW cl, TypeOK, FenceOf(cl), NEW w \in Worker, NEW s, Goes(w, s), receipt' = receipt,
           claiming' = claiming, EntriesSettle(own, own', cl),
           \A r \in Record : stored[r] => stored'[r],
           CallFenced(s, receipt, own', stored', cl),
           \A r \in Record : Fenced(r, own', stored', cl) =>
              \/ Undoes(s, own'[r], r)
              \/ /\ own'[r] = own[r]
                 /\ ~Undoes(wk[w], own[r], r)
                 /\ Running(s) /\ s.at = receipt.at =>
                       Running(wk[w]) /\ wk[w].at = s.at /\ (wk[w].prog[r].created => s.prog[r].created)
    PROVE  FenceOf(cl)'
<1>1. /\ \A v \in Worker : v # w => wk'[v] = wk[v]
      /\ wk'[w] = s
      /\ \A v \in Worker : wk[v] \in CallState
  BY DEF Goes, TypeOK
<1>2. Recoverable(receipt'.progress, own', cl)
  BY RecoverableSettles DEF FenceOf
<1>3. ASSUME NEW v \in Worker PROVE CallFenced(wk'[v], receipt', own', stored', cl)
  <2>1. CASE v = w
    BY <1>1, <2>1
  <2>2. CASE v # w
    <3>1. CallFenced(wk[v], receipt, own, stored, cl)
      BY DEF FenceOf
    <3>2. wk[v].pc = "resume" /\ wk[v].at = receipt.at => wk[v].prog = receipt.progress
      BY <3>1 DEF CallFenced
    <3>3. CallFenced(wk[v], receipt, own', stored', cl)
      BY <1>1, <3>1, <3>2, CallFencedKept
    <3> QED BY <1>1, <2>2, <3>3
  <2> QED BY <2>1, <2>2
<1>4. ASSUME NEW r \in Record, Fenced(r, own', stored', cl)
      PROVE  Covered(r, wk', receipt', own'[r])
  <2>1. CASE Undoes(s, own'[r], r)
    BY <1>1, <2>1 DEF Covered
  <2>2. CASE ~Undoes(s, own'[r], r)
    <3>1. /\ own'[r] = own[r] /\ ~Undoes(wk[w], own[r], r)
          /\ Running(s) /\ s.at = receipt.at =>
                Running(wk[w]) /\ wk[w].at = s.at /\ (wk[w].prog[r].created => s.prog[r].created)
      BY <1>4, <2>2
    <3>2. Fenced(r, own, stored, cl)
      BY <1>4, <3>1 DEF Fenced
    <3>3. Covered(r, wk, receipt, own[r])
      BY <3>2 DEF FenceOf
    <3>4. CASE \E v \in Worker : Undoes(wk[v], own[r], r)
      <4>1. PICK v \in Worker : Undoes(wk[v], own[r], r)
        BY <3>4
      <4>2. wk'[v] = wk[v]
        BY <1>1, <3>1, <4>1
      <4> QED BY <3>1, <4>1, <4>2 DEF Covered
    <3>5. CASE receipt.progress[r].created /\ \A v \in Worker : Remembers(wk[v], receipt, r)
      <4>1. ASSUME NEW v \in Worker PROVE Remembers(wk'[v], receipt, r)
        <5>1. CASE v = w
          BY <1>1, <3>1, <3>5, <5>1 DEF Remembers
        <5>2. CASE v # w
          BY <1>1, <3>5, <5>2
        <5> QED BY <5>1, <5>2
      <4> QED BY <3>5, <4>1 DEF Covered
    <3> QED BY <3>3, <3>4, <3>5 DEF Covered
  <2> QED BY <2>1, <2>2
<1> QED BY <1>2, <1>3, <1>4 DEF FenceOf

(* A step that writes the receipt: nobody else has its token, and the call  *)
(* has put into it every lock that it or the receipt knew of.               *)
LEMMA FenceWrite ==
    ASSUME NEW cl, TypeOK, TypeOK', LeaseInv, FenceOf(cl), NEW w \in Worker, NEW s, Goes(w, s), ReceiptOnly,
           receipt'.at > receipt.at, receipt'.status # "absent",
           Recoverable(receipt'.progress, own, cl),
           CallFenced(s, receipt', own, stored, cl),
           \A r \in Record :
              /\ r \in cl /\ ~stored[r]
              /\ \/ Undoes(wk[w], own[r], r)
                 \/ receipt.progress[r].created /\ Remembers(wk[w], receipt, r)
              => receipt'.progress[r].created /\ (Running(s) => s.prog[r].created)
    PROVE  FenceOf(cl)'
<1>1. /\ \A v \in Worker : v # w => wk'[v] = wk[v]
      /\ wk'[w] = s /\ s \in CallState
      /\ \A v \in Worker : wk[v] \in CallState
      /\ UNCHANGED <<own, stored, claiming>>
  BY DEF Goes, TypeOK, ReceiptOnly
<1>2. \A v \in Worker : wk[v].at < receipt'.at
  <2>1. \A v \in Worker : wk[v].at <= receipt.at
    BY DEF LeaseInv
  <2>2. receipt.at \in Nat /\ receipt'.at \in Nat /\ \A v \in Worker : wk[v].at \in Nat
    BY <1>1 DEF TypeOK, Receipt, CallState
  <2> QED BY <2>1, <2>2
<1>3. \A v \in Worker : wk[v].at # receipt'.at
  <2>1. receipt'.at \in Nat /\ \A v \in Worker : wk[v].at \in Nat
    BY <1>1 DEF TypeOK, Receipt, CallState
  <2> QED BY <1>2, <2>1
<1>4. ASSUME NEW v \in Worker PROVE CallFenced(wk'[v], receipt', own', stored', cl)
  <2>1. CASE v = w
    BY <1>1, <2>1
  <2>2. CASE v # w
    <3>1. CallFenced(wk[v], receipt, own, stored, cl)
      BY DEF FenceOf
    <3>2. CallFenced(wk[v], receipt', own, stored, cl)
      BY <1>3, <3>1 DEF CallFenced
    <3> QED BY <1>1, <2>2, <3>2
  <2> QED BY <2>1, <2>2
<1>5. ASSUME NEW r \in Record, Fenced(r, own, stored, cl)
      PROVE  Covered(r, wk', receipt', own[r])
  <2>1. Covered(r, wk, receipt, own[r]) /\ ~stored[r] /\ r \in cl
    BY <1>5 DEF FenceOf, Fenced
  <2>2. CASE \E v \in Worker : v # w /\ Undoes(wk[v], own[r], r)
    BY <1>1, <2>2 DEF Covered
  <2>3. CASE ~\E v \in Worker : v # w /\ Undoes(wk[v], own[r], r)
    <3>1. receipt'.progress[r].created /\ (Running(s) => s.prog[r].created)
      BY <1>5, <2>1, <2>3 DEF Covered
    <3>2. ASSUME NEW v \in Worker PROVE Remembers(wk'[v], receipt', r)
      <4>1. CASE v = w
        BY <1>1, <3>1, <4>1 DEF Remembers
      <4>2. CASE v # w
        BY <1>1, <1>3, <4>2 DEF Remembers
      <4> QED BY <4>1, <4>2
    <3> QED BY <3>1, <3>2 DEF Covered
  <2> QED BY <2>2, <2>3
<1> QED BY <1>1, <1>4, <1>5 DEF FenceOf

(* A call that goes on to a step at which it need not know its lock. *)
LEMMA FencedElsewhere ==
    ASSUME NEW cl, NEW c, NEW s, NEW p, NEW ow, NEW st, CallFenced(c, p, ow, st, cl),
           Recoverable(s.prog, ow, cl),
           (s.reg = c.reg /\ s.i = c.i) \/ s.reg = NoRegistration,
           s.pc \notin {"resume", "regAudit", "rollback", "intent", "clear", "ownership", "cleanup"},
           s.pc \in IntentSteps /\ RecordOf(s) \in cl => s.prog[RecordOf(s)].phase # "none"
    PROVE  CallFenced(s, p, ow, st, cl)
<1>1. CASE s.reg = c.reg /\ s.i = c.i
  BY <1>1 DEF CallFenced, RecordOf
<1>2. CASE s.reg = NoRegistration
  BY <1>2 DEF CallFenced, NoRegistration
<1> QED BY <1>1, <1>2

LEMMA IdleFenced ==
    ASSUME NEW cl, NEW p, NEW ow, NEW st
    PROVE  CallFenced(IdleCall, p, ow, st, cl)
BY DEF CallFenced, IdleCall, IntentSteps, Recoverable, NoProgress, NoRegistration

(* Nothing befalls the locks of the records cl. *)
Spared(cl) == \A r \in Record : r \in cl => marks'[r] \subseteq {"stale"}

(* A step that leaves the records cl clean keeps it for them. *)
LEMMA FenceStep ==
    ASSUME NEW cl, TypeOK, TypeOK', SafetyInv, FenceOf(cl), [Next]_vars,
           Spared(cl)
    PROVE  FenceOf(cl)'
<1>0. \A r \in Record : "guard" \in marks'[r] \/ "crash" \in marks'[r] \/ "claim" \in marks'[r] =>
         r \notin cl
  BY DEF Spared
<1>1. LeaseInv /\ AttributionInv /\ EntriesSettle(own, own, cl)
  BY DEF SafetyInv, EntriesSettle
<1>2. /\ claiming \cap cl = {} /\ Recoverable(receipt.progress, own, cl)
      /\ receipt.status = "absent" => \A r \in Record : r \in cl => ~receipt.progress[r].created
      /\ \A v \in Worker : CallFenced(wk[v], receipt, own, stored, cl) /\ Recoverable(wk[v].prog, own, cl)
  BY DEF FenceOf, CallFenced
<1>3. ASSUME NEW w \in Worker, NEW step, Works(w, step)
      PROVE  /\ Current(w) \in Record /\ wk[w].i \in DOMAIN Order
             /\ RecordOf(wk[w]) = Current(w) /\ Prog(w) = wk[w].prog[Current(w)]
             /\ wk[w].prog \in [Record -> Progress] /\ Prog(w) \in Progress
             /\ wk[w].pc = step /\ wk[w].reg \in Registration
             /\ Current(w) \in cl /\ Prog(w).created =>
                   Prog(w).phase # "none" /\ Prog(w).ready /\ Prog(w).locked /\ Undoable(own[Current(w)])
  <2>1. /\ Current(w) \in Record /\ wk[w].i \in DOMAIN Order
        /\ RecordOf(wk[w]) = Current(w) /\ Prog(w) = wk[w].prog[Current(w)]
        /\ wk[w].prog \in [Record -> Progress] /\ Prog(w) \in Progress
        /\ wk[w].pc = step /\ wk[w].reg \in Registration
    BY <1>3 DEF Works, Prog, CallState, RecordOf, Current
  <2> QED BY <1>2, <2>1 DEF Recoverable
\* a step that leaves receipt and entries alone, and forgets no lock
<1>4. ASSUME NEW w \in Worker, NEW s, Goes(w, s), ProviderOnly,
             \A r \in Record : stored[r] => stored'[r],
             CallFenced(s, receipt, own, stored', cl),
             Running(s) => Running(wk[w]) /\ s.at = wk[w].at,
             \A r \in Record : r \in cl /\ Running(s) /\ wk[w].prog[r].created => s.prog[r].created,
             \A r \in Record : Fenced(r, own, stored, cl) /\ Undoes(wk[w], own[r], r) => Undoes(s, own[r], r)
      PROVE  FenceOf(cl)'
  <2>1. UNCHANGED <<receipt, own, claiming>>
    BY <1>4 DEF ProviderOnly
  <2>2. ASSUME NEW r \in Record, Fenced(r, own', stored', cl)
        PROVE  \/ Undoes(s, own'[r], r)
               \/ /\ own'[r] = own[r]
                  /\ ~Undoes(wk[w], own[r], r)
                  /\ Running(s) /\ s.at = receipt.at =>
                        Running(wk[w]) /\ wk[w].at = s.at /\ (wk[w].prog[r].created => s.prog[r].created)
    <3>1. Fenced(r, own, stored, cl) /\ r \in cl
      BY <1>4, <2>1, <2>2 DEF Fenced
    <3> QED BY <1>4, <2>1, <3>1
  <2>3. EntriesSettle(own, own', cl) /\ CallFenced(s, receipt, own', stored', cl)
    BY <1>1, <1>4, <2>1
  <2> QED BY <1>4, <2>1, <2>2, <2>3, FenceQuiet
<1>5. CallOnly => ProviderOnly /\ stored' = stored
  BY DEF CallOnly, ProviderOnly
<1>6. ASSUME NEW w \in Worker, Goes(w, IdleCall), CallOnly,
             \/ wk[w].pc \notin {"regAudit", "rollback", "ownership", "cleanup"}
             \/ Current(w) \in Record => Current(w) \notin cl
      PROVE  FenceOf(cl)'
  <2>1. ~Running(IdleCall) /\ CallFenced(IdleCall, receipt, own, stored, cl)
        /\ \A r \in Record : Fenced(r, own, stored, cl) => ~Undoes(wk[w], own[r], r)
    BY <1>6, IdleFenced DEF Running, IdleCall, Undoes, Fenced, RecordOf, Current
  <2> QED BY <1>4, <1>5, <1>6, <2>1
\* a call that only moves
<1>7. ASSUME NEW w \in Worker, NEW s, NEW step, Moves(w, s, step), CallOnly, Running(wk[w]),
             wk[w].pc \notin {"regAudit", "rollback", "ownership", "cleanup"},
             step \notin {"resume", "regAudit", "rollback", "intent", "clear", "ownership", "cleanup"},
             step \in IntentSteps /\ RecordOf(wk[w]) \in cl => wk[w].prog[RecordOf(wk[w])].phase # "none"
      PROVE  FenceOf(cl)'
  <2>1. /\ Goes(w, s) /\ s.at = wk[w].at /\ s.pc = step /\ s.prog = wk[w].prog
        /\ s.i = wk[w].i /\ s.reg = wk[w].reg /\ RecordOf(s) = RecordOf(wk[w])
    BY <1>7 DEF Moves, Shape, RecordOf
  <2>2. CallFenced(s, receipt, own, stored, cl)
    BY <1>2, <1>7, <2>1, FencedElsewhere
  <2>3. \A r \in Record : ~Undoes(wk[w], own[r], r)
    BY <1>7 DEF Undoes
  <2> QED BY <1>4, <1>5, <1>7, <2>1, <2>2, <2>3
\* a call that gives up its record, with recovery state g
<1>8. ASSUME NEW w \in Worker, NEW s, NEW step, NEW g, NEW st, MovesWith(w, s, st, g), CallOnly,
             Works(w, step), Running(wk[w]), st \in {"fail", "hold"},
             Current(w) \in cl /\ g.created =>
                g.phase # "none" /\ g.ready /\ g.locked /\ Undoable(own[Current(w)]),
             Current(w) \in cl /\ Prog(w).created => g.created,
             \A r \in Record : Fenced(r, own, stored, cl) => ~Undoes(wk[w], own[r], r)
      PROVE  FenceOf(cl)'
  <2>1. /\ Goes(w, s) /\ s.at = wk[w].at /\ s.pc = st
        /\ s.prog = [wk[w].prog EXCEPT ![Current(w)] = g]
        /\ s.i = wk[w].i /\ s.reg = wk[w].reg
    BY <1>8 DEF MovesWith, Shape
  <2>2. Recoverable(s.prog, own, cl)
    BY <1>2, <1>3, <1>8, <2>1, RecoverableWith
  <2>3. CallFenced(s, receipt, own, stored, cl)
    BY <1>2, <1>8, <2>1, <2>2, FencedElsewhere DEF IntentSteps
  <2>4. \A r \in Record : r \in cl /\ wk[w].prog[r].created => s.prog[r].created
    BY <1>3, <1>8, <2>1
  <2> QED BY <1>4, <1>5, <1>8, <2>1, <2>3, <2>4
\* an accepted receipt, after which the call goes on with recovery state prog
<1>9. ASSUME NEW w \in Worker, NEW status, NEW outs, NEW prog, Accepted(w, status, outs, prog)
      PROVE  /\ receipt'.at > receipt.at /\ receipt'.progress = prog /\ receipt'.status = status
             /\ receipt.at = wk[w].at
             /\ CallFenced(wk[w], receipt', own, stored, cl)
  <2>1. receipt.at \in Nat /\ receipt.at = wk[w].at /\ receipt'.at = receipt.at + 1
    BY <1>9 DEF Accepted, TypeOK, Receipt
  <2>2. CallFenced(wk[w], receipt, own, stored, cl) /\ wk[w].at # receipt'.at
    BY <1>2, <2>1
  <2> QED BY <1>9, <2>1, <2>2 DEF Accepted, CallFenced
<1>10. ASSUME NEW w \in Worker, NEW s, NEW status, NEW outs, NEW prog, Goes(w, s), ReceiptOnly,
              Accepted(w, status, outs, prog), status # "absent",
              Recoverable(prog, own, cl), CallFenced(s, receipt', own, stored, cl), s.prog = prog,
              \A r \in Record :
                 r \in cl /\ ~stored[r] /\ (Undoes(wk[w], own[r], r)
                                \/ (receipt.progress[r].created /\ Remembers(wk[w], receipt, r)))
                 => prog[r].created
       PROVE  FenceOf(cl)'
  BY <1>1, <1>9, <1>10, FenceWrite
<1>11. ASSUME NEW w \in Worker, NEW s, NEW status, NEW outs, NEW prog, Goes(w, s), ReceiptOnly,
              Accepted(w, status, outs, prog), status # "absent", Running(wk[w]),
              wk[w].pc \notin {"regAudit", "rollback", "ownership", "cleanup"},
              Recoverable(prog, own, cl), s.prog = prog,
              (s.reg = wk[w].reg /\ s.i = wk[w].i) \/ s.reg = NoRegistration,
              s.pc \notin {"resume", "regAudit", "rollback", "intent", "clear", "ownership", "cleanup"},
              s.pc \in IntentSteps /\ RecordOf(s) \in cl => s.prog[RecordOf(s)].phase # "none",
              \A r \in Record : r \in cl /\ ~stored[r] /\ wk[w].prog[r].created => prog[r].created
       PROVE  FenceOf(cl)'
  <2>1. CallFenced(s, receipt', own, stored, cl)
    BY <1>9, <1>11, FencedElsewhere
  <2>2. ASSUME NEW r \in Record, r \in cl, ~stored[r],
               Undoes(wk[w], own[r], r)
               \/ (receipt.progress[r].created /\ Remembers(wk[w], receipt, r))
        PROVE  prog[r].created
    <3>1. ~Undoes(wk[w], own[r], r) /\ wk[w].at = receipt.at
      BY <1>9, <1>11 DEF Undoes
    <3> QED BY <1>11, <2>2, <3>1 DEF Remembers
  <2> QED BY <1>10, <1>11, <2>1, <2>2
<1>12. ASSUME NEW w \in Worker, Start(w) PROVE FenceOf(cl)'
  <2>1. CASE Reserve(w)
    <3>1. PICK s : /\ Goes(w, s) /\ s.pc = "preflight" /\ s.reg = NoRegistration
                   /\ s.prog = [r \in Record |-> NoProgress]
      BY <2>1, ReserveEffect DEF Shape
    <3>2. /\ ReceiptOnly /\ receipt.status = "absent"
          /\ receipt' = [receipt EXCEPT !.status = "processing", !.at = 1]
      BY <2>1, ReserveEffect
    <3>3. /\ receipt'.at = 1 /\ receipt'.status = "processing"
          /\ receipt'.progress = receipt.progress
      BY <3>2 DEF TypeOK, Receipt
    <3>4. receipt.at = 0
      BY <1>1, <3>2 DEF LeaseInv
    <3>5. Recoverable(s.prog, own, cl)
      BY <3>1 DEF Recoverable, NoProgress
    <3>6. CallFenced(IdleCall, receipt', own, stored, cl)
      BY IdleFenced
    <3>7. CallFenced(s, receipt', own, stored, cl)
      BY <3>1, <3>5, <3>6, FencedElsewhere DEF IntentSteps
    <3>8. \A r \in Record : ~Undoes(wk[w], own[r], r) /\ (r \in cl => ~receipt.progress[r].created)
      BY <1>2, <2>1, <3>2 DEF Reserve, At, Undoes
    <3> QED BY <1>1, <1>2, <3>1, <3>2, <3>3, <3>4, <3>7, <3>8, FenceWrite
  <2>2. CASE Replay(w)
    BY <2>2 DEF Replay, FenceOf, providerVars
  <2>3. CASE ReadReceipt(w)
    <3>1. PICK s : /\ Goes(w, s) /\ s.pc = "resume" /\ s.reg = NoRegistration
                   /\ s.prog = receipt.progress
      BY <2>3, ReadEffect DEF Shape
    <3>2. CallOnly /\ wk[w].pc = "idle"
      BY <2>3, ReadEffect DEF ReadReceipt, At
    <3>3. CallFenced(s, receipt, own, stored, cl)
      BY <1>2, <3>1 DEF CallFenced, NoRegistration, IntentSteps
    <3>4. ~Running(s) /\ \A r \in Record : ~Undoes(wk[w], own[r], r)
      BY <3>1, <3>2 DEF Running, Undoes
    <3> QED BY <1>4, <1>5, <3>1, <3>2, <3>3, <3>4
  <2> QED BY <1>12, <2>1, <2>2, <2>3 DEF Start
<1>13. ASSUME NEW w \in Worker, Resume(w) PROVE FenceOf(cl)'
  <2>1. CASE receipt' = receipt /\ Goes(w, IdleCall)
    <3>1. CallOnly /\ wk[w].pc = "resume"
      BY <1>13, <2>1, ResumeEffect DEF ReceiptOnly, CallOnly
    <3> QED BY <1>6, <2>1, <3>1
  <2>2. CASE Accepted(w, "processing", SuccessfulOutcomes(wk[w].outs), wk[w].prog)
    <3>1. PICK s : /\ Goes(w, s) /\ s.pc = "preflight" /\ s.prog = wk[w].prog
                   /\ s.i = wk[w].i /\ s.reg = wk[w].reg
      <4>1. receipt' # receipt
        BY <1>9, <2>2 DEF TypeOK, Receipt
      <4> QED BY <1>13, <4>1, ResumeEffect DEF Shape
    <3>2. ReceiptOnly /\ wk[w].pc = "resume"
      BY <1>13, ResumeEffect
    <3>3. CallFenced(s, receipt', own, stored, cl)
      BY <1>2, <1>9, <2>2, <3>1, FencedElsewhere DEF IntentSteps
    <3>4. wk[w].prog = receipt.progress
      BY <1>2, <1>9, <2>2, <3>2 DEF CallFenced
    <3>5. \A r \in Record : ~Undoes(wk[w], own[r], r)
      BY <3>2 DEF Undoes
    <3> QED BY <1>2, <1>10, <2>2, <3>1, <3>2, <3>3, <3>4, <3>5
  <2> QED BY <1>13, <2>1, <2>2, ResumeEffect
<1>14. ASSUME NEW w \in Worker, Preflight(w) PROVE FenceOf(cl)'
  <2>1. CallOnly /\ Running(wk[w]) /\ wk[w].pc = "preflight"
    BY <1>14, PreflightEffect DEF Running
  <2>2. PICK s : Moves(w, s, "record") \/ Moves(w, s, "fail")
    BY <1>14, PreflightEffect
  <2> QED BY <1>7, <2>1, <2>2 DEF IntentSteps
\* the loop goes on with the next record
<1>15. ASSUME NEW w \in Worker, NEW s, Goes(w, s), CallOnly, wk[w].pc = "record",
              s.at = wk[w].at, s.pc = "record", s.prog = wk[w].prog, s.reg = NoRegistration
       PROVE  FenceOf(cl)'
  <2>1. CallFenced(s, receipt, own, stored, cl)
    BY <1>2, <1>15, FencedElsewhere DEF IntentSteps
  <2>2. Running(wk[w]) /\ \A r \in Record : ~Undoes(wk[w], own[r], r)
    BY <1>15 DEF Running, Undoes
  <2> QED BY <1>4, <1>5, <1>15, <2>1, <2>2
<1>16. ASSUME NEW w \in Worker, SkipRecord(w) \/ HoldRecord(w) PROVE FenceOf(cl)'
  <2>1. CallOnly /\ wk[w].pc = "record"
    BY <1>16, SkipEffect, HoldEffect DEF Works
  <2>2. PICK s : /\ Goes(w, s) /\ s.at = wk[w].at /\ s.pc = "record"
                 /\ s.prog = wk[w].prog /\ s.reg = NoRegistration
    BY <1>16, SkipEffect, HoldEffect DEF Shape
  <2> QED BY <1>15, <2>1, <2>2
<1>17. ASSUME NEW w \in Worker, ResumeRecord(w) PROVE FenceOf(cl)'
  <2>1. CallOnly /\ Works(w, "record") /\ Prog(w).phase # "none"
    BY <1>17, ResumeRecordEffect
  <2>2. PICK s : Moves(w, s, "register")
    BY <1>17, ResumeRecordEffect
  <2>3. Running(wk[w]) /\ wk[w].prog[RecordOf(wk[w])].phase # "none" /\ wk[w].pc = "record"
    BY <1>3, <2>1 DEF Running
  <2> QED BY <1>7, <2>1, <2>2, <2>3
<1>18. ASSUME NEW w \in Worker, InspectRecord(w) PROVE FenceOf(cl)'
  <2>1. CallOnly /\ Works(w, "record") /\ Prog(w).phase = "none"
    BY <1>18, InspectEffect
  <2>2. /\ Running(wk[w]) /\ (Current(w) \in cl => ~Prog(w).created) /\ ~NoProgress.created
        /\ \A r \in Record : ~Undoes(wk[w], own[r], r)
    BY <1>3, <2>1 DEF Running, NoProgress, Undoes
  <2>3. PICK s : \/ MovesWith(w, s, "intent", Intent(~stored[Current(w)]))
                 \/ MovesWith(w, s, "fail", NoProgress)
    BY <1>18, InspectEffect
  <2>4. CASE MovesWith(w, s, "fail", NoProgress)
    BY <1>8, <2>1, <2>2, <2>4
  <2>5. CASE MovesWith(w, s, "intent", Intent(~stored[Current(w)]))
    <3> DEFINE g == Intent(~stored[Current(w)])
    <3>1. ~g.created /\ g.phase = "intent"
      BY DEF Intent, NoProgress
    <3>2. /\ Goes(w, s) /\ s.at = wk[w].at /\ s.pc = "intent"
          /\ s.prog = [wk[w].prog EXCEPT ![Current(w)] = g]
          /\ s.i = wk[w].i /\ s.reg = wk[w].reg
      BY <2>5 DEF MovesWith, Shape
    <3> HIDE DEF g
    <3>3. Recoverable(s.prog, own, cl)
      BY <1>2, <1>3, <2>1, <3>1, <3>2, RecoverableWith
    <3>4. s.prog[Current(w)] = g /\ RecordOf(s) = Current(w)
      BY <1>3, <2>1, <3>2 DEF RecordOf, Current
    <3>5. CallFenced(wk[w], receipt, own, stored, cl) /\ RecordOf(wk[w]) = Current(w)
      BY <1>2, <1>3, <2>1
    <3>6. CallFenced(s, receipt, own, stored, cl)
      BY <3>1, <3>2, <3>3, <3>4, <3>5 DEF CallFenced
    <3>7. \A r \in Record : r \in cl /\ wk[w].prog[r].created => s.prog[r].created
      BY <1>3, <2>1, <2>2, <3>2
    <3> QED BY <1>4, <1>5, <2>1, <2>2, <3>2, <3>6, <3>7
  <2> QED BY <2>3, <2>4, <2>5
<1>19. ASSUME NEW w \in Worker, ReserveIntent(w) PROVE FenceOf(cl)'
  <2>1. ReceiptOnly /\ Works(w, "intent")
    BY <1>19, ReserveIntentEffect
  <2>2. /\ Running(wk[w]) /\ ~NoProgress.created
        /\ Current(w) \in cl => ~Prog(w).created /\ Prog(w).phase # "none"
        /\ wk[w].pc = "intent"
        /\ \A r \in Record : ~Undoes(wk[w], own[r], r)
    <3>1. CallFenced(wk[w], receipt, own, stored, cl)
      BY <1>2
    <3> QED BY <1>3, <2>1, <3>1 DEF Running, NoProgress, Undoes, CallFenced, IntentSteps
  <2>3. PICK s :
           \/ /\ Accepted(w, "processing", SuccessfulOutcomes(wk[w].outs), wk[w].prog)
              /\ Goes(w, s) /\ s.pc = "register" /\ s.prog = wk[w].prog
              /\ s.i = wk[w].i /\ s.reg = wk[w].reg
           \/ receipt' = receipt /\ MovesWith(w, s, "fail", NoProgress)
    BY <1>19, ReserveIntentEffect DEF Shape
  <2>4. CASE receipt' = receipt /\ MovesWith(w, s, "fail", NoProgress)
    <3>1. CallOnly
      BY <2>1, <2>4 DEF CallOnly, ReceiptOnly
    <3> QED BY <1>8, <2>1, <2>2, <2>4, <3>1
  <2>5. CASE /\ Accepted(w, "processing", SuccessfulOutcomes(wk[w].outs), wk[w].prog)
             /\ Goes(w, s) /\ s.pc = "register" /\ s.prog = wk[w].prog
             /\ s.i = wk[w].i /\ s.reg = wk[w].reg
    <3>1. RecordOf(s) \in cl => s.prog[RecordOf(s)].phase # "none"
      BY <1>3, <2>1, <2>2, <2>5 DEF RecordOf, Current
    <3> QED BY <1>2, <1>11, <2>1, <2>2, <2>5, <3>1
  <2> QED BY <2>3, <2>4, <2>5
<1>20. ASSUME NEW w \in Worker, RegisterOwnership(w) PROVE FenceOf(cl)'
  <2> DEFINE r == Current(w)
  <2>1. OwnOnly /\ Works(w, "register") /\ Running(wk[w])
    BY <1>20, RegisterEffect DEF Running, Works
  <2>2. /\ r \in Record /\ wk[w].i \in DOMAIN Order /\ RecordOf(wk[w]) = r
        /\ \A q \in Record : ~Undoes(wk[w], own[q], q)
        /\ r \in cl => wk[w].prog[r].phase # "none"
        /\ Recoverable(wk[w].prog, own, cl)
    <3>1. CallFenced(wk[w], receipt, own, stored, cl)
      BY <1>2
    <3> QED BY <1>3, <2>1, <3>1 DEF Undoes, CallFenced, IntentSteps
  <2>3. own \in [Record -> Ownership] /\ own[r] \in Ownership
    BY <2>2 DEF TypeOK
  <2>4. CASE \E s : /\ own[r].state = "free"
                    /\ own' = [own EXCEPT ![r] = [state |-> "locked", stamp |-> own[r].stamp + 1]]
                    /\ Goes(w, s) /\ s.at = wk[w].at
                    /\ Shape(s, "regAudit", wk[w].outs, wk[w].prog, wk[w].i,
                             [stamp |-> own[r].stamp + 1, locked |-> TRUE, created |-> TRUE],
                             wk[w].err)
    <3>1. PICK s : /\ own[r].state = "free"
                   /\ own' = [own EXCEPT ![r] = [state |-> "locked", stamp |-> own[r].stamp + 1]]
                   /\ Goes(w, s) /\ s.at = wk[w].at
                   /\ s.pc = "regAudit" /\ s.prog = wk[w].prog /\ s.i = wk[w].i
                   /\ s.reg = [stamp |-> own[r].stamp + 1, locked |-> TRUE, created |-> TRUE]
      BY <2>4 DEF Shape
    <3>2. /\ s.reg.stamp = own[r].stamp + 1 /\ s.reg.locked /\ s.reg.created
          /\ own'[r].state = "locked" /\ own'[r].stamp = own[r].stamp + 1
          /\ \A q \in Record : q # r => own'[q] = own[q]
          /\ RecordOf(s) = r
      BY <2>2, <2>3, <3>1 DEF RecordOf
    <3> HIDE DEF r
    <3>3. EntriesSettle(own, own', cl)
      BY <2>2, <3>1, <3>2 DEF EntriesSettle, Undoable
    <3>4. Recoverable(s.prog, own', cl)
      BY <2>2, <3>1, <3>3, RecoverableSettles
    <3>5. CallFenced(s, receipt, own', stored, cl)
      BY <2>2, <3>1, <3>2, <3>4 DEF CallFenced, Undoable
    <3>6. Undoes(s, own'[r], r)
      BY <2>2, <3>1, <3>2 DEF Undoes
    <3>7. UNCHANGED <<receipt, stored, claiming>>
      BY <2>1 DEF OwnOnly
    <3>8. ASSUME NEW q \in Record, Fenced(q, own', stored', cl)
          PROVE  \/ Undoes(s, own'[q], q)
                 \/ /\ own'[q] = own[q]
                    /\ ~Undoes(wk[w], own[q], q)
                    /\ Running(s) /\ s.at = receipt.at =>
                          Running(wk[w]) /\ wk[w].at = s.at
                          /\ (wk[w].prog[q].created => s.prog[q].created)
      BY <2>1, <2>2, <3>1, <3>2, <3>6
    <3>9. Goes(w, s) /\ CallFenced(s, receipt, own', stored', cl) /\ \A q \in Record : stored[q] => stored'[q]
      BY <3>1, <3>5, <3>7
    <3> QED BY <3>3, <3>7, <3>8, <3>9, FenceQuiet
  <2>5. CASE \E s : /\ own[r].state \in {"locked", "claimed"} /\ own' = own
                    /\ Goes(w, s) /\ s.at = wk[w].at
                    /\ Shape(s, "ownership", wk[w].outs, wk[w].prog, wk[w].i,
                             [stamp |-> own[r].stamp, locked |-> own[r].state = "locked",
                              created |-> FALSE], wk[w].err)
    <3>1. PICK s : /\ own[r].state \in {"locked", "claimed"} /\ own' = own
                   /\ Goes(w, s) /\ s.at = wk[w].at
                   /\ s.pc = "ownership" /\ s.prog = wk[w].prog /\ s.i = wk[w].i
                   /\ s.reg = [stamp |-> own[r].stamp, locked |-> own[r].state = "locked",
                               created |-> FALSE]
      BY <2>5 DEF Shape
    <3>2. s.reg.locked = (own[r].state = "locked") /\ s.reg.created = FALSE
      BY <3>1
    <3>3. RecordOf(s) = r
      BY <2>2, <3>1 DEF RecordOf
    <3>4. (~s.reg.locked => own[r].state = "claimed") /\ ~s.reg.created
      BY <3>1, <3>2
    <3> HIDE DEF r
    <3>5. CallFenced(s, receipt, own, stored, cl)
      BY <2>2, <3>1, <3>3, <3>4 DEF CallFenced
    <3>6. CallOnly
      BY <2>1, <3>1 DEF OwnOnly, CallOnly
    <3> QED BY <1>4, <1>5, <2>1, <2>2, <3>1, <3>5, <3>6
  <2>6. CASE \E s : own' = own /\ Moves(w, s, "lockError")
    <3>1. CallOnly /\ wk[w].pc = "register"
      BY <2>1, <2>6 DEF OwnOnly, CallOnly, Works
    <3> QED BY <1>7, <2>1, <2>2, <2>6, <3>1
  <2> QED BY <1>20, <2>4, <2>5, <2>6, RegisterEffect
<1>21. ASSUME NEW w \in Worker, AuditOwnership(w) PROVE FenceOf(cl)'
  <2>1. CallOnly /\ Works(w, "regAudit") /\ Running(wk[w])
    BY <1>21, AuditEffect DEF Running, Works
  <2>2. PICK s : /\ Goes(w, s) /\ s.at = wk[w].at /\ s.pc \in {"ownership", "rollback"}
                 /\ s.prog = wk[w].prog /\ s.i = wk[w].i /\ s.reg = wk[w].reg
    BY <1>21, AuditEffect DEF Moves, Shape
  <2>3. CallFenced(wk[w], receipt, own, stored, cl) /\ wk[w].pc = "regAudit" /\ RecordOf(s) = RecordOf(wk[w])
    BY <1>2, <2>1, <2>2 DEF Works, RecordOf
  <2>4. CallFenced(s, receipt, own, stored, cl)
    BY <2>2, <2>3 DEF CallFenced, IntentSteps
  <2>5. \A r \in Record : Undoes(wk[w], own[r], r) => Undoes(s, own[r], r)
    BY <2>2, <2>3 DEF Undoes
  <2> QED BY <1>4, <1>5, <2>1, <2>2, <2>4, <2>5
\* a call deletes the lock of its record
<1>22. ASSUME NEW w \in Worker, NEW step, NEW s, Works(w, step), Running(wk[w]), step # "resume",
              OwnOnly, Deleted(Current(w), wk[w].reg), Goes(w, s), s.at = wk[w].at,
              s.pc \in {"lockError", "fail", "hold"},
              (s.reg = wk[w].reg /\ s.i = wk[w].i) \/ s.reg = NoRegistration,
              s.pc = "lockError" /\ RecordOf(s) \in cl => s.prog[RecordOf(s)].phase # "none",
              Recoverable(s.prog, own, cl),
              \A q \in Record : q # Current(w) => s.prog[q] = wk[w].prog[q]
       PROVE  FenceOf(cl)'
  <2> DEFINE r == Current(w)
  <2>1. r \in Record /\ RecordOf(wk[w]) = r /\ wk[w] \in CallState
    BY <1>3, <1>22 DEF Works
  <2>2. /\ own[r].state = "locked" /\ own'[r].state = "free"
        /\ \A q \in Record : q # r => own'[q] = own[q]
    BY <1>22, <2>1 DEF Deleted, Deletable, TypeOK, Ownership
  <2> HIDE DEF r
  <2>3. EntriesSettle(own, own', cl)
    BY <2>2 DEF EntriesSettle, Undoable
  <2>4. Recoverable(s.prog, own', cl)
    BY <1>22, <2>3, RecoverableSettles
  <2>5. CallFenced(wk[w], receipt, own, stored, cl)
    BY <1>2
  <2>6. wk[w].pc = "resume" /\ wk[w].at = receipt.at => wk[w].prog = receipt.progress
    BY <2>5 DEF CallFenced
  <2>7. CallFenced(wk[w], receipt, own', stored, cl)
    BY <2>1, <2>3, <2>5, <2>6, CallFencedKept
  <2>8. CallFenced(s, receipt, own', stored, cl)
    BY <1>22, <2>4, <2>7, FencedElsewhere DEF IntentSteps
  <2>9. UNCHANGED <<receipt, stored, claiming>>
    BY <1>22 DEF OwnOnly
  <2>10. ASSUME NEW q \in Record, Fenced(q, own', stored', cl)
         PROVE  /\ own'[q] = own[q] /\ ~Undoes(wk[w], own[q], q)
                /\ wk[w].prog[q].created => s.prog[q].created
    <3>1. q # r
      BY <2>2, <2>10 DEF Fenced
    <3>2. s.prog[q] = wk[w].prog[q]
      BY <1>22, <3>1 DEF r
    <3> QED BY <2>1, <2>2, <3>1, <3>2 DEF Undoes
  <2> QED BY <1>22, <2>3, <2>8, <2>9, <2>10, FenceQuiet
\* a lock that the call cannot delete is not the one it registered
<1>23. ASSUME NEW w \in Worker, NEW step, Works(w, step),
              wk[w].reg.created /\ Current(w) \in cl => ~Deletable(Current(w), wk[w].reg)
       PROVE  \A q \in Record : Fenced(q, own, stored, cl) => ~Undoes(wk[w], own[q], q)
  <2>1. CallFenced(wk[w], receipt, own, stored, cl) /\ RecordOf(wk[w]) = Current(w)
    BY <1>2, <1>3, <1>23
  <2> QED BY <1>23, <2>1 DEF CallFenced, Undoes, Fenced, Deletable
<1>24. ASSUME NEW w \in Worker, RollbackOwnership(w) PROVE FenceOf(cl)'
  <2>1. OwnOnly /\ Works(w, "rollback") /\ Running(wk[w])
    BY <1>24, RollbackEffect DEF Running, Works
  <2>2. PICK s : /\ Goes(w, s) /\ s.at = wk[w].at /\ s.pc = "lockError" /\ s.prog = wk[w].prog
                 /\ s.i = wk[w].i /\ s.reg = NoRegistration
    BY <1>24, RollbackEffect DEF Shape
  <2>3. /\ RecordOf(s) = RecordOf(wk[w])
        /\ RecordOf(wk[w]) \in cl => wk[w].prog[RecordOf(wk[w])].phase # "none"
        /\ CallFenced(wk[w], receipt, own, stored, cl) /\ Recoverable(wk[w].prog, own, cl)
    <3>1. CallFenced(wk[w], receipt, own, stored, cl) /\ wk[w].pc = "rollback" /\ wk[w].i \in DOMAIN Order
      BY <1>2, <1>3, <2>1
    <3> QED BY <2>2, <3>1 DEF CallFenced, IntentSteps, RecordOf
  <2>4. CASE Deleted(Current(w), wk[w].reg)
    BY <1>22, <2>1, <2>2, <2>3, <2>4
  <2>5. CASE own' = own /\ (Current(w) \in cl => ~Deletable(Current(w), wk[w].reg))
    <3>1. CallFenced(s, receipt, own, stored, cl)
      BY <2>2, <2>3, FencedElsewhere
    <3>2. \A q \in Record : Fenced(q, own, stored, cl) => ~Undoes(wk[w], own[q], q)
      BY <1>23, <2>1, <2>5
    <3>3. CallOnly
      BY <2>1, <2>5 DEF OwnOnly, CallOnly
    <3> QED BY <1>4, <1>5, <2>1, <2>2, <3>1, <3>2, <3>3
  <2>6. "guard" \in marks'[Current(w)] => Current(w) \notin cl
    BY <1>0, <1>3, <2>1
  <2> QED BY <1>24, <2>4, <2>5, <2>6, RollbackEffect
<1>25. ASSUME NEW w \in Worker, ReconcileOwnership(w) PROVE FenceOf(cl)'
  <2>1. CallOnly /\ Works(w, "lockError") /\ Running(wk[w])
    BY <1>25, ReconcileEffect DEF Running, Works
  <2>2. PICK s : MovesWith(w, s, "fail", Reconciled(w)) \/ MovesWith(w, s, "fail", Prog(w))
    BY <1>25, ReconcileEffect
  <2>3. (Current(w) \in cl => Prog(w).phase # "none") /\ \A q \in Record : ~Undoes(wk[w], own[q], q)
    <3>1. CallFenced(wk[w], receipt, own, stored, cl) /\ wk[w].pc = "lockError"
      BY <1>2, <1>3, <2>1
    <3> QED BY <1>3, <2>1, <3>1 DEF CallFenced, IntentSteps, Undoes
  <2>4. CASE MovesWith(w, s, "fail", Prog(w))
    BY <1>3, <1>8, <2>1, <2>3, <2>4
  <2>5. CASE MovesWith(w, s, "fail", Reconciled(w))
    <3>1. CASE own[Current(w)].state = "locked"
      <4>1. Reconciled(w) = [Prog(w) EXCEPT !.ready = TRUE, !.created = TRUE, !.locked = TRUE]
        BY <3>1 DEF Reconciled
      <4>2. /\ Reconciled(w).created = TRUE /\ Reconciled(w).ready = TRUE
            /\ Reconciled(w).locked = TRUE /\ Reconciled(w).phase = Prog(w).phase
        BY <1>3, <2>1, <4>1 DEF Progress
      <4>3. Undoable(own[Current(w)])
        BY <3>1 DEF Undoable
      <4> QED BY <1>8, <2>1, <2>3, <2>5, <4>2, <4>3
    <3>2. CASE /\ own[Current(w)].state # "locked"
               /\ Prog(w).phase = "intent" /\ ~Prog(w).ready
      <4>1. Reconciled(w) = NoProgress /\ ~NoProgress.created /\ (Current(w) \in cl => ~Prog(w).created)
        BY <1>3, <2>1, <3>2 DEF Reconciled, NoProgress
      <4> QED BY <1>8, <2>1, <2>3, <2>5, <4>1
    <3>3. CASE /\ own[Current(w)].state # "locked"
               /\ ~(Prog(w).phase = "intent" /\ ~Prog(w).ready)
      <4>1. Reconciled(w) = Prog(w)
        BY <3>3 DEF Reconciled
      <4> QED BY <2>4, <2>5, <4>1
    <3> QED BY <3>1, <3>2, <3>3
  <2> QED BY <2>2, <2>4, <2>5
<1>26. ASSUME NEW w \in Worker, CheckpointOwnership(w) PROVE FenceOf(cl)'
  <2> DEFINE r == Current(w)
             g == WithOwnership(Prog(w), wk[w].reg)
             prog == [wk[w].prog EXCEPT ![r] = g]
             known == Prog(w).ready /\ ~wk[w].reg.created /\ Prog(w).locked = wk[w].reg.locked
  <2>1. ReceiptOnly /\ Works(w, "ownership") /\ Running(wk[w]) /\ wk[w].pc = "ownership"
    BY <1>26, CheckpointOwnershipEffect DEF Running, Works
  <2>2. /\ r \in Record /\ RecordOf(wk[w]) = r /\ wk[w].i \in DOMAIN Order
        /\ wk[w].prog \in [Record -> Progress] /\ Prog(w) \in Progress /\ Prog(w) = wk[w].prog[r]
        /\ wk[w].reg \in Registration
    BY <1>3, <2>1
  <2>3. /\ CallFenced(wk[w], receipt, own, stored, cl) /\ Recoverable(wk[w].prog, own, cl)
        /\ wk[w].reg.created => wk[w].reg.locked
        /\ r \in cl =>
              /\ Prog(w).phase # "none"
              /\ wk[w].reg.created => Undoable(own[r])
              /\ ~wk[w].reg.created /\ ~wk[w].reg.locked => own[r].state = "claimed"
    BY <1>2, <2>1, <2>2 DEF CallFenced, IntentSteps
  <2>4. /\ g.phase = Prog(w).phase /\ g.ready = TRUE /\ g.locked = wk[w].reg.locked
        /\ g.created = (Prog(w).created \/ wk[w].reg.created)
    BY <2>2 DEF WithOwnership, Progress
  <2>5. r \in cl /\ Prog(w).created => Prog(w).ready /\ Prog(w).locked /\ Undoable(own[r])
    BY <2>2, <2>3 DEF Recoverable
  <2>6. r \in cl /\ ~wk[w].reg.created /\ Prog(w).created => known
    <3>1. Undoable(own[r]) => own[r].state # "claimed"
      BY DEF Undoable
    <3>2. Prog(w).locked \in BOOLEAN /\ wk[w].reg.locked \in BOOLEAN
      BY <2>2 DEF Progress, Registration
    <3> QED BY <2>3, <2>5, <3>1, <3>2
  <2>7. r \in cl /\ g.created => g.phase # "none" /\ g.ready /\ g.locked /\ Undoable(own[r])
    <3>1. Undoable(own[r]) => own[r].state # "claimed"
      BY DEF Undoable
    <3> QED BY <2>3, <2>4, <2>5, <3>1
  <2>8. PICK s :
           \/ known /\ receipt' = receipt /\ Moves(w, s, "calling")
           \/ /\ ~known /\ g \in Progress
              /\ Accepted(w, "processing", SuccessfulOutcomes(wk[w].outs), prog)
              /\ Goes(w, s) /\ s.at = wk[w].at + 1
              /\ Shape(s, "calling", wk[w].outs, prog, wk[w].i, wk[w].reg, wk[w].err)
           \/ ~known /\ receipt' = receipt /\ MovesWith(w, s, "cleanup", g)
    BY <1>26, CheckpointOwnershipEffect
  <2>9. prog[r] = g /\ \A q \in Record : q # r => prog[q] = wk[w].prog[q]
    BY <2>2
  <2>10. Recoverable(prog, own, cl)
    BY <2>2, <2>3, <2>7, RecoverableWith
  <2>11. CASE known /\ receipt' = receipt /\ Moves(w, s, "calling")
    <3>1. CallOnly
      BY <2>1, <2>11 DEF ReceiptOnly, CallOnly
    <3>2. /\ Goes(w, s) /\ s.at = wk[w].at /\ s.pc = "calling" /\ s.prog = wk[w].prog
          /\ s.i = wk[w].i /\ s.reg = wk[w].reg /\ RecordOf(s) = r
      BY <2>2, <2>11 DEF Moves, Shape, RecordOf
    <3>3. CallFenced(s, receipt, own, stored, cl)
      BY <2>2, <2>3, <3>2, FencedElsewhere
    <3>4. \A q \in Record : ~Undoes(wk[w], own[q], q)
      BY <2>11 DEF Undoes
    <3> QED BY <1>4, <1>5, <2>1, <3>1, <3>2, <3>3, <3>4
  <2>12. CASE /\ ~known
              /\ Accepted(w, "processing", SuccessfulOutcomes(wk[w].outs), prog)
              /\ Goes(w, s)
              /\ Shape(s, "calling", wk[w].outs, prog, wk[w].i, wk[w].reg, wk[w].err)
    <3>1. /\ s.pc = "calling" /\ s.prog = prog /\ s.i = wk[w].i /\ s.reg = wk[w].reg
          /\ RecordOf(s) = r
      BY <2>2, <2>12 DEF Shape, RecordOf
    <3>2. CallFenced(wk[w], receipt', own, stored, cl) /\ wk[w].at = receipt.at
      BY <1>9, <2>12
    <3>3. RecordOf(s) \in cl => s.prog[RecordOf(s)].phase # "none"
      BY <2>3, <2>4, <2>9, <3>1
    <3> HIDE DEF prog, known
    <3>4. CallFenced(s, receipt', own, stored, cl)
      BY <2>10, <3>1, <3>2, <3>3, FencedElsewhere
    <3>5. ASSUME NEW q \in Record,
                 Undoes(wk[w], own[q], q) \/ (receipt.progress[q].created /\ Remembers(wk[w], receipt, q))
          PROVE  prog[q].created
      <4>1. CASE Undoes(wk[w], own[q], q)
        BY <2>2, <2>4, <2>9, <4>1 DEF Undoes
      <4>2. CASE Remembers(wk[w], receipt, q)
        <5>1. wk[w].prog[q].created
          BY <2>1, <3>2, <4>2 DEF Remembers
        <5> QED BY <2>2, <2>4, <2>9, <5>1
      <4> QED BY <3>5, <4>1, <4>2
    <3> QED BY <1>10, <2>1, <2>10, <2>12, <3>1, <3>4, <3>5
  <2>13. CASE ~known /\ receipt' = receipt /\ MovesWith(w, s, "cleanup", g)
    <3>1. CallOnly
      BY <2>1, <2>13 DEF ReceiptOnly, CallOnly
    <3>2. /\ Goes(w, s) /\ s.at = wk[w].at /\ s.pc = "cleanup" /\ s.prog = prog
          /\ s.i = wk[w].i /\ s.reg = wk[w].reg /\ RecordOf(s) = r
      BY <2>2, <2>13 DEF MovesWith, Shape, RecordOf
    <3>3. r \in cl /\ ~wk[w].reg.created => ~g.created
      BY <2>4, <2>6, <2>13
    <3> HIDE DEF prog, known
    <3>4. s.prog[r] = g /\ (r \in cl => g.phase # "none")
      BY <2>3, <2>4, <2>9, <3>2
    <3>5. CallFenced(s, receipt, own, stored, cl)
      BY <2>2, <2>3, <2>10, <3>2, <3>3, <3>4 DEF CallFenced
    <3>6. \A q \in Record : Undoes(wk[w], own[q], q) => Undoes(s, own[q], q)
      BY <2>2, <3>2 DEF Undoes
    <3>7. \A q \in Record : wk[w].prog[q].created => s.prog[q].created
      BY <2>2, <2>4, <2>9, <3>2
    <3> QED BY <1>4, <1>5, <2>1, <3>1, <3>2, <3>5, <3>6, <3>7
  <2> QED BY <2>8, <2>11, <2>12, <2>13
<1>27. ASSUME NEW w \in Worker, CleanupOwnership(w) PROVE FenceOf(cl)'
  <2>1. OwnOnly /\ Works(w, "cleanup") /\ Running(wk[w]) /\ wk[w].pc = "cleanup"
    BY <1>27, CleanupEffect DEF Running, Works
  <2>2. PICK s :
           \/ /\ wk[w].reg.created /\ Deleted(Current(w), wk[w].reg)
              /\ MovesWith(w, s, "fail", NoProgress)
           \/ ~wk[w].reg.created /\ own' = own /\ MovesWith(w, s, "fail", NoProgress)
           \/ /\ wk[w].reg.created /\ own' = own /\ MovesWith(w, s, "fail", Prog(w))
              /\ Current(w) \in cl => ~Deletable(Current(w), wk[w].reg)
    <3>1. "guard" \in marks'[Current(w)] => Current(w) \notin cl
      BY <1>0, <1>3, <2>1
    <3> QED BY <1>27, <3>1, CleanupEffect
  <2>3. ~NoProgress.created /\ (Current(w) \in cl /\ ~wk[w].reg.created => ~Prog(w).created)
    <3>1. CallFenced(wk[w], receipt, own, stored, cl)
      BY <1>2
    <3> QED BY <1>3, <2>1, <3>1 DEF CallFenced, NoProgress
  <2>4. CASE /\ Deleted(Current(w), wk[w].reg)
             /\ MovesWith(w, s, "fail", NoProgress)
    <3>1. /\ Goes(w, s) /\ s.at = wk[w].at /\ s.pc = "fail"
          /\ s.prog = [wk[w].prog EXCEPT ![Current(w)] = NoProgress]
          /\ s.i = wk[w].i /\ s.reg = wk[w].reg
      BY <2>4 DEF MovesWith, Shape
    <3>2. Recoverable(s.prog, own, cl) /\ \A q \in Record : q # Current(w) => s.prog[q] = wk[w].prog[q]
      BY <1>2, <1>3, <2>1, <2>3, <3>1, RecoverableWith
    <3> QED BY <1>22, <2>1, <2>4, <3>1, <3>2
  <2>5. CASE own' = own
    <3>1. CallOnly
      BY <2>1, <2>5 DEF OwnOnly, CallOnly
    <3>2. CASE ~wk[w].reg.created /\ MovesWith(w, s, "fail", NoProgress)
      <4>1. \A q \in Record : ~Undoes(wk[w], own[q], q)
        BY <3>2 DEF Undoes
      <4> QED BY <1>8, <2>1, <2>3, <3>1, <3>2, <4>1
    <3>3. CASE /\ MovesWith(w, s, "fail", Prog(w))
               /\ Current(w) \in cl => ~Deletable(Current(w), wk[w].reg)
      BY <1>3, <1>8, <1>23, <2>1, <3>1, <3>3
    <3>4. Deleted(Current(w), wk[w].reg) => own' # own
      BY <1>3, <2>1 DEF Deleted, Deletable, TypeOK, Ownership
    <3> QED BY <2>2, <2>5, <3>2, <3>3, <3>4
  <2> QED BY <2>2, <2>4, <2>5
<1>28. ASSUME NEW w \in Worker,
              ProviderCommits(w) \/ ProviderRefuses(w) \/ ProviderFails(w) \/ LeaseLost(w)
       PROVE  FenceOf(cl)'
  <2>1. ProviderOnly /\ Works(w, "calling") /\ Running(wk[w]) /\ wk[w].pc = "calling"
    BY <1>28, ProviderEffect DEF Running, Works
  <2>2. PICK s : /\ Goes(w, s) /\ s.at = wk[w].at /\ s.pc \in {"verify", "commit"}
                 /\ s.prog = wk[w].prog /\ s.i = wk[w].i /\ s.reg = wk[w].reg
    BY <1>28, ProviderEffect DEF Moves, MovesErr, Shape
  <2>3. \A r \in Record : stored[r] => stored'[r]
    <3>1. stored' = stored \/ stored' = [stored EXCEPT ![Current(w)] = TRUE]
      BY <1>28, ProviderEffect DEF CallOnly, ProviderWrites
    <3> QED BY <3>1 DEF TypeOK
  <2>4. /\ CallFenced(wk[w], receipt, own, stored, cl)
        /\ RecordOf(wk[w]) \in cl => wk[w].prog[RecordOf(wk[w])].phase # "none"
        /\ RecordOf(s) = RecordOf(wk[w])
    <3>1. CallFenced(wk[w], receipt, own, stored, cl) /\ wk[w].i \in DOMAIN Order
      BY <1>2, <1>3, <2>1
    <3> QED BY <2>1, <2>2, <3>1 DEF CallFenced, IntentSteps, RecordOf
  <2>5. CallFenced(wk[w], receipt, own, stored', cl)
    BY <2>1, <2>4 DEF CallFenced
  <2>6. CallFenced(s, receipt, own, stored', cl)
    BY <1>2, <2>2, <2>4, <2>5, FencedElsewhere
  <2>7. \A r \in Record : ~Undoes(wk[w], own[r], r)
    BY <2>1 DEF Undoes
  <2> QED BY <1>4, <2>1, <2>2, <2>3, <2>6, <2>7
<1>29. ASSUME NEW w \in Worker, VerifyCommit(w) PROVE FenceOf(cl)'
  <2>1. CallOnly /\ Works(w, "verify") /\ Running(wk[w]) /\ wk[w].pc = "verify"
    BY <1>29, VerifyEffect DEF Running, Works
  <2>2. (RecordOf(wk[w]) \in cl => wk[w].prog[RecordOf(wk[w])].phase # "none") /\ \A r \in Record : ~Undoes(wk[w], own[r], r)
    <3>1. CallFenced(wk[w], receipt, own, stored, cl) /\ wk[w].i \in DOMAIN Order
      BY <1>2, <1>3, <2>1
    <3> QED BY <2>1, <3>1 DEF CallFenced, IntentSteps, Undoes
  <2>3. CASE Goes(w, IdleCall)
    BY <1>6, <2>1, <2>3
  <2>4. ASSUME NEW s, NEW step \in {"commit", "compensate"}, Moves(w, s, step) PROVE FenceOf(cl)'
    BY <1>7, <2>1, <2>2, <2>4
  <2>5. ASSUME NEW s, MovesWith(w, s, "fail", Prog(w)) PROVE FenceOf(cl)'
    BY <1>3, <1>8, <2>1, <2>2, <2>5
  <2> QED BY <1>29, <2>3, <2>4, <2>5, VerifyEffect
<1>30. ASSUME NEW w \in Worker, CheckpointCommitted(w) PROVE FenceOf(cl)'
  <2> DEFINE r == Current(w)
             outs == [wk[w].outs EXCEPT ![r] = CommitOutcome(w)]
             prog == [wk[w].prog EXCEPT ![r] = CommitProgress(w)]
  <2>1. /\ ReceiptOnly /\ Works(w, "commit") /\ Running(wk[w]) /\ wk[w].pc = "commit"
    BY <1>30, CommitEffect DEF Running, Works
  <2>2. /\ r \in Record /\ RecordOf(wk[w]) = r /\ wk[w].i \in DOMAIN Order
        /\ wk[w].prog \in [Record -> Progress] /\ Prog(w) \in Progress /\ Prog(w) = wk[w].prog[r]
        /\ stored[r]
    <3>1. wk[w].pc = "commit" => stored[Current(w)]
      BY <1>1 DEF AttributionInv, Current
    <3> QED BY <1>3, <2>1, <3>1
  <2>3. /\ CallFenced(wk[w], receipt, own, stored, cl) /\ Recoverable(wk[w].prog, own, cl)
        /\ \A q \in Record : ~Undoes(wk[w], own[q], q)
    BY <1>2, <2>1 DEF Undoes
  <2>4. /\ CommitProgress(w).phase = "committed" /\ CommitProgress(w).ready = Prog(w).ready
        /\ CommitProgress(w).created = Prog(w).created /\ CommitProgress(w).locked = Prog(w).locked
    BY <2>2 DEF CommitProgress, Progress
  <2>5. r \in cl /\ Prog(w).created => Prog(w).ready /\ Prog(w).locked /\ Undoable(own[r])
    BY <2>2, <2>3 DEF Recoverable
  <2>6. Recoverable(prog, own, cl)
    BY <2>2, <2>3, <2>4, <2>5, RecoverableWith
  <2>7. \A q \in Record : wk[w].prog[q].created => prog[q].created
    BY <2>2, <2>4
  <2>8. PICK s :
           \/ /\ Accepted(w, "processing", SuccessfulOutcomes(outs), prog)
              /\ Goes(w, s) /\ s.pc \in {"clear", "fail"} /\ s.prog = prog
              /\ s.i = wk[w].i /\ s.reg = wk[w].reg
           \/ /\ receipt' = receipt /\ Goes(w, s) /\ s.at = wk[w].at
              /\ s.pc = "fail" /\ s.prog = prog
              /\ s.i = wk[w].i /\ s.reg = wk[w].reg
    BY <1>30, CommitEffect DEF Shape
  <2> HIDE DEF prog, outs
  <2>9. CASE /\ receipt' = receipt /\ Goes(w, s) /\ s.at = wk[w].at
             /\ s.pc = "fail" /\ s.prog = prog
             /\ s.i = wk[w].i /\ s.reg = wk[w].reg
    <3>1. CallOnly
      BY <2>1, <2>9 DEF ReceiptOnly, CallOnly
    <3>2. CallFenced(s, receipt, own, stored, cl)
      BY <2>3, <2>6, <2>9, FencedElsewhere DEF IntentSteps
    <3> QED BY <1>4, <1>5, <2>1, <2>3, <2>7, <2>9, <3>1, <3>2
  <2>10. CASE /\ Accepted(w, "processing", SuccessfulOutcomes(outs), prog)
              /\ Goes(w, s) /\ s.pc \in {"clear", "fail"} /\ s.prog = prog
              /\ s.i = wk[w].i /\ s.reg = wk[w].reg
    <3>1. CallFenced(wk[w], receipt', own, stored, cl) /\ wk[w].at = receipt.at /\ RecordOf(s) = r
      BY <1>9, <2>2, <2>10 DEF RecordOf
    <3>2. CallFenced(s, receipt', own, stored, cl)
      BY <2>2, <2>6, <2>10, <3>1 DEF CallFenced, IntentSteps
    <3>3. \A q \in Record : receipt.progress[q].created /\ Remembers(wk[w], receipt, q) => prog[q].created
      BY <2>1, <2>7, <3>1 DEF Remembers
    <3> QED BY <1>10, <2>1, <2>3, <2>6, <2>10, <3>2, <3>3
  <2> QED BY <2>8, <2>9, <2>10
<1>31. ASSUME NEW w \in Worker, ClearIntent(w) PROVE FenceOf(cl)'
  <2> DEFINE r == Current(w)
             prog == [wk[w].prog EXCEPT ![r] = NoProgress]
  <2>1. ReceiptOnly /\ Works(w, "clear") /\ Running(wk[w]) /\ wk[w].pc = "clear"
    BY <1>31, ClearEffect DEF Running, Works
  <2>2. /\ r \in Record /\ wk[w].prog \in [Record -> Progress] /\ (r \in cl => stored[r])
        /\ Recoverable(wk[w].prog, own, cl)
    <3>1. CallFenced(wk[w], receipt, own, stored, cl)
      BY <1>2
    <3> QED BY <1>3, <2>1, <3>1 DEF CallFenced
  <2>3. PICK s :
           \/ /\ Accepted(w, "processing", SuccessfulOutcomes(wk[w].outs), prog)
              /\ Goes(w, s) /\ s.pc = "record" /\ s.prog = prog /\ s.reg = NoRegistration
           \/ receipt' = receipt /\ Moves(w, s, "fail")
    BY <1>31, ClearEffect DEF Shape
  <2>4. CASE receipt' = receipt /\ Moves(w, s, "fail")
    <3>1. CallOnly
      BY <2>1, <2>4 DEF ReceiptOnly, CallOnly
    <3> QED BY <1>7, <2>1, <2>4, <3>1 DEF IntentSteps
  <2>5. CASE /\ Accepted(w, "processing", SuccessfulOutcomes(wk[w].outs), prog)
             /\ Goes(w, s) /\ s.pc = "record" /\ s.prog = prog /\ s.reg = NoRegistration
    <3>1. ~NoProgress.created
      BY DEF NoProgress
    <3>2. Recoverable(prog, own, cl)
      BY <2>2, <3>1, RecoverableWith
    <3>3. \A q \in Record : q \in cl /\ ~stored[q] /\ wk[w].prog[q].created => prog[q].created
      BY <2>2
    <3> HIDE DEF prog
    <3> QED BY <1>11, <2>1, <2>5, <3>2, <3>3 DEF IntentSteps
  <2> QED BY <2>3, <2>4, <2>5
<1>32. ASSUME NEW w \in Worker, Compensate(w) PROVE FenceOf(cl)'
  <2>1. OwnOnly /\ Works(w, "compensate") /\ Running(wk[w]) /\ wk[w].pc = "compensate"
    BY <1>32, CompensateEffect DEF Running, Works
  <2>2. /\ ~NoProgress.created /\ \A q \in Record : ~Undoes(wk[w], own[q], q)
    BY <2>1 DEF NoProgress, Undoes
  <2>3. PICK s :
           \/ /\ \/ Prog(w).created /\ Deleted(Current(w), wk[w].reg)
                 \/ ~Prog(w).created /\ own' = own
              /\ \E step \in {"hold", "fail"} : MovesWith(w, s, step, NoProgress)
           \/ /\ own' = own /\ MovesWith(w, s, "fail", Prog(w))
    BY <1>32, CompensateEffect
  <2>4. CASE /\ Deleted(Current(w), wk[w].reg)
             /\ \E step \in {"hold", "fail"} : MovesWith(w, s, step, NoProgress)
    <3>1. /\ Goes(w, s) /\ s.at = wk[w].at /\ s.pc \in {"hold", "fail"}
          /\ s.prog = [wk[w].prog EXCEPT ![Current(w)] = NoProgress]
          /\ s.i = wk[w].i /\ s.reg = wk[w].reg
      BY <2>4 DEF MovesWith, Shape
    <3>2. Recoverable(s.prog, own, cl) /\ \A q \in Record : q # Current(w) => s.prog[q] = wk[w].prog[q]
      BY <1>2, <1>3, <2>1, <2>2, <3>1, RecoverableWith
    <3> QED BY <1>22, <2>1, <2>4, <3>1, <3>2
  <2>5. ASSUME own' = own PROVE CallOnly
    BY <2>1, <2>5 DEF OwnOnly, CallOnly
  <2>6. CASE /\ ~Prog(w).created /\ own' = own
             /\ \E step \in {"hold", "fail"} : MovesWith(w, s, step, NoProgress)
    BY <1>8, <2>1, <2>2, <2>5, <2>6
  <2>7. CASE own' = own /\ MovesWith(w, s, "fail", Prog(w))
    BY <1>3, <1>8, <2>1, <2>2, <2>5, <2>7
  <2> QED BY <2>3, <2>4, <2>6, <2>7
<1>33. ASSUME NEW w \in Worker, CheckpointHolding(w) PROVE FenceOf(cl)'
  <2>1. ReceiptOnly /\ Running(wk[w]) /\ wk[w].pc = "hold"
    BY <1>33, HoldingEffect DEF Running, Works
  <2>2. PICK s :
           \/ /\ Accepted(w, "processing", SuccessfulOutcomes(wk[w].outs), wk[w].prog)
              /\ Goes(w, s) /\ s.pc = "record" /\ s.prog = wk[w].prog /\ s.reg = NoRegistration
           \/ receipt' = receipt /\ Moves(w, s, "fail")
    BY <1>33, HoldingEffect DEF Shape
  <2>3. CASE receipt' = receipt /\ Moves(w, s, "fail")
    <3>1. CallOnly
      BY <2>1, <2>3 DEF ReceiptOnly, CallOnly
    <3> QED BY <1>7, <2>1, <2>3, <3>1 DEF IntentSteps
  <2>4. CASE /\ Accepted(w, "processing", SuccessfulOutcomes(wk[w].outs), wk[w].prog)
             /\ Goes(w, s) /\ s.pc = "record" /\ s.prog = wk[w].prog /\ s.reg = NoRegistration
    BY <1>2, <1>11, <2>1, <2>4 DEF IntentSteps
  <2> QED BY <2>2, <2>3, <2>4
<1>34. ASSUME NEW w \in Worker, Complete(w) \/ FailImport(w) PROVE FenceOf(cl)'
  <2>1. ReceiptOnly /\ Running(wk[w]) /\ wk[w].pc \in {"record", "fail"}
    BY <1>34, TerminalEffect DEF Running
  <2>2. CASE receipt' = receipt /\ Goes(w, IdleCall)
    <3>1. CallOnly
      BY <2>1, <2>2 DEF ReceiptOnly, CallOnly
    <3> QED BY <1>6, <2>1, <2>2, <3>1
  <2>3. ASSUME NEW status \in {"completed", "holding", "failed"}, NEW outs, NEW s,
               Accepted(w, status, outs, wk[w].prog), Goes(w, s), s.pc = "report",
               s.prog = wk[w].prog, s.i = wk[w].i, s.reg = wk[w].reg
        PROVE  FenceOf(cl)'
    BY <1>2, <1>11, <2>1, <2>3 DEF IntentSteps
  <2> QED BY <1>34, <2>2, <2>3, TerminalEffect DEF Shape
<1>35. ASSUME NEW w \in Worker, Report(w) \/ Crash(w) PROVE FenceOf(cl)'
  <2>1. wk[w].pc \in LockSteps /\ Current(w) \in Record => Current(w) \notin cl
    BY <1>0, <1>35, CrashMarks
  <2> QED BY <1>6, <1>35, <2>1, LeaveEffect DEF LockSteps
<1>36. ASSUME NEW w \in Worker, Heartbeat(w) PROVE FenceOf(cl)'
  <2>1. /\ ReceiptOnly /\ Works(w, "calling") /\ Running(wk[w]) /\ wk[w].pc = "calling"
        /\ receipt.status = "processing" /\ receipt.at = wk[w].at
        /\ receipt' = [receipt EXCEPT !.at = receipt.at + 1]
    BY <1>36, HeartbeatEffect DEF Running, Works
  <2>2. /\ receipt'.at > receipt.at /\ receipt'.status = "processing"
        /\ receipt'.progress = receipt.progress /\ wk[w].at # receipt'.at
    <3>1. receipt.at \in Nat /\ receipt \in Receipt
      BY DEF TypeOK, Receipt
    <3>2. receipt'.at = receipt.at + 1 /\ receipt'.status = receipt.status
          /\ receipt'.progress = receipt.progress
      BY <2>1, <3>1 DEF Receipt
    <3> QED BY <2>1, <3>1, <3>2
  <2>3. PICK s : /\ Goes(w, s) /\ s.pc = "calling" /\ s.prog = wk[w].prog
                 /\ s.i = wk[w].i /\ s.reg = wk[w].reg
    BY <1>36, HeartbeatEffect DEF Shape
  <2>4. CallFenced(s, receipt', own, stored, cl)
    BY <1>2, <2>1, <2>3 DEF CallFenced, IntentSteps, RecordOf
  <2>5. \A r \in Record : ~Undoes(wk[w], own[r], r)
    BY <2>1 DEF Undoes
  <2>6. \A r \in Record : receipt.progress[r].created /\ Remembers(wk[w], receipt, r) =>
           receipt'.progress[r].created /\ s.prog[r].created
    BY <2>1, <2>2, <2>3 DEF Remembers
  <2>7. Recoverable(receipt'.progress, own, cl)
    BY <1>2, <2>2
  <2> QED BY <1>1, <2>1, <2>2, <2>3, <2>4, <2>5, <2>6, <2>7, FenceWrite
<1>37. CASE \/ LeaseExpires
            \/ \E r \in Record : \/ ClaimOwnership(r) \/ AuditClaim(r)
                                 \/ ResolveDependency(r) \/ LoseDependency(r)
  <2>1. /\ UNCHANGED <<receipt, stored, wk>>
        /\ claiming' \cap cl = {}
        /\ \A r \in Record : r \in cl => own'[r] = own[r]
    <3>1. claiming \in SUBSET Record /\ own \in [Record -> Ownership]
      BY DEF TypeOK
    <3> QED BY <1>0, <1>2, <1>37, <3>1, EnvironmentEffect
  <2>2. EntriesSettle(own, own', cl)
    BY <2>1 DEF EntriesSettle
  <2>3. Recoverable(receipt'.progress, own', cl)
    BY <1>2, <2>1, <2>2, RecoverableSettles
  <2>4. ASSUME NEW v \in Worker PROVE CallFenced(wk[v], receipt, own', stored, cl)
    <3>1. CallFenced(wk[v], receipt, own, stored, cl) /\ wk[v] \in CallState
      BY <1>2, CallTyped
    <3>2. wk[v].pc = "resume" /\ wk[v].at = receipt.at => wk[v].prog = receipt.progress
      BY <3>1 DEF CallFenced
    <3> QED BY <2>2, <3>1, <3>2, CallFencedKept
  <2>5. ASSUME NEW r \in Record, Fenced(r, own', stored', cl)
        PROVE  Covered(r, wk', receipt', own'[r])
    <3>1. Fenced(r, own, stored, cl) /\ own'[r] = own[r]
      BY <2>1, <2>5 DEF Fenced
    <3>2. Covered(r, wk, receipt, own[r])
      BY <3>1 DEF FenceOf
    <3> QED BY <2>1, <3>1, <3>2
  <2> QED BY <1>2, <2>1, <2>3, <2>4, <2>5 DEF FenceOf
<1>38. CASE UNCHANGED vars
  BY <1>38 DEF vars, FenceOf
<1>39. ASSUME NEW w \in Worker, Work(w) PROVE FenceOf(cl)'
  BY <1>13, <1>14, <1>16, <1>17, <1>18, <1>19, <1>20, <1>21, <1>24, <1>25, <1>26, <1>27, <1>28,
     <1>29, <1>30, <1>31, <1>32, <1>33, <1>34, <1>35, <1>39 DEF Work
<1> QED BY <1>12, <1>35, <1>36, <1>37, <1>38, <1>39 DEF Next

LEMMA FenceKept ==
    ASSUME TypeOK, TypeOK', SafetyInv, FenceInv, [Next]_vars
    PROVE  FenceInv'
<1>1. PICK cl : cl = Clean'
  OBVIOUS
<1>2. \A r \in Record : r \in cl => marks'[r] \subseteq {"stale"} /\ r \in Clean
  BY <1>1, MarksSteps DEF Clean, MarkGrows
<1>3. cl \subseteq Clean
  BY <1>1, <1>2 DEF Clean
<1>4. FenceOf(cl)
  <2>1. \A prog : Recoverable(prog, own, Clean) => Recoverable(prog, own, cl)
    BY <1>3 DEF Recoverable
  <2>2. \A v \in Worker : CallFenced(wk[v], receipt, own, stored, cl)
    BY <1>3, <2>1 DEF FenceInv, FenceOf, CallFenced
  <2>3. \A r \in Record : Fenced(r, own, stored, cl) => Fenced(r, own, stored, Clean)
    BY <1>3 DEF Fenced
  <2> QED BY <1>3, <2>1, <2>2, <2>3 DEF FenceInv, FenceOf
<1>5. FenceOf(cl)'
  BY <1>2, <1>4, FenceStep DEF Spared
<1> QED BY <1>1, <1>5 DEF FenceInv, FenceOf

(* Every reachable state satisfies it, for any number of overlapping calls  *)
(* and whatever fails: only a call that dies between the lock and its       *)
(* checkpoint, a Guard error on the lock and a claim can leave a lock that  *)
(* no recovery state knows of, and each of them only on its own record.     *)
THEOREM FenceInvariant == Spec => []FenceInv
<1>1. FenceInv /\ TypeOK /\ TypeOK' /\ SafetyInv /\ [Next]_vars => FenceInv'
  BY FenceKept
<1> QED BY <1>1, FenceInit, TypeCorrect, SafetyInvariant, PTL DEF Spec

(* An import that has ended leaves no phantom fence: a lock that it created *)
(* on a record the provider does not hold is in the receipt's recovery      *)
(* state, from which a retry can compensate it, unless a crash, a Guard     *)
(* error or a claim befell that lock.                                       *)
THEOREM LocksAreCompensated == Spec => []NoPhantomFence
<1>1. FenceInv => NoPhantomFence
  <2> SUFFICES ASSUME FenceInv, \A w \in Worker : wk[w].pc = "idle",
                      NEW r \in Record, own[r].state = "locked", own[r].stamp > 0, ~stored[r],
                      marks[r] \subseteq {"stale"}
               PROVE  receipt.progress[r].phase # "none"
    BY DEF NoPhantomFence
  <2>1. r \in Clean
    BY DEF Clean
  <2>2. Covered(r, wk, receipt, own[r])
    BY <2>1 DEF FenceInv, FenceOf, Fenced
  <2>3. \A w \in Worker : ~Undoes(wk[w], own[r], r)
    BY DEF Undoes
  <2> QED BY <2>1, <2>2, <2>3 DEF Covered, FenceInv, FenceOf, Recoverable
<1> QED BY <1>1, FenceInvariant, PTL

--------------------------------------------------------------------------------
(* A reported lock is there, for any number of overlapping calls and       *)
(* whatever fails: fr stands for the fresh records, whose locks no call    *)
(* has deleted after it had lost the lease.                                *)

Fresh == {r \in Record : "stale" \notin marks[r]}

(* Only durable outcomes report locks. *)
OutLocked(outs) == \A r \in Record : outs[r].locked => Successful(outs[r])

(* Guard holds every lock that these outcomes report. *)
Backs(outs, ow, fr) == \A r \in Record : r \in fr /\ outs[r].locked => Held(ow[r])

(* Neither the receipt nor the call reports a lock of r. *)
Unreported(s, p, r) == ~p.outcome[r].locked /\ ~s.outs[r].locked

(* What a call in state s knows of the locks ow while it works under the   *)
(* lease of receipt p: what it may delete is not reported, and what it may *)
(* report is there.                                                        *)
CallLocked(s, p, ow, fr) ==
    LET r == RecordOf(s)
    IN  /\ OutLocked(s.outs)
        /\ s.pc \in {"regAudit", "rollback"} => s.reg.created
        /\ s.pc = "resume" /\ s.at = p.at => s.outs = p.outcome
        /\ Running(s) /\ s.at = p.at => Backs(s.outs, ow, fr)
        /\ Running(s) /\ s.at = p.at /\ s.i \in DOMAIN Order /\ r \in fr =>
              /\ s.pc \in {"regAudit", "rollback", "ownership", "cleanup"} /\ s.reg.created =>
                    Unreported(s, p, r)
              /\ s.pc = "compensate" => Unreported(s, p, r)
              /\ s.pc \in {"regAudit", "ownership", "calling", "verify", "commit"} /\ s.reg.locked =>
                    Held(ow[r])
              /\ s.pc \in {"calling", "verify", "commit"} => s.prog[r].locked = s.reg.locked

LockOf(fr) ==
    /\ OutLocked(receipt.outcome) /\ Backs(receipt.outcome, own, fr)
    /\ \A w \in Worker : CallLocked(wk[w], receipt, own, fr)

LockInv == LockOf(Fresh)

(* The steps at which a call knows something of its lock. *)
LockedSteps == {"regAudit", "rollback", "ownership", "cleanup", "calling", "verify",
                "commit", "compensate"}

(* At the others it only has its outcomes to answer for. *)
LEMMA PlainLocked ==
    ASSUME NEW fr, NEW s, NEW p, NEW ow, OutLocked(s.outs), s.pc \notin LockedSteps \cup {"resume"},
           Running(s) /\ s.at = p.at => Backs(s.outs, ow, fr)
    PROVE  CallLocked(s, p, ow, fr)
BY DEF CallLocked, LockedSteps

LEMMA SuccessfulLocked ==
    ASSUME NEW fr, NEW ow, NEW outs \in [Record -> Outcome], OutLocked(outs)
    PROVE  /\ OutLocked(SuccessfulOutcomes(outs))
           /\ Backs(outs, ow, fr) => Backs(SuccessfulOutcomes(outs), ow, fr)
<1>1. \A r \in Record : SuccessfulOutcomes(outs)[r].locked =>
                           outs[r].locked /\ SuccessfulOutcomes(outs)[r] = outs[r]
  BY DEF SuccessfulOutcomes, NoOutcome
<1> QED BY <1>1 DEF OutLocked, Backs

(* One record's outcome is replaced. *)
LEMMA LockedWith ==
    ASSUME NEW fr, NEW ow, NEW outs \in [Record -> Outcome], OutLocked(outs),
           NEW r \in Record, NEW o, o.locked => Successful(o)
    PROVE  /\ OutLocked([outs EXCEPT ![r] = o])
           /\ Backs(outs, ow, fr) /\ (r \in fr /\ o.locked => Held(ow[r])) =>
                 Backs([outs EXCEPT ![r] = o], ow, fr)
<1>1. \A q \in Record : [outs EXCEPT ![r] = o][q] = IF q = r THEN o ELSE outs[q]
  OBVIOUS
<1> HIDE DEF OutLocked
<1>2. OutLocked([outs EXCEPT ![r] = o])
  BY <1>1 DEF OutLocked
<1>3. ASSUME Backs(outs, ow, fr), r \in fr /\ o.locked => Held(ow[r])
      PROVE  Backs([outs EXCEPT ![r] = o], ow, fr)
  BY <1>1, <1>3 DEF Backs
<1> QED BY <1>2, <1>3

(* Guard loses no lock of the records fr. *)
HeldStays(ow, ow2, fr) == \A r \in Record : r \in fr /\ Held(ow[r]) => Held(ow2[r])

LEMMA BacksStays ==
    ASSUME NEW fr, NEW ow, NEW ow2, HeldStays(ow, ow2, fr), NEW outs, Backs(outs, ow, fr)
    PROVE  Backs(outs, ow2, fr)
BY DEF HeldStays, Backs

LEMMA CallLockedStays ==
    ASSUME NEW fr, NEW s, NEW p, NEW ow, NEW ow2, HeldStays(ow, ow2, fr), CallLocked(s, p, ow, fr)
    PROVE  CallLocked(s, p, ow2, fr)
<1>1. s.i \in DOMAIN Order => RecordOf(s) \in Record
  BY OrderAssumption DEF RecordOf
<1>2. Running(s) /\ s.at = p.at => Backs(s.outs, ow2, fr)
  BY BacksStays DEF CallLocked
<1> QED BY <1>1, <1>2 DEF CallLocked, HeldStays

LEMMA IdleLocked ==
    ASSUME NEW fr, NEW p, NEW ow
    PROVE  CallLocked(IdleCall, p, ow, fr)
BY DEF CallLocked, IdleCall, OutLocked, NoOutcome, Running

LEMMA LockInit == Init => LockInv
<1> SUFFICES ASSUME NEW fr, Init PROVE LockOf(fr)
  BY DEF LockInv
<1>1. receipt = AbsentReceipt /\ \A w \in Worker : wk[w] = IdleCall
  BY DEF Init
<1>2. \A r \in Record : ~receipt.outcome[r].locked
  BY <1>1 DEF AbsentReceipt, NoOutcome
<1> QED BY <1>1, <1>2, IdleLocked DEF LockOf, OutLocked, Backs

(* A step that leaves the receipt alone and loses no lock. *)
LEMMA LockQuiet ==
    ASSUME NEW fr, TypeOK, LockOf(fr), NEW w \in Worker, NEW s, Goes(w, s), receipt' = receipt,
           HeldStays(own, own', fr), CallLocked(s, receipt, own', fr)
    PROVE  LockOf(fr)'
<1>1. /\ \A v \in Worker : v # w => wk'[v] = wk[v]
      /\ wk'[w] = s
  BY DEF Goes, TypeOK
<1>2. OutLocked(receipt'.outcome) /\ Backs(receipt'.outcome, own', fr)
  BY BacksStays DEF LockOf
<1>3. ASSUME NEW v \in Worker PROVE CallLocked(wk'[v], receipt', own', fr)
  <2>1. CallLocked(wk[v], receipt, own', fr)
    BY CallLockedStays DEF LockOf
  <2> QED BY <1>1, <2>1
<1> QED BY <1>2, <1>3 DEF LockOf

(* A step that deletes the lock of a record which the receipt does not     *)
(* report: the call works under the lease, so nobody else does.            *)
LEMMA LockDelete ==
    ASSUME NEW fr, TypeOK, LeaseInv, LockOf(fr), NEW w \in Worker, NEW s, Goes(w, s),
           receipt' = receipt, Running(wk[w]), NEW r \in Record,
           own' = [own EXCEPT ![r].state = "free"],
           r \in fr => wk[w].at = receipt.at /\ ~receipt.outcome[r].locked,
           CallLocked(s, receipt, own', fr)
    PROVE  LockOf(fr)'
<1>1. /\ \A v \in Worker : v # w => wk'[v] = wk[v]
      /\ wk'[w] = s
      /\ \A q \in Record : q # r => own'[q] = own[q]
  BY DEF Goes, TypeOK, Ownership
<1>2. CASE r \notin fr
  <2>1. HeldStays(own, own', fr)
    BY <1>1, <1>2 DEF HeldStays
  <2> QED BY <2>1, LockQuiet
<1>3. CASE r \in fr
  <2>1. OutLocked(receipt'.outcome) /\ Backs(receipt'.outcome, own', fr)
    BY <1>1, <1>3 DEF LockOf, Backs
  <2>2. ASSUME NEW v \in Worker PROVE CallLocked(wk'[v], receipt', own', fr)
    <3>1. CASE v = w
      BY <1>1, <3>1
    <3>2. CASE v # w
      <4>1. ~(Running(wk[v]) /\ wk[v].at = receipt.at)
        BY <1>3, <3>2 DEF LeaseInv, OneLeaseHolder, Running
      <4>2. CallLocked(wk[v], receipt, own, fr)
        BY DEF LockOf
      <4>3. CallLocked(wk[v], receipt, own', fr)
        BY <4>1, <4>2 DEF CallLocked
      <4> QED BY <1>1, <3>2, <4>3
    <3> QED BY <3>1, <3>2
  <2> QED BY <2>1, <2>2 DEF LockOf
<1> QED BY <1>2, <1>3

(* A step that writes the receipt: nobody else has the new token. *)
LEMMA LockWrite ==
    ASSUME NEW fr, TypeOK, TypeOK', LeaseInv, LockOf(fr), NEW w \in Worker, NEW s, Goes(w, s),
           own' = own, receipt'.at > receipt.at,
           OutLocked(receipt'.outcome), Backs(receipt'.outcome, own, fr),
           CallLocked(s, receipt', own, fr)
    PROVE  LockOf(fr)'
<1>1. /\ \A v \in Worker : v # w => wk'[v] = wk[v]
      /\ wk'[w] = s
      /\ \A v \in Worker : wk[v] \in CallState
  BY DEF Goes, TypeOK
<1>2. \A v \in Worker : wk[v].at # receipt'.at
  <2>1. \A v \in Worker : wk[v].at <= receipt.at
    BY DEF LeaseInv
  <2>2. receipt.at \in Nat /\ receipt'.at \in Nat /\ \A v \in Worker : wk[v].at \in Nat
    BY <1>1 DEF TypeOK, Receipt, CallState
  <2> QED BY <2>1, <2>2
<1>3. ASSUME NEW v \in Worker PROVE CallLocked(wk'[v], receipt', own', fr)
  <2>1. CASE v = w
    BY <1>1, <2>1
  <2>2. CASE v # w
    <3>1. CallLocked(wk[v], receipt, own, fr)
      BY DEF LockOf
    <3>2. CallLocked(wk[v], receipt', own', fr)
      BY <1>2, <3>1 DEF CallLocked
    <3> QED BY <1>1, <2>2, <3>2
  <2> QED BY <2>1, <2>2
<1> QED BY <1>3 DEF LockOf

(* A deletion under a lost lease is remembered. *)
LEMMA DeletionMarks ==
    ASSUME TypeOK, NEW w \in Worker, Current(w) \in Record,
           RollbackOwnership(w) \/ CleanupOwnership(w) \/ Compensate(w)
    PROVE  own' = own \/ wk[w].at = receipt.at \/ "stale" \in marks'[Current(w)]
BY BefellMarks DEF RollbackOwnership, CleanupOwnership, Compensate, DeleteOwnership

(* No call that has lost the lease deletes a lock of the records fr. *)
StayFresh(fr) == \A r \in Record : r \in fr => "stale" \notin marks'[r]

LEMMA LockStep ==
    ASSUME NEW fr, TypeOK, TypeOK', SafetyInv, LockOf(fr), [Next]_vars, StayFresh(fr)
    PROVE  LockOf(fr)'
<1>1. LeaseInv /\ AttributionInv /\ HeldStays(own, own, fr)
  BY DEF SafetyInv, HeldStays
<1>2. /\ OutLocked(receipt.outcome) /\ Backs(receipt.outcome, own, fr)
      /\ receipt.outcome \in [Record -> Outcome]
      /\ \A v \in Worker : /\ CallLocked(wk[v], receipt, own, fr) /\ OutLocked(wk[v].outs)
                           /\ wk[v] \in CallState /\ wk[v].outs \in [Record -> Outcome]
                           /\ Running(wk[v]) /\ wk[v].at = receipt.at => Backs(wk[v].outs, own, fr)
  BY DEF LockOf, CallLocked, TypeOK, Receipt, CallState
<1>3. ASSUME NEW w \in Worker, NEW step, Works(w, step)
      PROVE  /\ Current(w) \in Record /\ wk[w].i \in DOMAIN Order /\ wk[w].pc = step
             /\ RecordOf(wk[w]) = Current(w) /\ Prog(w) = wk[w].prog[Current(w)]
             /\ wk[w].prog \in [Record -> Progress] /\ wk[w].reg \in Registration
  BY <1>3 DEF Works, Prog, CallState, RecordOf, Current
\* a call that moves on and says no more of its lock
<1>4. ASSUME NEW w \in Worker, NEW s, Goes(w, s), receipt' = receipt, own' = own, s.at = wk[w].at,
             s.outs = wk[w].outs, Running(wk[w]), s.pc \notin LockedSteps \cup {"resume"}
      PROVE  LockOf(fr)'
  <2>1. CallLocked(s, receipt, own, fr)
    BY <1>2, <1>4, PlainLocked
  <2> QED BY <1>1, <1>4, <2>1, LockQuiet
<1>5. ASSUME NEW w \in Worker, Goes(w, IdleCall), receipt' = receipt, own' = own
      PROVE  LockOf(fr)'
  <2>1. CallLocked(IdleCall, receipt, own, fr)
    BY IdleLocked
  <2> QED BY <1>1, <1>5, <2>1, LockQuiet
\* an accepted receipt
<1>6. ASSUME NEW w \in Worker, NEW s, NEW status, NEW outs, NEW prog, Goes(w, s), ReceiptOnly,
             Accepted(w, status, outs, prog), OutLocked(outs), Backs(outs, own, fr),
             CallLocked(s, receipt', own, fr)
      PROVE  LockOf(fr)'
  <2>1. receipt'.at = receipt.at + 1 /\ receipt'.outcome = outs /\ own' = own
    BY <1>6, AcceptedToken DEF Accepted, ReceiptOnly
  <2>2. receipt'.at > receipt.at
    BY <2>1 DEF TypeOK, Receipt
  <2> QED BY <1>1, <1>6, <2>1, <2>2, LockWrite
\* an accepted checkpoint, after which the call says no more of its lock
<1>7. ASSUME NEW w \in Worker, NEW s, NEW status, NEW outs, NEW prog, Goes(w, s), ReceiptOnly,
             Accepted(w, status, outs, prog), OutLocked(outs), Backs(outs, own, fr),
             OutLocked(s.outs), Backs(s.outs, own, fr), s.pc \notin LockedSteps \cup {"resume"}
      PROVE  LockOf(fr)'
  <2>1. CallLocked(s, receipt', own, fr)
    BY <1>7, PlainLocked
  <2> QED BY <1>6, <1>7, <2>1
\* what a running call may write under its lease
<1>8. ASSUME NEW w \in Worker, NEW status, NEW outs, NEW prog, Accepted(w, status, outs, prog)
      PROVE  /\ wk[w].at = receipt.at
             /\ OutLocked(wk[w].outs) /\ OutLocked(SuccessfulOutcomes(wk[w].outs))
             /\ Running(wk[w]) \/ wk[w].pc = "resume" =>
                   Backs(wk[w].outs, own, fr) /\ Backs(SuccessfulOutcomes(wk[w].outs), own, fr)
  <2>1. wk[w].at = receipt.at
    BY <1>8 DEF Accepted
  <2>2. wk[w].pc = "resume" => wk[w].outs = receipt.outcome
    BY <1>2, <2>1 DEF CallLocked
  <2> QED BY <1>2, <2>1, <2>2, SuccessfulLocked
<1>9. ~HoldingOutcome.locked /\ ~NoOutcome.locked
  BY DEF HoldingOutcome, NoOutcome
<1>10. ASSUME NEW w \in Worker, Start(w) PROVE LockOf(fr)'
  <2>1. CASE Reserve(w)
    <3>1. PICK s : /\ Goes(w, s) /\ s.pc = "preflight"
                   /\ s.outs = [r \in Record |-> NoOutcome]
      BY <2>1, ReserveEffect DEF Shape
    <3>2. /\ own' = own /\ receipt.status = "absent"
          /\ receipt' = [receipt EXCEPT !.status = "processing", !.at = 1]
      BY <2>1, ReserveEffect DEF ReceiptOnly
    <3>3. receipt.at = 0 /\ receipt'.at = 1 /\ receipt'.outcome = receipt.outcome
      BY <1>1, <3>2 DEF TypeOK, Receipt, LeaseInv
    <3>4. OutLocked(s.outs) /\ Backs(s.outs, own, fr)
      BY <1>9, <3>1 DEF OutLocked, Backs
    <3>5. CallLocked(s, receipt', own, fr)
      BY <3>1, <3>4, PlainLocked DEF LockedSteps
    <3> QED BY <1>1, <1>2, <3>1, <3>2, <3>3, <3>5, LockWrite
  <2>2. CASE Replay(w)
    BY <2>2 DEF Replay, LockOf
  <2>3. CASE ReadReceipt(w)
    <3>1. PICK s : Goes(w, s) /\ s.pc = "resume" /\ s.outs = receipt.outcome
      BY <2>3, ReadEffect DEF Shape
    <3>2. receipt' = receipt /\ own' = own
      BY <2>3, ReadEffect DEF CallOnly
    <3>3. CallLocked(s, receipt, own, fr)
      BY <1>2, <3>1 DEF CallLocked, Running
    <3> QED BY <1>1, <3>1, <3>2, <3>3, LockQuiet
  <2> QED BY <1>10, <2>1, <2>2, <2>3 DEF Start
<1>11. ASSUME NEW w \in Worker, Resume(w) PROVE LockOf(fr)'
  <2> DEFINE outs == SuccessfulOutcomes(wk[w].outs)
  <2>1. ReceiptOnly /\ wk[w].pc = "resume"
    BY <1>11, ResumeEffect
  <2>2. CASE receipt' = receipt /\ Goes(w, IdleCall)
    BY <1>5, <2>1, <2>2 DEF ReceiptOnly
  <2>3. ASSUME NEW s, Accepted(w, "processing", outs, wk[w].prog), Goes(w, s),
               s.pc = "preflight", s.outs = outs
        PROVE  LockOf(fr)'
    <3>1. OutLocked(outs) /\ Backs(outs, own, fr)
      BY <1>8, <2>1, <2>3
    <3> HIDE DEF outs
    <3> QED BY <1>7, <2>1, <2>3, <3>1 DEF LockedSteps
  <2> QED BY <1>11, <2>2, <2>3, ResumeEffect DEF Shape
<1>12. ASSUME NEW w \in Worker, Preflight(w) PROVE LockOf(fr)'
  <2>1. PICK s : /\ Goes(w, s) /\ s.at = wk[w].at /\ s.outs = wk[w].outs
                 /\ s.pc \in {"record", "fail"}
    BY <1>12, PreflightEffect DEF Moves, Shape
  <2>2. receipt' = receipt /\ own' = own /\ Running(wk[w])
    BY <1>12, PreflightEffect DEF CallOnly, Running
  <2> QED BY <1>4, <2>1, <2>2 DEF LockedSteps
\* a record's outcome becomes holding
<1>13. ASSUME NEW w \in Worker, Current(w) \in Record
       PROVE  LET outs == [wk[w].outs EXCEPT ![Current(w)] = HoldingOutcome]
              IN  /\ OutLocked(outs)
                  /\ Backs(wk[w].outs, own, fr) => Backs(outs, own, fr)
  BY <1>2, <1>9, <1>13, LockedWith
<1>14. ASSUME NEW w \in Worker, SkipRecord(w) \/ HoldRecord(w) PROVE LockOf(fr)'
  <2>1. /\ receipt' = receipt /\ own' = own /\ Running(wk[w]) /\ Current(w) \in Record
    BY <1>14, SkipEffect, HoldEffect DEF CallOnly, Running, Works
  <2>2. PICK s : /\ Goes(w, s) /\ s.at = wk[w].at /\ s.pc = "record"
                 /\ s.outs \in {wk[w].outs, [wk[w].outs EXCEPT ![Current(w)] = HoldingOutcome]}
    BY <1>14, SkipEffect, HoldEffect DEF Shape
  <2>3. OutLocked(s.outs) /\ (Running(s) /\ s.at = receipt.at => Backs(s.outs, own, fr))
    BY <1>2, <1>13, <2>1, <2>2
  <2>4. CallLocked(s, receipt, own, fr)
    BY <2>2, <2>3, PlainLocked DEF LockedSteps
  <2> QED BY <1>1, <2>1, <2>2, <2>4, LockQuiet
<1>15. ASSUME NEW w \in Worker, ResumeRecord(w) \/ InspectRecord(w) PROVE LockOf(fr)'
  <2>1. receipt' = receipt /\ own' = own /\ Running(wk[w])
    BY <1>15, ResumeRecordEffect, InspectEffect DEF CallOnly, Running, Works
  <2>2. PICK s : /\ Goes(w, s) /\ s.at = wk[w].at /\ s.outs = wk[w].outs
                 /\ s.pc \in {"register", "intent", "fail"}
    BY <1>15, ResumeRecordEffect, InspectEffect DEF Moves, MovesWith, Shape
  <2> QED BY <1>4, <2>1, <2>2 DEF LockedSteps
<1>16. ASSUME NEW w \in Worker, ReserveIntent(w) PROVE LockOf(fr)'
  <2>1. ReceiptOnly /\ Running(wk[w]) /\ own' = own
    BY <1>16, ReserveIntentEffect DEF Running, Works, ReceiptOnly
  <2>2. PICK s :
           \/ /\ Accepted(w, "processing", SuccessfulOutcomes(wk[w].outs), wk[w].prog)
              /\ Goes(w, s) /\ s.pc = "register" /\ s.outs = wk[w].outs
           \/ /\ receipt' = receipt /\ Goes(w, s) /\ s.at = wk[w].at
              /\ s.pc = "fail" /\ s.outs = wk[w].outs
    BY <1>16, ReserveIntentEffect DEF MovesWith, Shape
  <2>3. CASE /\ Accepted(w, "processing", SuccessfulOutcomes(wk[w].outs), wk[w].prog)
             /\ Goes(w, s) /\ s.pc = "register" /\ s.outs = wk[w].outs
    BY <1>7, <1>8, <2>1, <2>3 DEF LockedSteps
  <2>4. CASE /\ receipt' = receipt /\ Goes(w, s) /\ s.at = wk[w].at
             /\ s.pc = "fail" /\ s.outs = wk[w].outs
    BY <1>4, <2>1, <2>4 DEF LockedSteps
  <2> QED BY <2>2, <2>3, <2>4
<1>17. ASSUME NEW w \in Worker, RegisterOwnership(w) PROVE LockOf(fr)'
  <2> DEFINE r == Current(w)
  <2>1. OwnOnly /\ receipt' = receipt /\ Works(w, "register") /\ Running(wk[w])
    BY <1>17, RegisterEffect DEF Running, Works, OwnOnly
  <2>2. /\ r \in Record /\ RecordOf(wk[w]) = r
        /\ own \in [Record -> Ownership] /\ own[r] \in Ownership
    BY <1>3, <2>1 DEF TypeOK
  <2>3. ASSUME NEW s, own[r].state = "free",
               own' = [own EXCEPT ![r] = [state |-> "locked", stamp |-> own[r].stamp + 1]],
               Goes(w, s), s.at = wk[w].at, s.pc = "regAudit", s.outs = wk[w].outs, s.i = wk[w].i,
               s.reg = [stamp |-> own[r].stamp + 1, locked |-> TRUE, created |-> TRUE]
        PROVE  LockOf(fr)'
    <3>1. /\ s.reg.created /\ RecordOf(s) = r /\ own'[r].state = "locked"
          /\ \A q \in Record : q # r => own'[q] = own[q]
      BY <2>2, <2>3 DEF RecordOf
    <3> HIDE DEF r
    <3>2. HeldStays(own, own', fr) /\ Held(own'[r]) /\ ~Held(own[r])
      BY <2>3, <3>1 DEF HeldStays, Held
    <3>3. r \in fr => ~receipt.outcome[r].locked
      BY <1>2, <2>2, <3>2 DEF Backs
    <3>4. r \in fr /\ s.at = receipt.at => ~s.outs[r].locked /\ Backs(s.outs, own, fr)
      BY <1>2, <2>1, <2>2, <2>3, <3>2 DEF Backs
    <3>5. s.at = receipt.at => Backs(s.outs, own', fr)
      BY <1>2, <2>1, <2>3, <3>2, BacksStays
    <3>6. CallLocked(s, receipt, own', fr)
      BY <1>2, <2>3, <3>1, <3>2, <3>3, <3>4, <3>5 DEF CallLocked, Unreported
    <3> QED BY <2>1, <2>3, <3>2, <3>6, LockQuiet
  <2>4. ASSUME NEW s, own[r].state \in {"locked", "claimed"}, own' = own,
               Goes(w, s), s.at = wk[w].at, s.pc = "ownership", s.outs = wk[w].outs, s.i = wk[w].i,
               s.reg = [stamp |-> own[r].stamp, locked |-> own[r].state = "locked",
                        created |-> FALSE]
        PROVE  LockOf(fr)'
    <3>1. ~s.reg.created /\ RecordOf(s) = r /\ Held(own[r])
      BY <2>2, <2>4 DEF RecordOf, Held
    <3> HIDE DEF r
    <3>2. CallLocked(s, receipt, own, fr)
      BY <1>2, <2>1, <2>4, <3>1 DEF CallLocked
    <3> QED BY <1>1, <2>1, <2>4, <3>2, LockQuiet
  <2>5. ASSUME NEW s, own' = own, Moves(w, s, "lockError") PROVE LockOf(fr)'
    BY <1>4, <2>1, <2>5 DEF Moves, Shape, LockedSteps
  <2> QED BY <1>17, <2>3, <2>4, <2>5, RegisterEffect DEF Shape
<1>18. ASSUME NEW w \in Worker, AuditOwnership(w) PROVE LockOf(fr)'
  <2>1. /\ receipt' = receipt /\ own' = own /\ Running(wk[w]) /\ wk[w].pc = "regAudit"
    BY <1>18, AuditEffect DEF CallOnly, Running, Works
  <2>2. PICK s : /\ Goes(w, s) /\ s.at = wk[w].at /\ s.pc \in {"ownership", "rollback"}
                 /\ s.outs = wk[w].outs /\ s.i = wk[w].i /\ s.reg = wk[w].reg
    BY <1>18, AuditEffect DEF Moves, Shape
  <2>3. CallLocked(wk[w], receipt, own, fr) /\ RecordOf(s) = RecordOf(wk[w])
    BY <1>2, <2>2 DEF RecordOf
  <2>4. CallLocked(s, receipt, own, fr)
    BY <2>1, <2>2, <2>3 DEF CallLocked, Unreported
  <2> QED BY <1>1, <2>1, <2>2, <2>4, LockQuiet
\* a call deletes the lock of its record, which it knows unreported
<1>19. ASSUME NEW w \in Worker, NEW step, NEW s, Works(w, step), Running(wk[w]), receipt' = receipt,
              own' = [own EXCEPT ![Current(w)].state = "free"], own' # own,
              RollbackOwnership(w) \/ CleanupOwnership(w) \/ Compensate(w),
              \/ step \in {"rollback", "cleanup"} /\ wk[w].reg.created
              \/ step = "compensate",
              Goes(w, s), s.at = wk[w].at, s.outs = wk[w].outs,
              s.pc \notin LockedSteps \cup {"resume"}
       PROVE  LockOf(fr)'
  <2> DEFINE r == Current(w)
  <2>1. r \in Record /\ RecordOf(wk[w]) = r /\ wk[w].i \in DOMAIN Order /\ wk[w].pc = step
    BY <1>3, <1>19
  <2>2. r \in fr => wk[w].at = receipt.at
    <3>1. wk[w].at = receipt.at \/ "stale" \in marks'[r]
      BY <1>19, <2>1, DeletionMarks
    <3> QED BY <2>1, <3>1 DEF StayFresh
  <2>3. \A q \in Record : q # r => own'[q] = own[q]
    BY <1>19, <2>1 DEF TypeOK
  <2> HIDE DEF r
  <2>4. r \in fr => ~receipt.outcome[r].locked /\ ~wk[w].outs[r].locked
    BY <1>2, <1>19, <2>1, <2>2 DEF CallLocked, Unreported
  <2>5. s.at = receipt.at => Backs(s.outs, own', fr)
    <3>1. s.at = receipt.at => Backs(wk[w].outs, own, fr)
      BY <1>2, <1>19
    <3> QED BY <1>19, <2>3, <2>4, <3>1 DEF Backs
  <2>6. CallLocked(s, receipt, own', fr)
    BY <1>2, <1>19, <2>5, PlainLocked
  <2> QED BY <1>1, <1>19, <2>1, <2>2, <2>4, <2>6, LockDelete DEF r
<1>20. ASSUME NEW w \in Worker, RollbackOwnership(w) PROVE LockOf(fr)'
  <2>1. receipt' = receipt /\ Works(w, "rollback") /\ Running(wk[w]) /\ wk[w].pc = "rollback"
    BY <1>20, RollbackEffect DEF OwnOnly, Running, Works
  <2>2. PICK s : /\ Goes(w, s) /\ s.at = wk[w].at /\ s.pc = "lockError" /\ s.outs = wk[w].outs
    BY <1>20, RollbackEffect DEF Shape
  <2>3. wk[w].reg.created
    BY <1>2, <2>1 DEF CallLocked
  <2>4. own' = own \/ own' = [own EXCEPT ![Current(w)].state = "free"]
    BY <1>20, RollbackEffect DEF Deleted
  <2>5. CASE own' = own
    BY <1>4, <2>1, <2>2, <2>5 DEF LockedSteps
  <2>6. CASE own' # own
    BY <1>19, <1>20, <2>1, <2>2, <2>3, <2>4, <2>6 DEF LockedSteps
  <2> QED BY <2>5, <2>6
<1>21. ASSUME NEW w \in Worker, ReconcileOwnership(w) PROVE LockOf(fr)'
  <2>1. receipt' = receipt /\ own' = own /\ Running(wk[w])
    BY <1>21, ReconcileEffect DEF CallOnly, Running, Works
  <2>2. PICK s : Goes(w, s) /\ s.at = wk[w].at /\ s.outs = wk[w].outs /\ s.pc = "fail"
    BY <1>21, ReconcileEffect DEF MovesWith, Shape
  <2> QED BY <1>4, <2>1, <2>2 DEF LockedSteps
<1>22. ASSUME NEW w \in Worker, CheckpointOwnership(w) PROVE LockOf(fr)'
  <2> DEFINE r == Current(w)
             g == WithOwnership(Prog(w), wk[w].reg)
             prog == [wk[w].prog EXCEPT ![r] = g]
             known == Prog(w).ready /\ ~wk[w].reg.created /\ Prog(w).locked = wk[w].reg.locked
  <2>1. ReceiptOnly /\ own' = own /\ Works(w, "ownership") /\ Running(wk[w]) /\ wk[w].pc = "ownership"
    BY <1>22, CheckpointOwnershipEffect DEF Running, Works, ReceiptOnly
  <2>2. /\ r \in Record /\ RecordOf(wk[w]) = r /\ wk[w].i \in DOMAIN Order
        /\ wk[w].prog \in [Record -> Progress] /\ Prog(w) \in Progress /\ Prog(w) = wk[w].prog[r]
        /\ CallLocked(wk[w], receipt, own, fr)
    BY <1>2, <1>3, <2>1 DEF Works
  <2>3. g.locked = wk[w].reg.locked
    BY <2>2 DEF WithOwnership, Progress
  <2>4. prog[r] = g
    BY <2>2
  <2>5. PICK s :
           /\ s.outs = wk[w].outs /\ s.i = wk[w].i /\ s.reg = wk[w].reg /\ Goes(w, s)
           /\ \/ /\ known /\ receipt' = receipt /\ s.at = wk[w].at
                 /\ s.pc = "calling" /\ s.prog = wk[w].prog
              \/ /\ Accepted(w, "processing", SuccessfulOutcomes(wk[w].outs), prog)
                 /\ s.pc = "calling" /\ s.prog = prog
              \/ /\ receipt' = receipt /\ s.at = wk[w].at
                 /\ s.pc = "cleanup" /\ s.prog = prog
    BY <1>22, CheckpointOwnershipEffect DEF Moves, MovesWith, Shape
  <2>6. RecordOf(s) = r
    BY <2>2, <2>5 DEF RecordOf
  <2> HIDE DEF r, g, prog
  <2>7. CASE known /\ receipt' = receipt /\ s.at = wk[w].at /\ s.pc = "calling" /\ s.prog = wk[w].prog
    <3>1. CallLocked(s, receipt, own, fr)
      BY <2>1, <2>2, <2>5, <2>6, <2>7 DEF CallLocked, Running
    <3> QED BY <1>1, <2>1, <2>5, <2>7, <3>1, LockQuiet
  <2>8. CASE /\ Accepted(w, "processing", SuccessfulOutcomes(wk[w].outs), prog)
             /\ s.pc = "calling" /\ s.prog = prog
    <3>1. /\ OutLocked(wk[w].outs) /\ OutLocked(SuccessfulOutcomes(wk[w].outs))
          /\ Backs(wk[w].outs, own, fr) /\ Backs(SuccessfulOutcomes(wk[w].outs), own, fr)
          /\ wk[w].at = receipt.at
      BY <1>8, <2>1, <2>8
    <3>2. CallLocked(s, receipt', own, fr)
      BY <2>1, <2>2, <2>3, <2>4, <2>5, <2>6, <2>8, <3>1 DEF CallLocked
    <3> QED BY <1>6, <2>1, <2>5, <2>8, <3>1, <3>2
  <2>9. CASE receipt' = receipt /\ s.at = wk[w].at /\ s.pc = "cleanup" /\ s.prog = prog
    <3>1. CallLocked(s, receipt, own, fr)
      BY <2>1, <2>2, <2>5, <2>6, <2>9 DEF CallLocked, Running, Unreported
    <3> QED BY <1>1, <2>1, <2>5, <2>9, <3>1, LockQuiet
  <2> QED BY <2>5, <2>7, <2>8, <2>9
<1>23. ASSUME NEW w \in Worker, CleanupOwnership(w) \/ Compensate(w) PROVE LockOf(fr)'
  <2>1. PICK step \in {"cleanup", "compensate"} :
           /\ receipt' = receipt /\ Works(w, step) /\ Running(wk[w])
    BY <1>23, CleanupEffect, CompensateEffect DEF OwnOnly, Running, Works
  <2>2. PICK s : /\ Goes(w, s) /\ s.at = wk[w].at /\ s.outs = wk[w].outs /\ s.pc \in {"hold", "fail"}
    <3>1. PICK s : \/ MovesWith(w, s, "fail", NoProgress) \/ MovesWith(w, s, "fail", Prog(w))
                   \/ MovesWith(w, s, "hold", NoProgress)
      <4>1. CASE CleanupOwnership(w)
        BY <4>1, CleanupEffect
      <4>2. CASE Compensate(w)
        BY <4>2, CompensateEffect
      <4> QED BY <1>23, <4>1, <4>2
    <3> QED BY <3>1 DEF MovesWith, Shape
  <2>3. CASE own' = own
    BY <1>4, <2>1, <2>2, <2>3 DEF LockedSteps
  <2>4. CASE own' # own
    <3>1. /\ own' = [own EXCEPT ![Current(w)].state = "free"]
          /\ wk[w].reg.created \/ step = "compensate"
      BY <1>23, <2>1, <2>4, CleanupEffect, CompensateEffect DEF Deleted, Works
    <3> QED BY <1>19, <1>23, <2>1, <2>2, <2>4, <3>1 DEF LockedSteps
  <2> QED BY <2>3, <2>4
<1>24. ASSUME NEW w \in Worker,
              ProviderCommits(w) \/ ProviderRefuses(w) \/ ProviderFails(w) \/ LeaseLost(w)
       PROVE  LockOf(fr)'
  <2>1. receipt' = receipt /\ own' = own /\ Running(wk[w]) /\ wk[w].pc = "calling"
    BY <1>24, ProviderEffect DEF Running, Works, ProviderOnly
  <2>2. PICK s : /\ Goes(w, s) /\ s.at = wk[w].at /\ s.pc \in {"verify", "commit"}
                 /\ s.outs = wk[w].outs /\ s.prog = wk[w].prog
                 /\ s.i = wk[w].i /\ s.reg = wk[w].reg
    BY <1>24, ProviderEffect DEF Moves, MovesErr, Shape
  <2>3. CallLocked(wk[w], receipt, own, fr) /\ RecordOf(s) = RecordOf(wk[w])
    BY <1>2, <2>2 DEF RecordOf
  <2>4. CallLocked(s, receipt, own, fr)
    BY <2>1, <2>2, <2>3 DEF CallLocked
  <2> QED BY <1>1, <2>1, <2>2, <2>4, LockQuiet
<1>25. ASSUME NEW w \in Worker, VerifyCommit(w) PROVE LockOf(fr)'
  <2>1. /\ receipt' = receipt /\ own' = own /\ Running(wk[w]) /\ Works(w, "verify")
        /\ wk[w].pc = "verify"
    BY <1>25, VerifyEffect DEF Running, Works, CallOnly
  <2>2. /\ CallLocked(wk[w], receipt, own, fr) /\ RecordOf(wk[w]) = Current(w)
        /\ Current(w) \in Record
    BY <1>2, <1>3, <2>1
  <2>3. CASE Goes(w, IdleCall)
    BY <1>5, <2>1, <2>3
  <2>4. ASSUME NEW s, Moves(w, s, "commit") PROVE LockOf(fr)'
    <3>1. /\ Goes(w, s) /\ s.at = wk[w].at /\ s.pc = "commit" /\ s.outs = wk[w].outs
          /\ s.prog = wk[w].prog /\ s.i = wk[w].i /\ s.reg = wk[w].reg
          /\ RecordOf(s) = RecordOf(wk[w])
      BY <2>4 DEF Moves, Shape, RecordOf
    <3>2. CallLocked(s, receipt, own, fr)
      BY <2>1, <2>2, <3>1 DEF CallLocked
    <3> QED BY <1>1, <2>1, <3>1, <3>2, LockQuiet
  <2>5. ASSUME NEW s, ~stored[Current(w)], Moves(w, s, "compensate") PROVE LockOf(fr)'
    <3>1. /\ Goes(w, s) /\ s.at = wk[w].at /\ s.pc = "compensate" /\ s.outs = wk[w].outs
          /\ s.i = wk[w].i /\ RecordOf(s) = Current(w)
      BY <2>2, <2>5 DEF Moves, Shape, RecordOf
    <3>2. ~Successful(receipt.outcome[Current(w)]) /\ ~Successful(wk[w].outs[Current(w)])
      BY <1>1, <2>2, <2>5 DEF AttributionInv, Justified
    <3>3. Unreported(s, receipt, Current(w))
      BY <1>2, <2>2, <3>1, <3>2 DEF OutLocked, Unreported
    <3>4. CallLocked(s, receipt, own, fr)
      BY <2>1, <2>2, <3>1, <3>3 DEF CallLocked
    <3> QED BY <1>1, <2>1, <3>1, <3>4, LockQuiet
  <2>6. ASSUME NEW s, MovesWith(w, s, "fail", Prog(w)) PROVE LockOf(fr)'
    BY <1>4, <2>1, <2>6 DEF MovesWith, Shape, LockedSteps
  <2> QED BY <1>25, <2>3, <2>4, <2>5, <2>6, VerifyEffect
<1>26. ASSUME NEW w \in Worker, CheckpointCommitted(w) PROVE LockOf(fr)'
  <2> DEFINE r == Current(w)
             outs == [wk[w].outs EXCEPT ![r] = CommitOutcome(w)]
             prog == [wk[w].prog EXCEPT ![r] = CommitProgress(w)]
  <2>1. /\ ReceiptOnly /\ own' = own /\ Works(w, "commit") /\ Running(wk[w]) /\ wk[w].pc = "commit"
        /\ CommitOutcome(w) \in Outcome
    BY <1>26, CommitEffect DEF Running, Works, ReceiptOnly
  <2>2. /\ r \in Record /\ RecordOf(wk[w]) = r /\ wk[w].i \in DOMAIN Order /\ Prog(w) = wk[w].prog[r]
    BY <1>3, <2>1
  <2>3. Successful(CommitOutcome(w)) /\ CommitOutcome(w).locked = Prog(w).locked
    BY DEF CommitOutcome, Successful
  <2>4. wk[w].at = receipt.at /\ r \in fr /\ CommitOutcome(w).locked => Held(own[r])
    BY <1>2, <2>1, <2>2, <2>3 DEF CallLocked
  <2>5. outs \in [Record -> Outcome]
    BY <1>2, <2>1
  <2>6. OutLocked(outs) /\ (wk[w].at = receipt.at => Backs(outs, own, fr))
    BY <1>2, <2>1, <2>2, <2>3, <2>4, LockedWith
  <2>7. PICK s :
           /\ Goes(w, s) /\ s.outs = outs /\ s.pc \in {"clear", "fail"}
           /\ \/ Accepted(w, "processing", SuccessfulOutcomes(outs), prog)
              \/ receipt' = receipt /\ s.at = wk[w].at
    BY <1>26, CommitEffect DEF Shape
  <2> HIDE DEF outs, prog
  <2>8. CASE Accepted(w, "processing", SuccessfulOutcomes(outs), prog)
    <3>1. wk[w].at = receipt.at
      BY <2>8 DEF Accepted
    <3>2. OutLocked(SuccessfulOutcomes(outs)) /\ Backs(SuccessfulOutcomes(outs), own, fr)
      BY <2>5, <2>6, <3>1, SuccessfulLocked
    <3> QED BY <1>7, <2>1, <2>6, <2>7, <2>8, <3>1, <3>2 DEF LockedSteps
  <2>9. CASE receipt' = receipt /\ s.at = wk[w].at
    <3>1. CallLocked(s, receipt, own, fr)
      BY <2>6, <2>7, <2>9, PlainLocked DEF LockedSteps
    <3> QED BY <1>1, <2>1, <2>7, <2>9, <3>1, LockQuiet
  <2> QED BY <2>7, <2>8, <2>9
<1>27. ASSUME NEW w \in Worker, ClearIntent(w) \/ CheckpointHolding(w) PROVE LockOf(fr)'
  <2>1. ReceiptOnly /\ own' = own /\ Running(wk[w]) /\ Current(w) \in Record
    BY <1>27, ClearEffect, HoldingEffect DEF Running, Works, ReceiptOnly
  <2>2. ASSUME NEW s, receipt' = receipt, Moves(w, s, "fail") PROVE LockOf(fr)'
    BY <1>4, <2>1, <2>2 DEF Moves, Shape, LockedSteps
  <2>3. ASSUME NEW s, NEW prog, Goes(w, s), s.pc = "record",
               Accepted(w, "processing", SuccessfulOutcomes(wk[w].outs), prog),
               s.outs \in {wk[w].outs, [wk[w].outs EXCEPT ![Current(w)] = HoldingOutcome]}
        PROVE  LockOf(fr)'
    <3>1. /\ OutLocked(wk[w].outs) /\ OutLocked(SuccessfulOutcomes(wk[w].outs))
          /\ Backs(wk[w].outs, own, fr) /\ Backs(SuccessfulOutcomes(wk[w].outs), own, fr)
      BY <1>8, <2>1, <2>3
    <3>2. OutLocked(s.outs) /\ Backs(s.outs, own, fr)
      BY <1>13, <2>1, <2>3, <3>1
    <3> QED BY <1>7, <2>1, <2>3, <3>1, <3>2 DEF LockedSteps
  <2> QED BY <1>27, <2>2, <2>3, ClearEffect, HoldingEffect DEF Shape
<1>28. ASSUME NEW w \in Worker, Complete(w) \/ FailImport(w) PROVE LockOf(fr)'
  <2>1. ReceiptOnly /\ own' = own /\ Running(wk[w])
    BY <1>28, TerminalEffect DEF Running, ReceiptOnly
  <2>2. CASE receipt' = receipt /\ Goes(w, IdleCall)
    BY <1>5, <2>1, <2>2
  <2>3. ASSUME NEW status, NEW outs \in {wk[w].outs, SuccessfulOutcomes(wk[w].outs)}, NEW s,
               Accepted(w, status, outs, wk[w].prog), Goes(w, s), s.pc = "report",
               s.outs = wk[w].outs
        PROVE  LockOf(fr)'
    BY <1>7, <1>8, <2>1, <2>3 DEF LockedSteps
  <2> QED BY <1>28, <2>2, <2>3, TerminalEffect DEF Shape
<1>29. ASSUME NEW w \in Worker, Report(w) \/ Crash(w) PROVE LockOf(fr)'
  BY <1>5, <1>29, LeaveEffect DEF CallOnly
<1>30. ASSUME NEW w \in Worker, Heartbeat(w) PROVE LockOf(fr)'
  <2>1. /\ own' = own /\ Running(wk[w]) /\ wk[w].pc = "calling" /\ receipt.at = wk[w].at
        /\ receipt' = [receipt EXCEPT !.at = receipt.at + 1]
    BY <1>30, HeartbeatEffect DEF Running, Works, ReceiptOnly
  <2>2. receipt'.at > receipt.at /\ receipt'.outcome = receipt.outcome
    BY <2>1 DEF TypeOK, Receipt
  <2>3. PICK s : /\ Goes(w, s) /\ s.pc = "calling" /\ s.outs = wk[w].outs /\ s.prog = wk[w].prog
                 /\ s.i = wk[w].i /\ s.reg = wk[w].reg
    BY <1>30, HeartbeatEffect DEF Shape
  <2>4. CallLocked(wk[w], receipt, own, fr) /\ RecordOf(s) = RecordOf(wk[w])
    BY <1>2, <2>3 DEF RecordOf
  <2>5. CallLocked(s, receipt', own, fr)
    BY <2>1, <2>3, <2>4 DEF CallLocked
  <2> QED BY <1>1, <1>2, <2>1, <2>2, <2>3, <2>5, LockWrite
<1>31. CASE \/ LeaseExpires
            \/ \E r \in Record : \/ ClaimOwnership(r) \/ AuditClaim(r)
                                 \/ ResolveDependency(r) \/ LoseDependency(r)
  <2>1. UNCHANGED <<receipt, wk>>
    BY <1>31, EnvironmentEffect
  <2>2. HeldStays(own, own', fr)
    <3>1. claiming \in SUBSET Record /\ own \in [Record -> Ownership]
      BY DEF TypeOK
    <3>2. \/ own' = own
          \/ \E r \in Record, state \in {"claimed", "locked"} : own' = [own EXCEPT ![r].state = state]
      BY <1>31, <3>1, EnvironmentEffect
    <3> QED BY <3>1, <3>2 DEF HeldStays, Held, Ownership
  <2>3. Backs(receipt.outcome, own', fr) /\ \A v \in Worker : CallLocked(wk[v], receipt, own', fr)
    BY <1>2, <2>2, BacksStays, CallLockedStays
  <2> QED BY <1>2, <2>1, <2>3 DEF LockOf
<1>32. CASE UNCHANGED vars
  BY <1>32 DEF vars, LockOf
<1>33. ASSUME NEW w \in Worker, Work(w) PROVE LockOf(fr)'
  BY <1>11, <1>12, <1>14, <1>15, <1>16, <1>17, <1>18, <1>20, <1>21, <1>22, <1>23, <1>24, <1>25,
     <1>26, <1>27, <1>28, <1>29, <1>33 DEF Work
<1> QED BY <1>10, <1>29, <1>30, <1>31, <1>32, <1>33 DEF Next

LEMMA LockKept ==
    ASSUME TypeOK, TypeOK', SafetyInv, LockInv, [Next]_vars
    PROVE  LockInv'
<1>1. PICK fr : fr = Fresh'
  OBVIOUS
<1>2. StayFresh(fr) /\ fr \subseteq Fresh
  BY <1>1, MarksSteps DEF Fresh, StayFresh, MarkGrows
<1>3. LockOf(fr)
  <2>1. \A outs : Backs(outs, own, Fresh) => Backs(outs, own, fr)
    BY <1>2 DEF Backs
  <2>2. \A v \in Worker : CallLocked(wk[v], receipt, own, fr)
    BY <1>2, <2>1 DEF LockInv, LockOf, CallLocked
  <2> QED BY <2>1, <2>2 DEF LockInv, LockOf
<1>4. LockOf(fr)'
  BY <1>2, <1>3, LockStep
<1> QED BY <1>1, <1>4 DEF LockInv, LockOf

(* Every reachable state satisfies it, for any number of overlapping calls *)
(* and whatever fails, claims and crashes.                                 *)
THEOREM LockInvariant == Spec => []LockInv
<1>1. LockInv /\ TypeOK /\ TypeOK' /\ SafetyInv /\ [Next]_vars => LockInv'
  BY LockKept
<1> QED BY <1>1, LockInit, TypeCorrect, SafetyInvariant, PTL DEF Spec

(* A receipt that reports a record write-locked is backed by Guard, beside *)
(* stalls and takeovers of any number of calls: only a call that deletes   *)
(* the lock after it has lost the lease takes it away.                     *)
THEOREM ReportedLocksExist == Spec => []ReportedLockExists
<1>1. LockInv => ReportedLockExists
  BY DEF LockInv, LockOf, Backs, Fresh, Held, ReportedLockExists
<1> QED BY <1>1, LockInvariant, PTL
=============================================================================
