---------------------------- MODULE ExchangeReceipt ----------------------------
(***************************************************************************)
(* The durable receipt of one imported Exchange package, as a value: its   *)
(* shape, the well-formedness rule Package.Validate and the transition     *)
(* rule Package.ValidateTransitionFrom that every receipt store applies    *)
(* inside its compare-and-swap.                                            *)
(*                                                                         *)
(* UpdatedAt is the compare-and-swap token.  nextUpdatedAt makes it        *)
(* strictly increasing, so it is modelled by a natural number.  The        *)
(* per-record lists Records and Progress are functions on Record with a    *)
(* "none" entry for an absent one; counts, identifiers, checksums and the  *)
(* operation token are fixed by the archive and left out.                  *)
(***************************************************************************)
EXTENDS Naturals

CONSTANT Record     \* the records of the archive's manifest

--------------------------------------------------------------------------------

ReceiptStatus == {"absent", "processing", "completed", "holding", "failed"}

OutcomeStatus == {"none", "created", "unchanged", "holding"}

Outcome == [status : OutcomeStatus, locked : BOOLEAN]

NoOutcome == [status |-> "none", locked |-> FALSE]

HoldingOutcome == [status |-> "holding", locked |-> FALSE]

(* ImportProgress: the private recovery state of one record. *)
Progress == [phase    : {"none", "intent", "committed"},
             expected : BOOLEAN,      \* ExpectedCreated
             ready    : BOOLEAN,      \* OwnershipReady
             created  : BOOLEAN,      \* OwnershipCreated
             locked   : BOOLEAN]      \* WriteLocked

NoProgress == [phase |-> "none", expected |-> FALSE, ready |-> FALSE,
               created |-> FALSE, locked |-> FALSE]

Receipt == [status   : ReceiptStatus,
            at       : Nat,           \* UpdatedAt
            outcome  : [Record -> Outcome],
            progress : [Record -> Progress]]

AbsentReceipt == [status |-> "absent", at |-> 0,
                  outcome |-> [r \in Record |-> NoOutcome],
                  progress |-> [r \in Record |-> NoProgress]]

--------------------------------------------------------------------------------

(* A created or unchanged outcome: the record is in its provider. *)
Successful(o) == o.status \in {"created", "unchanged"}

(* The outcomes a receipt keeps while it is processing or failed: holding  *)
(* ones are dropped and evaluated again.                                   *)
SuccessfulOutcomes(outs) ==
    [r \in Record |-> IF Successful(outs[r]) THEN outs[r] ELSE NoOutcome]

ValidProgress(g, o) ==
    /\ ~g.ready => ~g.created /\ ~g.locked
    /\ g.phase = "committed" =>
          /\ g.ready
          /\ o.status = (IF g.expected THEN "created" ELSE "unchanged")
          /\ o.locked = g.locked
    /\ g.phase = "intent" => o.status = "none"

(* Package.Validate, on the fields the model keeps. *)
ValidReceipt(p) ==
    /\ p.status \in {"completed", "holding"} =>
          \A r \in Record : /\ p.outcome[r].status # "none"
                            /\ p.progress[r].phase = "none"
    /\ (p.status = "holding") <=> (\E r \in Record : p.outcome[r].status = "holding")
    /\ \A r \in Record :
          /\ p.outcome[r].status = "holding" => ~p.outcome[r].locked
          /\ ValidProgress(p.progress[r], p.outcome[r])

(* One record's progress entry may only be created by a processing         *)
(* checkpoint, grow, or be dropped once it is an uncommitted intent or its *)
(* outcome is durable.                                                     *)
ValidProgressStep(next, prev, r) ==
    LET before == prev.progress[r]
        after  == next.progress[r]
    IN  CASE before.phase = "none" ->
                after.phase = "none" \/ next.status = "processing"
          [] before.phase # "none" /\ after.phase = "none" ->
                \/ next.status \in {"completed", "holding"}
                \/ before.phase = "intent"
                \/ Successful(next.outcome[r])
          [] OTHER ->
                /\ after.expected = before.expected
                /\ before.ready => after.ready
                /\ before.created => after.created
                /\ before.locked => after.locked
                /\ before.phase = "committed" => after.phase = "committed"

(* Package.ValidateTransitionFrom(previous). *)
ValidTransition(next, prev) ==
    /\ ValidReceipt(next)
    /\ \/ /\ prev.status = "processing"
          /\ \A r \in Record :
                /\ Successful(prev.outcome[r]) => next.outcome[r] = prev.outcome[r]
                /\ ValidProgressStep(next, prev, r)
                /\ Successful(next.outcome[r]) /\ ~Successful(prev.outcome[r]) =>
                      next.progress[r].phase = "committed"
       \/ /\ prev.status \in {"holding", "failed"}
          /\ next.status = "processing"
          /\ next.outcome = SuccessfulOutcomes(prev.outcome)
          /\ next.progress = prev.progress
================================================================================
