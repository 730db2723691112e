---------------------------- MODULE MCExchangeImport ---------------------------
(* Small archives for ExchangeImport: one record, or a record and one that  *)
(* depends on it.                                                           *)
EXTENDS ExchangeImport, TLC

CONSTANTS w1, w2, r1, r2

OneRecord == <<r1>>
TwoRecords == <<r1, r2>>
NoDeps == [r \in Record |-> {}]
ChainDeps == [r \in Record |-> IF r = r2 THEN {r1} ELSE {}]

WorkerSymmetry == Permutations(Worker)
================================================================================
