--------------------------- MODULE MCBridgeAccess ---------------------------
(* BridgeAccess with the symmetry of its calls.                             *)
EXTENDS BridgeAccess, TLC

Symmetry == Permutations(Callers)
=============================================================================
