-------------------------- MODULE MCReachDelivery --------------------------
(* ReachDelivery with the symmetry of its concurrent calls, which no        *)
(* safety property tells apart.                                             *)
EXTENDS ReachDelivery, TLC

Symmetry == Permutations(Callers)
=============================================================================
