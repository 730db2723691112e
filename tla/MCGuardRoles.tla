---------------------------- MODULE MCGuardRoles ----------------------------
(* GuardRoles with the symmetry of its calls.                               *)
EXTENDS GuardRoles, TLC

Symmetry == Permutations(Callers)
=============================================================================
