-------------------------- MODULE MCSignalsAlerts --------------------------
(* SignalsAlerts with the symmetry of its concurrent calls, resources and   *)
(* subscriptions.                                                           *)
EXTENDS SignalsAlerts, TLC

Symmetry ==
    Permutations(Evaluators) \cup Permutations(Targets) \cup Permutations(Subscriptions)
=============================================================================
