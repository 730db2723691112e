-------------------------- MODULE MCAssetCheckout --------------------------
(* AssetCheckout with a choice of requests and its symmetries.             *)
EXTENDS AssetCheckout, TLC

(* Early, without a policy: a person checks an asset out or reserves it,    *)
(* or a group gets it; late: a person becomes its primary user, replaces    *)
(* its users or joins them.                                                *)
Requests ==
    {q \in Input : <<q.kind, q.role, q.purpose, q.from, q.due, q.policy>> \in
        {<<"identity", "user", "checkout", 1, 0, "">>,
         <<"identity", "user", "reservation", 1, 2, "">>,
         <<"group", "primary", "checkout", 1, 0, "">>,
         <<"identity", "primary", "checkout", 2, 0, "">>,
         <<"identity", "user", "checkout", 2, 0, "replace">>,
         <<"identity", "user", "checkout", 2, 0, "group">>}}

AllAssets == {Assets}

Symmetry == Permutations(Callers) \cup Permutations(People)
=============================================================================
