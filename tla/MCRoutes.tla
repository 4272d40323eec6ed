------------------------------ MODULE MCRoutes ------------------------------
(* Routes for TLC: two apps that share the workers, and may both be given d2. *)
EXTENDS Routes, TLC

CONSTANTS a1, a2, d1, d2

MCMay == (a1 :> {d1, d2}) @@ (a2 :> {d2})

MCOwned == {<<d1, TRUE>>}

MCId == (d1 :> 1) @@ (d2 :> 2)

Symmetry == Permutations(Workers)

=============================================================================
