----------------------------- MODULE MCUserRows ------------------------------
(* Bounds for UserRows: a user, a built-in plan, three calls.                *)
EXTENDS UserRows, TLC

Symmetry == Permutations(Calls)
=============================================================================
