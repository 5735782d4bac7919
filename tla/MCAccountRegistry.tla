------------------------- MODULE MCAccountRegistry -------------------------
(***************************************************************************)
(* AccountRegistry for TLC: ids, numbers and request slots are             *)
(* interchangeable.                                                        *)
(***************************************************************************)
EXTENDS AccountRegistry, TLC

Symmetry == Permutations(Ids) \cup Permutations(Phones) \cup Permutations(Requests)
=============================================================================
