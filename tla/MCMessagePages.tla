--------------------------- MODULE MCMessagePages ---------------------------
(***************************************************************************)
(* MessagePages for TLC: messages are interchangeable but for their ids'   *)
(* place among the times.                                                  *)
(***************************************************************************)
EXTENDS MessagePages, TLC

CONSTANTS m1, m2, m3, m4

SomeHigh == {m1, m2}

Symmetry == Permutations(HighIds) \cup Permutations(Messages \ HighIds)
=============================================================================
