------------------------- MODULE MCAccountSession -------------------------
(***************************************************************************)
(* AccountSession for TLC: how often each upset happens in a run, and the  *)
(* symmetry of the safety runs (accounts start with any assignment of      *)
(* distinct numbers, and nothing orders accounts, numbers or clients).     *)
(***************************************************************************)
EXTENDS AccountSession, TLC

BudgetPair   == [pair |-> 1, drop |-> 0, unlink |-> 1, crash |-> 0, rename |-> 0]
BudgetDrop   == [pair |-> 1, drop |-> 1, unlink |-> 0, crash |-> 0, rename |-> 0]
BudgetRepair == [pair |-> 2, drop |-> 1, unlink |-> 0, crash |-> 0, rename |-> 0]
BudgetAll    == [pair |-> 1, drop |-> 1, unlink |-> 1, crash |-> 1, rename |-> 1]

Symmetry == Permutations(Clients) \cup Permutations(Phones) \cup Permutations(Accounts)
=============================================================================
