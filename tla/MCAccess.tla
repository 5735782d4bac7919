------------------------------ MODULE MCAccess ------------------------------
(***************************************************************************)
(* Access for TLC: a built-in role and a custom one.                       *)
(***************************************************************************)
EXTENDS Access, TLC

CONSTANTS user, custom

BuiltinRoles == {user}
SeedPerms == [r \in BuiltinRoles |-> Perms]
BothRoles == {user, custom}

Symmetry == Permutations(Admins)
=============================================================================
