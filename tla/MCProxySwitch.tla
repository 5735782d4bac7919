--------------------------- MODULE MCProxySwitch ---------------------------
(***************************************************************************)
(* ProxySwitch for TLC: calls on two proxies, one of them disabled.        *)
(***************************************************************************)
EXTENDS ProxySwitch, TLC

CONSTANTS p1, p2

BothProxies == {p1, p2}
OneEnabled == {p1}

Symmetry == Permutations(Requests) \cup Permutations(Clients)
=============================================================================
