-------------------------- MODULE ProxySwitchProofs --------------------------
(***************************************************************************)
(* Proofs about ProxySwitch, for any configurations and any number of      *)
(* calls at once.                                                          *)
(***************************************************************************)
EXTENDS ProxySwitch, TLAPS

USE EnabledAssumption, NoneAssumption
USE DEF At, Goto, Finish

\* While nothing is torn, at most one call is between its writes, and the row holds
\* what it sets.
HalfwayOK ==
    \A r \in Requests : (req[r].pc \in {"drop", "assign"} /\ ~torn) =>
        /\ row = req[r].to
        /\ ~OtherHalfway(r)

\* A client in use while a call waits to assign was made in that window, or the
\* call's disconnection did not reach it.
WindowOK == \A r \in Requests, c \in Clients : At(r, "assign") /\ InUse(c) => c \in escaped

\* Whatever may yet be dialled has the configured route, or has escaped a change.
RouteOK == \A c \in Clients : InUse(c) => via[c] = Route(proxy) \/ c \in escaped

IInv ==
    /\ TypeOK
    /\ HalfwayOK
    /\ WindowOK
    /\ RouteOK
    /\ ProxySettled

LEMMA IInvInit == Init => IInv
<1> SUFFICES ASSUME Init PROVE IInv
  OBVIOUS
<1>1. TypeOK
  BY DEF Init, TypeOK, Choices, RequestState, IdleRequest
<1>2. HalfwayOK
  BY DEF Init, HalfwayOK, IdleRequest
<1>3. WindowOK /\ RouteOK
  BY DEF Init, WindowOK, RouteOK, InUse, IdleRequest
<1>4. ProxySettled
  BY DEF Init, ProxySettled
<1> QED
  BY <1>1, <1>2, <1>3, <1>4 DEF IInv

\* The three steps of a call.
LEMMA CallStep ==
    ASSUME IInv, NEW r \in Requests, NEW x \in Choices,
           SetProxy(r, x) \/ StoreProxy(r) \/ DropClient(r) \/ AssignProxy(r)
    PROVE IInv'
<1> USE DEF IInv, TypeOK, Choices, RequestState, IdleRequest, HalfwayOK, WindowOK, RouteOK,
            ProxySettled, OtherHalfway, clientVars, InUse
<1>1. ASSUME SetProxy(r, x) PROVE IInv'
  BY <1>1 DEF SetProxy
<1>2. ASSUME StoreProxy(r) PROVE IInv'
  <2>1. CASE /\ Goto(r, "drop", req[r].to) /\ row' = req[r].to
             /\ torn' = IF OtherHalfway(r) THEN TRUE ELSE FALSE
    <3>1. TypeOK' /\ WindowOK' /\ RouteOK'
      BY <1>2, <2>1 DEF StoreProxy
    <3>2. HalfwayOK'
      BY <1>2, <2>1 DEF StoreProxy
    <3>3. ProxySettled'
      BY <1>2, <2>1 DEF StoreProxy
    <3> QED
      BY <3>1, <3>2, <3>3
  <2>2. CASE Finish(r) /\ row' = req[r].to /\ torn' = TRUE
    BY <1>2, <2>2 DEF StoreProxy
  <2>3. CASE Finish(r) /\ UNCHANGED <<row, torn>>
    BY <1>2, <2>3 DEF StoreProxy
  <2> QED
    BY <1>2, <2>1, <2>2, <2>3 DEF StoreProxy
<1>3. ASSUME DropClient(r) PROVE IInv'
  <2>1. TypeOK' /\ HalfwayOK' /\ ProxySettled'
    BY <1>3 DEF DropClient, Closed, Missed
  <2>2. \A c \in Clients : InUse(c)' => c \in escaped'
    BY <1>3 DEF DropClient, Closed, Missed
  <2> QED
    BY <2>1, <2>2
<1>4. ASSUME AssignProxy(r) PROVE IInv'
  BY <1>4 DEF AssignProxy
<1> QED
  BY <1>1, <1>2, <1>3, <1>4

\* What happens to the clients meanwhile.
LEMMA ClientStep ==
    ASSUME IInv, NEW c \in Clients,
           \/ Connect(c) \/ GetQR(c) \/ NetDrop(c) \/ NetReconnect(c) \/ AutoReconnectDial(c)
           \/ ClientGone \/ AutoReconnectWake
    PROVE IInv'
<1> USE DEF IInv, TypeOK, Choices, RequestState, IdleRequest, HalfwayOK, WindowOK, RouteOK,
            ProxySettled, OtherHalfway, InUse
<1>1. ASSUME Connect(c) PROVE IInv'
  BY <1>1 DEF Connect, prepareClient, Route
<1>2. ASSUME GetQR(c) PROVE IInv'
  BY <1>2 DEF GetQR, prepareClient, Route, Closed
<1>3. ASSUME NetDrop(c) PROVE IInv'
  <2>1. asleep' \in BOOLEAN
    BY <1>3, Zenon DEF NetDrop
  <2> QED
    BY <1>3, <2>1 DEF NetDrop
<1>4. ASSUME NetReconnect(c) PROVE IInv'
  BY <1>4 DEF NetReconnect
<1>5. ASSUME AutoReconnectDial(c) PROVE IInv'
  <2>1. asleep' \in BOOLEAN
    BY <1>5, Zenon DEF AutoReconnectDial
  <2>2. copied' \in SUBSET Clients /\ c \in copied /\ copied' \subseteq copied
    BY <1>5 DEF AutoReconnectDial
  <2>3. conn' \in [Clients -> {"closed", "lost", "open"}]
        /\ \A d \in Clients : conn'[d] = conn[d] \/ d = c
    BY <1>5 DEF AutoReconnectDial
  <2>4. UNCHANGED <<row, proxy, client, via, req, torn, escaped>>
    BY <1>5 DEF AutoReconnectDial
  <2> QED
    BY <2>1, <2>2, <2>3, <2>4
<1>6. ASSUME ClientGone PROVE IInv'
  BY <1>6 DEF ClientGone, Closed
<1>7. ASSUME AutoReconnectWake PROVE IInv'
  BY <1>7 DEF AutoReconnectWake
<1> QED
  BY <1>1, <1>2, <1>3, <1>4, <1>5, <1>6, <1>7

LEMMA IInvStep == IInv /\ [Next]_vars => IInv'
<1> SUFFICES ASSUME IInv, [Next]_vars PROVE IInv'
  OBVIOUS
<1>1. CASE Discover
  BY <1>1 DEF Discover, IInv, TypeOK, Choices, RequestState, IdleRequest, HalfwayOK, WindowOK,
     RouteOK, ProxySettled, OtherHalfway, InUse
<1>2. CASE UNCHANGED vars
  BY <1>2 DEF vars, clientVars, IInv, TypeOK, Choices, RequestState, IdleRequest, HalfwayOK,
     WindowOK, RouteOK, ProxySettled, OtherHalfway, InUse
<1>3. CASE ClientGone \/ AutoReconnectWake
  <2>1. CASE Clients # {}
    BY <1>3, <2>1, ClientStep
  <2>2. CASE Clients = {}
    BY <1>3, <2>2 DEF ClientGone, AutoReconnectWake, Closed, IInv, TypeOK, Choices, RequestState,
       HalfwayOK, WindowOK, RouteOK, ProxySettled, OtherHalfway, InUse
  <2> QED
    BY <2>1, <2>2
<1>4. None \in Choices /\ Proxies \subseteq Choices
  BY DEF Choices
<1> QED
  BY <1>1, <1>2, <1>3, <1>4, CallStep, ClientStep DEF Next, DeleteProxy

LEMMA IInvAlways == Spec => []IInv
  BY IInvInit, IInvStep, PTL DEF Spec

\* Every variable keeps its type: a client's route is an enabled proxy or none.
THEOREM TypeCorrect == Spec => []TypeOK
  BY IInvAlways, PTL DEF IInv

\* Row and memory of the proxy agree, but for the exceptions SetProxy's order makes.
THEOREM ProxySettles == Spec => []ProxySettled
  BY IInvAlways, PTL DEF IInv

\* Whatever connects, breaks and is dialled again, a connection's route is the
\* configured one unless its client was made in the window between the disconnection
\* and the assignment, or the disconnection did not reach it.
THEOREM RouteStaysCurrent == Spec => []RouteCurrent
<1>1. IInv => RouteCurrent
  BY DEF IInv, RouteOK, RouteCurrent, InUse
<1> QED
  BY <1>1, IInvAlways, PTL
=============================================================================
