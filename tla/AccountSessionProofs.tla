------------------------ MODULE AccountSessionProofs ------------------------
(***************************************************************************)
(* What AccountSession promises for every number of accounts, phones,      *)
(* clients, goroutines and upsets.                                         *)
(*                                                                         *)
(* TInv is the inductive invariant the other proofs start from: the types, *)
(* what the program counters of the goroutines and the requests say about  *)
(* the client they carry, and who made the client objects.  Relative to    *)
(* it the covering invariants (wrong numbers, dropped connections,         *)
(* orphans) are inductive, and every step moves the sessions as the        *)
(* abstract module Session says.                                           *)
(***************************************************************************)
EXTENDS AccountSession, TLAPS

\* A goroutine that dials carries a client, and no other does.
WorkerOK ==
    \A w \in Workers :
        /\ worker[w].pc = "idle" => worker[w] = IdleWorker
        /\ worker[w].pc # "idle" => worker[w].acct \in Accounts
        /\ worker[w].cl # None <=> worker[w].pc = "dial"

CallOK == \A a \in Accounts : call[a].cl # None <=> call[a].pc = "using"

OwnerKnown == \A c \in Clients : conn[c] # "closed" => owner[c] \in Accounts

MuOK == \A a \in Accounts : mu[a] # "free" => client[a] # None

TInv == TypeOK /\ WorkerOK /\ CallOK /\ OwnClient /\ OwnerKnown /\ MuOK

USE DEF Upsets, EventKinds, accountVars, clientVars, storeVars, asyncVars, ghostVars

-----------------------------------------------------------------------------
(* The records and events the actions build have their types.              *)

LEMMA CallTypes ==
    /\ {IdleCall, ConnectCall, ReadyCall} \subseteq CallState
    /\ \A c \in Clients : UseClient(c) \in CallState
BY DEF CallState, IdleCall, ConnectCall, ReadyCall, UseClient

LEMMA WorkerTypes ==
    /\ IdleWorker \in WorkerState
    /\ \A a \in Accounts : [pc |-> "sleep", acct |-> a, try |-> 0, cl |-> None] \in WorkerState
BY RetriesAssumption DEF WorkerState, IdleWorker

LEMMA EventTypes ==
    \A a \in Accounts :
        /\ <<"Connected", a, None>> \in Event
        /\ <<"LoggedOut", a, None>> \in Event
        /\ <<"Disconnected", a, None>> \in Event
        /\ \A p \in Phones : <<"PairSuccess", a, p>> \in Event
BY DEF Event

LEMMA SpendTypes ==
    ASSUME TypeOK, NEW u \in Upsets, Spend(u)
    PROVE  left' \in [Upsets -> Nat]
BY DEF TypeOK, Spend

LEMMA ServerUnlinkTypes ==
    ASSUME TypeOK, OwnerKnown, NEW p, NEW c, ServerUnlink(p, c)
    PROVE  /\ linked' \in SUBSET Phones
           /\ dev' \in [Clients -> Phones \cup {None}]
           /\ conn' \in [Clients -> {"closed", "open", "code", "online", "lost"}]
           /\ events' \in SUBSET Event
<1>1. \A x \in Kicked(p, c) : owner[x] \in Accounts
  BY DEF OwnerKnown, Kicked
<1>2. \A x \in Kicked(p, c) : <<"LoggedOut", owner[x], None>> \in Event
  BY <1>1, EventTypes
<1>3. events' \in SUBSET Event
  BY <1>2 DEF TypeOK, ServerUnlink
<1>4. linked' \in SUBSET Phones
  BY DEF TypeOK, ServerUnlink
<1>5. /\ dev' \in [Clients -> Phones \cup {None}]
      /\ conn' \in [Clients -> {"closed", "open", "code", "online", "lost"}]
  BY DEF TypeOK, ServerUnlink
<1> QED
  BY <1>3, <1>4, <1>5

LEMMA ClosedIfAnyTypes ==
    ASSUME TypeOK, NEW c
    PROVE  ClosedIfAny(c) \in [Clients -> {"closed", "open", "code", "online", "lost"}]
BY DEF TypeOK, ClosedIfAny

LEMMA PrepareTypes ==
    ASSUME TypeOK, NEW a \in Accounts, NEW c \in Clients, NEW d, prepareClient(a, c, d)
    PROVE  /\ client' \in [Accounts -> Clients \cup {None}]
           /\ owner' \in [Clients -> Accounts \cup {None}]
           /\ dev' \in [Clients -> Phones \cup {None}]
BY DEF TypeOK, prepareClient, FirstDevice

\* A new client object belongs to the account that made it, and nobody else
\* holds it: OwnClient survives prepareClient.
LEMMA PrepareOwn ==
    ASSUME TypeOK, OwnClient, NEW a \in Accounts, NEW c \in Clients, NEW d,
           prepareClient(a, c, d), UNCHANGED <<worker, call>>
    PROVE  OwnClient'
<1>1. /\ client' = [client EXCEPT ![a] = c]
      /\ owner' = [owner EXCEPT ![c] = a]
      /\ Fresh(c)
  BY DEF prepareClient
<1>2. \A b \in Accounts : client'[b] # None => owner'[client'[b]] = b
  BY <1>1, NoneAssumption DEF TypeOK, OwnClient, Fresh
<1>3. \A b \in Accounts : call'[b].cl # None => owner'[call'[b].cl] = b
  BY <1>1, NoneAssumption DEF TypeOK, OwnClient, Fresh, CallState
<1>4. \A w \in Workers : worker'[w].cl # None => owner'[worker'[w].cl] = worker'[w].acct
  BY <1>1, NoneAssumption DEF TypeOK, OwnClient, Fresh, WorkerState
<1> QED
  BY <1>2, <1>3, <1>4 DEF OwnClient

-----------------------------------------------------------------------------

\* The first state satisfies the invariant: nothing is connected or running.
LEMMA TInvInit == Init => TInv
<1> SUFFICES ASSUME Init PROVE TInv
  OBVIOUS
<1>1. TypeOK
  BY CallTypes, WorkerTypes, BudgetAssumption, MaxRejectsAssumption DEF Init, TypeOK
<1>2. WorkerOK /\ CallOK /\ OwnClient /\ OwnerKnown /\ MuOK
  BY NoneAssumption DEF Init, WorkerOK, CallOK, OwnClient, OwnerKnown, MuOK, IdleWorker, IdleCall
<1> QED
  BY <1>1, <1>2 DEF TInv

\* Every step of every actor keeps it.
LEMMA TInvStep == TInv /\ [Next]_vars => TInv'
<1> SUFFICES ASSUME TInv, [Next]_vars PROVE TInv'
  OBVIOUS
<1> USE DEF TInv
<1>1. ASSUME NEW a \in Accounts, requireConnectedAccount(a) PROVE TInv'
  <2> USE <1>1, NoneAssumption DEF requireConnectedAccount
  <2>1. TypeOK' BY CallTypes DEF TypeOK
  <2>2. CallOK'
    BY DEF TypeOK, CallOK, CallState, IdleCall, ConnectCall, ReadyCall,
        UseClient
  <2>3. OwnClient'
    BY DEF TypeOK, OwnClient, LockFree, CallOK, WorkerOK, CallState, IdleCall,
        ConnectCall, ReadyCall, UseClient
  <2>4. WorkerOK' /\ OwnerKnown' /\ MuOK' BY DEF WorkerOK, OwnerKnown, MuOK
  <2> QED BY <2>1, <2>2, <2>3, <2>4
<1>2. ASSUME NEW a \in Accounts, requireConnectedClient(a) PROVE TInv'
  <2> USE <1>2, NoneAssumption DEF requireConnectedClient
  <2>1. TypeOK' BY CallTypes DEF TypeOK, Connected
  <2>2. CallOK'
    BY DEF TypeOK, CallOK, Connected, CallState, IdleCall, ConnectCall,
        ReadyCall, UseClient
  <2>3. OwnClient'
    BY DEF TypeOK, OwnClient, LockFree, Connected, CallOK, WorkerOK,
        CallState, IdleCall, ConnectCall, ReadyCall, UseClient
  <2>4. WorkerOK' /\ OwnerKnown' /\ MuOK' BY DEF WorkerOK, OwnerKnown, MuOK
  <2> QED BY <2>1, <2>2, <2>3, <2>4
<1>3. ASSUME NEW a \in Accounts, Connect(a) PROVE TInv'
  <2> USE <1>3, NoneAssumption DEF Connect
  <2>1. TypeOK' BY CallTypes, PrepareTypes DEF TypeOK
  <2>2. CallOK'
    BY DEF TypeOK, CallOK, prepareClient, CallState, IdleCall, ConnectCall,
        ReadyCall, UseClient
  <2>3. OwnClient'
    <3>1. CASE \E c \in Clients, d \in FirstDevice : prepareClient(a, c, d) /\ UNCHANGED call
      BY <3>1, PrepareOwn
    <3>2. CASE UNCHANGED <<client, owner>>
      BY <3>2 DEF TypeOK, OwnClient, IdleCall, ReadyCall
    <3> QED BY <3>1, <3>2
  <2>4. OwnerKnown' BY DEF TypeOK, OwnerKnown, prepareClient
  <2>5. MuOK' BY DEF TypeOK, MuOK, LockFree, Connected, prepareClient
  <2>6. WorkerOK' BY DEF WorkerOK
  <2> QED BY <2>1, <2>2, <2>3, <2>4, <2>5, <2>6
<1>4. ASSUME NEW a \in Accounts, ConnectDial(a) PROVE TInv'
  <2> USE <1>4, NoneAssumption DEF ConnectDial
  <2>1. TypeOK' BY CallTypes DEF TypeOK
  <2>2. CallOK'
    BY DEF TypeOK, CallOK, CallState, IdleCall, ConnectCall, ReadyCall,
        UseClient
  <2>3. OwnClient'
    BY DEF TypeOK, OwnClient, CallOK, WorkerOK, CallState, IdleCall,
        ConnectCall, ReadyCall, UseClient
  <2>4. OwnerKnown' BY DEF TypeOK, OwnerKnown, OwnClient, MuOK
  <2>5. MuOK' BY DEF TypeOK, MuOK
  <2>6. WorkerOK' BY DEF WorkerOK
  <2> QED BY <2>1, <2>2, <2>3, <2>4, <2>5, <2>6
<1>5. ASSUME NEW a \in Accounts, GetQRDial(a) PROVE TInv'
  <2> USE <1>5, NoneAssumption DEF GetQRDial
  <2>1. TypeOK' BY DEF TypeOK
  <2>2. OwnerKnown' BY DEF TypeOK, OwnerKnown, OwnClient, MuOK
  <2>3. MuOK' BY DEF TypeOK, MuOK
  <2>4. WorkerOK' /\ CallOK' /\ OwnClient' BY DEF WorkerOK, CallOK, OwnClient
  <2> QED BY <2>1, <2>2, <2>3, <2>4
<1>6. ASSUME NEW a \in Accounts, SendMessage(a) PROVE TInv'
  <2> USE <1>6, NoneAssumption DEF SendMessage
  <2>1. TypeOK' BY CallTypes DEF TypeOK
  <2>2. CallOK'
    BY DEF TypeOK, CallOK, CallState, IdleCall, ConnectCall, ReadyCall,
        UseClient
  <2>3. OwnClient'
    BY DEF TypeOK, OwnClient, CallOK, WorkerOK, CallState, IdleCall,
        ConnectCall, ReadyCall, UseClient
  <2>4. WorkerOK' /\ OwnerKnown' /\ MuOK' BY DEF WorkerOK, OwnerKnown, MuOK
  <2> QED BY <2>1, <2>2, <2>3, <2>4
<1>7. ASSUME NEW a \in Accounts, Disconnect(a) PROVE TInv'
  <2> USE <1>7, NoneAssumption DEF Disconnect
  <2>1. TypeOK' BY ClosedIfAnyTypes DEF TypeOK, ForgetClient
  <2>2. OwnClient'
    BY DEF TypeOK, OwnClient, LockFree, ClosedIfAny, ForgetClient, CallOK,
        WorkerOK
  <2>3. OwnerKnown'
    BY DEF TypeOK, OwnerKnown, ClosedIfAny, ForgetClient, OwnClient
  <2>4. MuOK' BY DEF TypeOK, MuOK, LockFree, ClosedIfAny, ForgetClient
  <2>5. WorkerOK' /\ CallOK' BY DEF WorkerOK, CallOK
  <2> QED BY <2>1, <2>2, <2>3, <2>4, <2>5
<1>8. ASSUME NEW a \in Accounts, GetQR(a) PROVE TInv'
  <2> USE <1>8, NoneAssumption DEF GetQR
  <2>1. TypeOK' BY ClosedIfAnyTypes, PrepareTypes DEF TypeOK
  <2>2. OwnClient'
    <3>1. CASE \E c \in Clients, d \in FirstDevice : prepareClient(a, c, d)
      BY <3>1, PrepareOwn
    <3>2. CASE client' = [client EXCEPT ![a] = None] /\ UNCHANGED owner
      BY <3>2 DEF TypeOK, OwnClient
    <3> QED BY <3>1, <3>2
  <2>3. OwnerKnown' BY DEF TypeOK, OwnerKnown, ClosedIfAny, prepareClient
  <2>4. MuOK' BY DEF TypeOK, MuOK, LockFree, ClosedIfAny, prepareClient
  <2>5. WorkerOK' /\ CallOK' BY DEF WorkerOK, CallOK
  <2> QED BY <2>1, <2>2, <2>3, <2>4, <2>5
<1>9. ASSUME NEW a \in Accounts, PairPhone(a) PROVE TInv'
  <2> USE <1>9, NoneAssumption DEF PairPhone
  <2>1. TypeOK' BY DEF TypeOK
  <2>2. OwnerKnown' BY DEF TypeOK, OwnerKnown, IsConnected, OwnClient
  <2>3. WorkerOK' /\ CallOK' /\ OwnClient' /\ MuOK'
    BY DEF WorkerOK, CallOK, OwnClient, MuOK
  <2> QED BY <2>1, <2>2, <2>3
<1>10. ASSUME NEW a \in Accounts, LogoutConnected(a) PROVE TInv'
  <2> USE <1>10, NoneAssumption DEF LogoutConnected
  <2>1. TypeOK'
    BY ServerUnlinkTypes, ClosedIfAnyTypes DEF TypeOK, LoggedIn, ForgetClient
  <2>2. OwnClient'
    BY DEF TypeOK, OwnClient, LockFree, Connected, IsConnected, LoggedIn,
        ForgetClient, ClosedIfAny, ServerUnlink, CallOK, WorkerOK
  <2>3. OwnerKnown'
    BY DEF TypeOK, OwnerKnown, IsConnected, ForgetClient, ClosedIfAny,
        ServerUnlink, OwnClient
  <2>4. MuOK'
    BY DEF TypeOK, MuOK, LockFree, Connected, IsConnected, LoggedIn,
        ForgetClient, ClosedIfAny, ServerUnlink
  <2>5. WorkerOK' /\ CallOK' BY DEF WorkerOK, CallOK
  <2> QED BY <2>1, <2>2, <2>3, <2>4, <2>5
<1>11. ASSUME NEW a \in Accounts, LogoutOffline(a) PROVE TInv'
  <2> USE <1>11, NoneAssumption DEF LogoutOffline
  <2>1. TypeOK' BY ClosedIfAnyTypes DEF TypeOK, ForgetClient
  <2>2. OwnClient'
    BY DEF TypeOK, OwnClient, LockFree, ClosedIfAny, ForgetClient, CallOK,
        WorkerOK
  <2>3. OwnerKnown'
    BY DEF TypeOK, OwnerKnown, ClosedIfAny, ForgetClient, OwnClient
  <2>4. MuOK' BY DEF TypeOK, MuOK, LockFree, ClosedIfAny, ForgetClient
  <2>5. WorkerOK' /\ CallOK' BY DEF WorkerOK, CallOK
  <2> QED BY <2>1, <2>2, <2>3, <2>4, <2>5
<1>12. ASSUME NEW a \in Accounts, NEW p \in Phones, UpdatePhoneNumber(a, p) PROVE TInv'
  <2> USE <1>12, NoneAssumption DEF UpdatePhoneNumber
  <2>1. TypeOK' BY SpendTypes DEF TypeOK
  <2>2. WorkerOK' /\ CallOK' /\ OwnClient' /\ OwnerKnown' /\ MuOK'
    BY DEF WorkerOK, CallOK, OwnClient, OwnerKnown, MuOK
  <2> QED BY <2>1, <2>2
<1>13. ASSUME NEW a \in Accounts, NEW p \in Phones, HandlePairSuccess(a, p) PROVE TInv'
  <2> USE <1>13, NoneAssumption DEF HandlePairSuccess
  <2>1. TypeOK' BY MaxRejectsAssumption DEF TypeOK, Take, SpawnReject
  <2>2. WorkerOK' /\ CallOK' /\ OwnClient' /\ OwnerKnown' /\ MuOK'
    BY DEF WorkerOK, CallOK, OwnClient, OwnerKnown, MuOK
  <2> QED BY <2>1, <2>2
<1>14. ASSUME NEW a \in Accounts, HandleConnected(a) PROVE TInv'
  <2> USE <1>14, NoneAssumption DEF HandleConnected
  <2>1. TypeOK' BY MaxRejectsAssumption DEF TypeOK, Take, SpawnReject
  <2>2. WorkerOK' /\ CallOK' /\ OwnClient' /\ OwnerKnown' /\ MuOK'
    BY DEF WorkerOK, CallOK, OwnClient, OwnerKnown, MuOK
  <2> QED BY <2>1, <2>2
<1>15. ASSUME NEW a \in Accounts, HandleLoggedOut(a) PROVE TInv'
  <2> USE <1>15, NoneAssumption DEF HandleLoggedOut
  <2>1. TypeOK' BY ClosedIfAnyTypes DEF TypeOK, Take, ForgetClient
  <2>2. OwnClient'
    BY DEF TypeOK, OwnClient, LockFree, Take, ClosedIfAny, ForgetClient,
        CallOK, WorkerOK
  <2>3. OwnerKnown'
    BY DEF TypeOK, OwnerKnown, Take, ClosedIfAny, ForgetClient, OwnClient
  <2>4. MuOK' BY DEF TypeOK, MuOK, LockFree, Take, ClosedIfAny, ForgetClient
  <2>5. WorkerOK' /\ CallOK' BY DEF WorkerOK, CallOK
  <2> QED BY <2>1, <2>2, <2>3, <2>4, <2>5
<1>16. ASSUME NEW a \in Accounts, HandleDisconnected(a) PROVE TInv'
  <2> USE <1>16, NoneAssumption DEF HandleDisconnected
  <2>1. TypeOK'
    <3>1. worker' \in [Workers -> WorkerState]
      BY WorkerTypes DEF TypeOK
    <3>2. abandoned' \in [Accounts -> BOOLEAN] /\ events' \in SUBSET Event
      BY DEF TypeOK, Take
    <3> QED BY <3>1, <3>2 DEF TypeOK
  <2>2. WorkerOK'
    BY DEF TypeOK, WorkerOK, LockFree, Take, WorkerState, IdleWorker
  <2>3. OwnClient'
    BY DEF TypeOK, OwnClient, LockFree, Take, CallOK, WorkerOK, WorkerState,
        IdleWorker
  <2>4. CallOK' /\ OwnerKnown' /\ MuOK' BY DEF CallOK, OwnerKnown, MuOK
  <2> QED BY <2>1, <2>2, <2>3, <2>4
<1>17. ASSUME NEW a \in Accounts, RejectMismatch(a) PROVE TInv'
  <2> USE <1>17, NoneAssumption DEF RejectMismatch
  <2>1. TypeOK'
    BY MaxRejectsAssumption, ServerUnlinkTypes, ClosedIfAnyTypes DEF TypeOK,
        LoggedIn, ForgetClient
  <2>2. OwnClient'
    BY DEF TypeOK, OwnClient, LockFree, LoggedIn, ForgetClient, ClosedIfAny,
        ServerUnlink, CallOK, WorkerOK
  <2>3. OwnerKnown'
    BY DEF TypeOK, OwnerKnown, ForgetClient, ClosedIfAny, ServerUnlink,
        OwnClient
  <2>4. MuOK'
    BY DEF TypeOK, MuOK, LockFree, LoggedIn, ForgetClient, ClosedIfAny,
        ServerUnlink
  <2>5. WorkerOK' /\ CallOK' BY DEF WorkerOK, CallOK
  <2> QED BY <2>1, <2>2, <2>3, <2>4, <2>5
<1>18. ASSUME NEW w \in Workers, AutoReconnectWake(w) PROVE TInv'
  <2> USE <1>18, NoneAssumption DEF AutoReconnectWake
  <2>1. TypeOK' BY WorkerTypes DEF TypeOK, WorkerOK, WorkerState, NothingToDo
  <2>2. WorkerOK'
    BY DEF TypeOK, WorkerOK, LockFree, NothingToDo, WorkerState, IdleWorker
  <2>3. OwnClient'
    BY DEF TypeOK, OwnClient, LockFree, NothingToDo, CallOK, WorkerOK,
        WorkerState, IdleWorker
  <2>4. CallOK' /\ OwnerKnown' /\ MuOK' BY DEF CallOK, OwnerKnown, MuOK
  <2> QED BY <2>1, <2>2, <2>3, <2>4
<1>19. ASSUME NEW w \in Workers, AutoReconnectDial(w) PROVE TInv'
  <2> USE <1>19, NoneAssumption DEF AutoReconnectDial
  <2>1. TypeOK'
    <3>1. ~LastTry(w) => [pc |-> "sleep", acct |-> worker[w].acct, try |-> NextTry(w),
                          cl |-> None] \in WorkerState
      BY RetriesAssumption DEF TypeOK, WorkerState, LastTry, NextTry
    <3>2. worker' \in [Workers -> WorkerState]
      BY <3>1, WorkerTypes DEF TypeOK
    <3>3. abandoned' \in [Accounts -> BOOLEAN]
      BY DEF TypeOK, LastTry
    <3>4. conn' \in [Clients -> {"closed", "open", "code", "online", "lost"}]
      BY DEF TypeOK
    <3> QED BY <3>2, <3>3, <3>4 DEF TypeOK
  <2>2. WorkerOK'
    BY DEF TypeOK, WorkerOK, LastTry, NextTry, WorkerState, IdleWorker
  <2>3. OwnClient'
    BY DEF TypeOK, OwnClient, LastTry, NextTry, CallOK, WorkerOK, WorkerState,
        IdleWorker
  <2>4. OwnerKnown'
    BY DEF TypeOK, OwnerKnown, LastTry, NextTry, OwnClient, WorkerOK
  <2>5. CallOK' /\ MuOK' BY DEF CallOK, MuOK
  <2> QED BY <2>1, <2>2, <2>3, <2>4, <2>5
<1>20. ASSUME NEW c \in Clients, NetLogin(c) PROVE TInv'
  <2> USE <1>20, NoneAssumption DEF NetLogin
  <2>1. TypeOK' BY EventTypes DEF TypeOK, OwnerKnown
  <2>2. OwnerKnown' BY DEF TypeOK, OwnerKnown, OwnClient
  <2>3. WorkerOK' /\ CallOK' /\ OwnClient' /\ MuOK'
    BY DEF WorkerOK, CallOK, OwnClient, MuOK
  <2> QED BY <2>1, <2>2, <2>3
<1>21. ASSUME NEW c \in Clients, NetLoginRefused(c) PROVE TInv'
  <2> USE <1>21, NoneAssumption DEF NetLoginRefused
  <2>1. TypeOK' BY EventTypes DEF TypeOK, OwnerKnown
  <2>2. OwnerKnown' BY DEF TypeOK, OwnerKnown, OwnClient
  <2>3. WorkerOK' /\ CallOK' /\ OwnClient' /\ MuOK'
    BY DEF WorkerOK, CallOK, OwnClient, MuOK
  <2> QED BY <2>1, <2>2, <2>3
<1>22. ASSUME NEW c \in Clients, NetDrop(c) PROVE TInv'
  <2> USE <1>22, NoneAssumption DEF NetDrop
  <2>1. TypeOK'
    <3>1. owner[c] \in Accounts
      BY DEF OwnerKnown, IsConnected
    <3>2. events' \in SUBSET Event
      BY <3>1, EventTypes DEF TypeOK
    <3>3. left' \in [Upsets -> Nat]
      BY SpendTypes
    <3> QED BY <3>1, <3>2, <3>3 DEF TypeOK
  <2>2. OwnerKnown' BY DEF TypeOK, OwnerKnown, IsConnected, OwnClient
  <2>3. WorkerOK' /\ CallOK' /\ OwnClient' /\ MuOK'
    BY DEF WorkerOK, CallOK, OwnClient, MuOK
  <2> QED BY <2>1, <2>2, <2>3
<1>23. ASSUME NEW c \in Clients, NetReconnect(c) PROVE TInv'
  <2> USE <1>23, NoneAssumption DEF NetReconnect
  <2>1. TypeOK' BY DEF TypeOK
  <2>2. OwnerKnown' BY DEF TypeOK, OwnerKnown, OwnClient
  <2>3. WorkerOK' /\ CallOK' /\ OwnClient' /\ MuOK'
    BY DEF WorkerOK, CallOK, OwnClient, MuOK
  <2> QED BY <2>1, <2>2, <2>3
<1>24. ASSUME NEW c \in Clients, CodeExpires(c) PROVE TInv'
  <2> USE <1>24, NoneAssumption DEF CodeExpires
  <2>1. TypeOK' BY DEF TypeOK
  <2>2. OwnerKnown' BY DEF TypeOK, OwnerKnown, OwnClient
  <2>3. WorkerOK' /\ CallOK' /\ OwnClient' /\ MuOK'
    BY DEF WorkerOK, CallOK, OwnClient, MuOK
  <2> QED BY <2>1, <2>2, <2>3
<1>25. ASSUME NEW c \in Clients, NEW p \in Phones, PhonePairs(c, p) PROVE TInv'
  <2> USE <1>25, NoneAssumption DEF PhonePairs
  <2>1. TypeOK'
    <3>1. <<"PairSuccess", owner[c], p>> \in Event
      BY EventTypes DEF OwnerKnown
    <3>2. events' \in SUBSET Event
      BY <3>1 DEF TypeOK
    <3>3. left' \in [Upsets -> Nat]
      BY SpendTypes
    <3> QED BY <3>2, <3>3 DEF TypeOK
  <2>2. OwnerKnown' BY DEF TypeOK, OwnerKnown, OwnClient
  <2>3. WorkerOK' /\ CallOK' /\ OwnClient' /\ MuOK'
    BY DEF WorkerOK, CallOK, OwnClient, MuOK
  <2> QED BY <2>1, <2>2, <2>3
<1>26. ASSUME NEW p \in Phones, PhoneUnlinks(p) PROVE TInv'
  <2> USE <1>26, NoneAssumption DEF PhoneUnlinks
  <2>1. TypeOK' BY SpendTypes, ServerUnlinkTypes DEF TypeOK
  <2>2. OwnerKnown' BY DEF TypeOK, OwnerKnown, ServerUnlink, OwnClient
  <2>3. WorkerOK' /\ CallOK' /\ OwnClient' /\ MuOK'
    BY DEF WorkerOK, CallOK, OwnClient, MuOK
  <2> QED BY <2>1, <2>2, <2>3
<1>27. ASSUME Crash PROVE TInv'
  <2> USE <1>27, NoneAssumption DEF Crash
  <2>1. TypeOK'
    BY CallTypes, WorkerTypes, MaxRejectsAssumption, SpendTypes DEF TypeOK
  <2>2. WorkerOK'
    BY DEF TypeOK, WorkerOK, Spend, WorkerState, IdleWorker, IdleCall
  <2>3. CallOK'
    BY DEF TypeOK, CallOK, CallState, IdleCall, ConnectCall, ReadyCall,
        UseClient, IdleWorker
  <2>4. OwnClient'
    BY DEF TypeOK, OwnClient, CallOK, WorkerOK, CallState, IdleCall,
        ConnectCall, ReadyCall, UseClient, WorkerState, IdleWorker
  <2>5. OwnerKnown' BY DEF TypeOK, OwnerKnown, IdleWorker, IdleCall, OwnClient
  <2>6. MuOK' BY DEF TypeOK, MuOK, Spend, IdleWorker, IdleCall
  <2> QED BY <2>1, <2>2, <2>3, <2>4, <2>5, <2>6
<1>28. CASE UNCHANGED vars
  BY <1>28 DEF vars, TypeOK, WorkerOK, CallOK, OwnClient, OwnerKnown, MuOK
<1> QED
  BY <1>1, <1>2, <1>3, <1>4, <1>5, <1>6, <1>7, <1>8, <1>9, <1>10, <1>11, <1>12, <1>13, <1>14, <1>15, <1>16, <1>17, <1>18, <1>19, <1>20, <1>21, <1>22, <1>23, <1>24, <1>25, <1>26, <1>27, <1>28
  DEF Next, Request, RequestStep, Callback, Reconnector, Environment

LEMMA TInvAlways == Spec => []TInv
BY TInvInit, TInvStep, PTL DEF Spec

\* Every variable keeps its type, whatever the interleaving of requests,
\* callbacks and goroutines: no reconnection counts past its last delay, and no
\* goroutine or event is left behind with an account that does not exist.
THEOREM TypeCorrect == Spec => []TypeOK
BY TInvAlways, PTL DEF TInv

\* Client objects are never shared between accounts, so the callbacks of a client
\* always reach the account that holds it.
THEOREM ClientsStayApart == Spec => []OwnClient
BY TInvAlways, PTL DEF TInv

-----------------------------------------------------------------------------
(* What Connect and GetQR may rely on while they keep the lock.            *)

\* Nobody is about to dial the client that Connect or GetQR is connecting.
DialExclusive ==
    \A a \in Accounts, w \in Workers : mu[a] # "free" => worker[w].cl # client[a]

DialInv == DialTarget /\ DialExclusive

\* The lock, together with the ownership of client objects, protects the new
\* client: other accounts hold other objects, and goroutines of this account read
\* a.client only when the lock is free.
LEMMA DialInvStep == TInv /\ DialInv /\ [Next]_vars => DialInv'
<1> SUFFICES ASSUME TInv, DialInv, [Next]_vars PROVE DialInv'
  OBVIOUS
<1> USE DEF TInv
<1>1. ASSUME NEW a \in Accounts, requireConnectedAccount(a) PROVE DialInv'
  BY <1>1 DEF requireConnectedAccount, DialInv, DialTarget, DialExclusive
<1>2. ASSUME NEW a \in Accounts, requireConnectedClient(a) PROVE DialInv'
  BY <1>2 DEF requireConnectedClient, DialInv, DialTarget, DialExclusive
<1>3. ASSUME NEW a \in Accounts, Connect(a) PROVE DialInv'
  BY <1>3, NoneAssumption DEF Connect, prepareClient, Fresh, DialInv,
     DialTarget, DialExclusive, TypeOK
<1>4. ASSUME NEW a \in Accounts, ConnectDial(a) PROVE DialInv'
  BY <1>4 DEF ConnectDial, DialInv, DialTarget, DialExclusive, TypeOK, OwnClient
<1>5. ASSUME NEW a \in Accounts, GetQRDial(a) PROVE DialInv'
  BY <1>5 DEF GetQRDial, DialInv, DialTarget, DialExclusive, TypeOK, OwnClient
<1>6. ASSUME NEW a \in Accounts, SendMessage(a) PROVE DialInv'
  BY <1>6 DEF SendMessage, DialInv, DialTarget, DialExclusive
<1>7. ASSUME NEW a \in Accounts, Disconnect(a) PROVE DialInv'
  BY <1>7 DEF Disconnect, LockFree, ClosedIfAny, ForgetClient, DialInv,
     DialTarget, DialExclusive
<1>8. ASSUME NEW a \in Accounts, GetQR(a) PROVE DialInv'
  BY <1>8, NoneAssumption DEF GetQR, LockFree, ClosedIfAny, prepareClient,
     Fresh, DialInv, DialTarget, DialExclusive, TypeOK
<1>9. ASSUME NEW a \in Accounts, PairPhone(a) PROVE DialInv'
  BY <1>9 DEF PairPhone, Connected, IsConnected, DialInv, DialTarget,
     DialExclusive
<1>10. ASSUME NEW a \in Accounts, LogoutConnected(a) PROVE DialInv'
  BY <1>10 DEF LogoutConnected, Connected, IsConnected, ForgetClient,
     ClosedIfAny, ServerUnlink, DialInv, DialTarget, DialExclusive, TypeOK
<1>11. ASSUME NEW a \in Accounts, LogoutOffline(a) PROVE DialInv'
  BY <1>11 DEF LogoutOffline, LockFree, ClosedIfAny, ForgetClient, DialInv,
     DialTarget, DialExclusive
<1>12. ASSUME NEW a \in Accounts, NEW p \in Phones, UpdatePhoneNumber(a, p) PROVE DialInv'
  BY <1>12 DEF UpdatePhoneNumber, DialInv, DialTarget, DialExclusive
<1>13. ASSUME NEW a \in Accounts, NEW p \in Phones, HandlePairSuccess(a, p) PROVE DialInv'
  BY <1>13 DEF HandlePairSuccess, DialInv, DialTarget, DialExclusive
<1>14. ASSUME NEW a \in Accounts, HandleConnected(a) PROVE DialInv'
  BY <1>14 DEF HandleConnected, DialInv, DialTarget, DialExclusive
<1>15. ASSUME NEW a \in Accounts, HandleLoggedOut(a) PROVE DialInv'
  BY <1>15 DEF HandleLoggedOut, LockFree, ClosedIfAny, ForgetClient, DialInv,
     DialTarget, DialExclusive
<1>16. ASSUME NEW a \in Accounts, HandleDisconnected(a) PROVE DialInv'
  BY <1>16 DEF HandleDisconnected, DialInv, DialTarget, DialExclusive, TypeOK
<1>17. ASSUME NEW a \in Accounts, RejectMismatch(a) PROVE DialInv'
  BY <1>17 DEF RejectMismatch, LockFree, ForgetClient, ClosedIfAny,
     ServerUnlink, DialInv, DialTarget, DialExclusive, TypeOK
<1>18. ASSUME NEW w \in Workers, AutoReconnectWake(w) PROVE DialInv'
  BY <1>18 DEF AutoReconnectWake, LockFree, DialInv, DialTarget, DialExclusive,
     OwnClient, WorkerOK, IdleWorker
<1>19. ASSUME NEW w \in Workers, AutoReconnectDial(w) PROVE DialInv'
  <2>1. /\ mu' = mu /\ client' = client
        /\ conn' = conn \/ conn' = [conn EXCEPT ![worker[w].cl] = "open"]
        /\ \A v \in Workers : worker'[v].cl \in {worker[v].cl, None}
    BY <1>19 DEF AutoReconnectDial, TypeOK, IdleWorker
  <2>2. DialTarget'
    BY <2>1 DEF DialInv, DialTarget, DialExclusive, TypeOK
  <2>3. DialExclusive'
    BY <2>1 DEF DialInv, DialTarget, DialExclusive
  <2> QED BY <2>2, <2>3 DEF DialInv
<1>20. ASSUME NEW c \in Clients, NetLogin(c) PROVE DialInv'
  BY <1>20 DEF NetLogin, DialInv, DialTarget, DialExclusive
<1>21. ASSUME NEW c \in Clients, NetLoginRefused(c) PROVE DialInv'
  BY <1>21 DEF NetLoginRefused, DialInv, DialTarget, DialExclusive
<1>22. ASSUME NEW c \in Clients, NetDrop(c) PROVE DialInv'
  BY <1>22 DEF NetDrop, IsConnected, DialInv, DialTarget, DialExclusive
<1>23. ASSUME NEW c \in Clients, NetReconnect(c) PROVE DialInv'
  BY <1>23 DEF NetReconnect, DialInv, DialTarget, DialExclusive
<1>24. ASSUME NEW c \in Clients, CodeExpires(c) PROVE DialInv'
  BY <1>24 DEF CodeExpires, DialInv, DialTarget, DialExclusive
<1>25. ASSUME NEW c \in Clients, NEW p \in Phones, PhonePairs(c, p) PROVE DialInv'
  BY <1>25 DEF PhonePairs, DialInv, DialTarget, DialExclusive
<1>26. ASSUME NEW p \in Phones, PhoneUnlinks(p) PROVE DialInv'
  BY <1>26 DEF PhoneUnlinks, ServerUnlink, DialInv, DialTarget, DialExclusive,
     TypeOK
<1>27. ASSUME Crash PROVE DialInv'
  BY <1>27 DEF Crash, DialInv, DialTarget, DialExclusive
<1>28. CASE UNCHANGED vars
  BY <1>28 DEF vars, DialInv, DialTarget, DialExclusive
<1> QED
  BY <1>1, <1>2, <1>3, <1>4, <1>5, <1>6, <1>7, <1>8, <1>9, <1>10, <1>11, <1>12, <1>13, <1>14, <1>15, <1>16, <1>17, <1>18, <1>19, <1>20, <1>21, <1>22, <1>23, <1>24, <1>25, <1>26, <1>27, <1>28
  DEF Next, Request, RequestStep, Callback, Reconnector, Environment

\* Between prepareClient and the end of its network call the new client stays in
\* place and closed: Connect and GetQR never dial a nil client, nor one a
\* goroutine has connected meanwhile.
THEOREM DialTargetSafe == Spec => []DialTarget
<1>1. Init => DialInv
  BY NoneAssumption DEF Init, DialInv, DialTarget, DialExclusive
<1> QED
  BY <1>1, DialInvStep, TInvAlways, PTL DEF Spec, DialInv

-----------------------------------------------------------------------------
(* Nothing that has to be noticed is forgotten: a wrong number, a dropped  *)
(* connection, a client the account let go of.  Each invariant is          *)
(* inductive relative to TInv.                                             *)

\* The check of the Connected event and the goroutine of rejectMismatch relieve
\* each other; a session only becomes logged in with that event.
LEMMA MismatchStep == TInv /\ MismatchCovered /\ [Next]_vars => MismatchCovered'
<1> SUFFICES ASSUME TInv, MismatchCovered, [Next]_vars PROVE MismatchCovered'
  OBVIOUS
<1> USE MaxRejectsAssumption DEF TInv
<1>1. ASSUME NEW a \in Accounts, requireConnectedAccount(a) PROVE MismatchCovered'
  BY <1>1 DEF requireConnectedAccount, MismatchCovered, WrongNumber, LoggedIn
<1>2. ASSUME NEW a \in Accounts, requireConnectedClient(a) PROVE MismatchCovered'
  BY <1>2 DEF requireConnectedClient, MismatchCovered, WrongNumber, LoggedIn
<1>3. ASSUME NEW a \in Accounts, Connect(a) PROVE MismatchCovered'
  BY <1>3 DEF Connect, prepareClient, Fresh, MismatchCovered, WrongNumber,
     LoggedIn, TypeOK
<1>4. ASSUME NEW a \in Accounts, ConnectDial(a) PROVE MismatchCovered'
  BY <1>4 DEF ConnectDial, MismatchCovered, WrongNumber, LoggedIn, TypeOK
<1>5. ASSUME NEW a \in Accounts, GetQRDial(a) PROVE MismatchCovered'
  BY <1>5 DEF GetQRDial, MismatchCovered, WrongNumber, LoggedIn, TypeOK
<1>6. ASSUME NEW a \in Accounts, SendMessage(a) PROVE MismatchCovered'
  BY <1>6 DEF SendMessage, MismatchCovered, WrongNumber, LoggedIn
<1>7. ASSUME NEW a \in Accounts, Disconnect(a) PROVE MismatchCovered'
  BY <1>7 DEF Disconnect, ClosedIfAny, ForgetClient, MismatchCovered,
     WrongNumber, LoggedIn
<1>8. ASSUME NEW a \in Accounts, GetQR(a) PROVE MismatchCovered'
  BY <1>8 DEF GetQR, ClosedIfAny, prepareClient, Fresh, MismatchCovered,
     WrongNumber, LoggedIn, TypeOK
<1>9. ASSUME NEW a \in Accounts, PairPhone(a) PROVE MismatchCovered'
  BY <1>9 DEF PairPhone, MismatchCovered, WrongNumber, LoggedIn
<1>10. ASSUME NEW a \in Accounts, LogoutConnected(a) PROVE MismatchCovered'
  BY <1>10 DEF LogoutConnected, LoggedIn, ForgetClient, ClosedIfAny,
     ServerUnlink, MismatchCovered, WrongNumber, TypeOK
<1>11. ASSUME NEW a \in Accounts, LogoutOffline(a) PROVE MismatchCovered'
  BY <1>11 DEF LogoutOffline, ClosedIfAny, ForgetClient, MismatchCovered,
     WrongNumber, LoggedIn
<1>12. ASSUME NEW a \in Accounts, NEW p \in Phones, UpdatePhoneNumber(a, p) PROVE MismatchCovered'
  BY <1>12 DEF UpdatePhoneNumber, MismatchCovered, WrongNumber, LoggedIn, TypeOK
<1>13. ASSUME NEW a \in Accounts, NEW p \in Phones, HandlePairSuccess(a, p) PROVE MismatchCovered'
  BY <1>13 DEF HandlePairSuccess, Take, SpawnReject, MismatchCovered,
     WrongNumber, LoggedIn, TypeOK
<1>14. ASSUME NEW a \in Accounts, HandleConnected(a) PROVE MismatchCovered'
  BY <1>14 DEF HandleConnected, Take, SpawnReject, MismatchCovered, WrongNumber,
     LoggedIn, TypeOK
<1>15. ASSUME NEW a \in Accounts, HandleLoggedOut(a) PROVE MismatchCovered'
  BY <1>15 DEF HandleLoggedOut, Take, ClosedIfAny, ForgetClient,
     MismatchCovered, WrongNumber, LoggedIn
<1>16. ASSUME NEW a \in Accounts, HandleDisconnected(a) PROVE MismatchCovered'
  BY <1>16 DEF HandleDisconnected, Take, MismatchCovered, WrongNumber, LoggedIn
<1>17. ASSUME NEW a \in Accounts, RejectMismatch(a) PROVE MismatchCovered'
  BY <1>17 DEF RejectMismatch, LoggedIn, ForgetClient, ClosedIfAny,
     ServerUnlink, MismatchCovered, WrongNumber, TypeOK
<1>18. ASSUME NEW w \in Workers, AutoReconnectWake(w) PROVE MismatchCovered'
  BY <1>18 DEF AutoReconnectWake, MismatchCovered, WrongNumber, LoggedIn
<1>19. ASSUME NEW w \in Workers, AutoReconnectDial(w) PROVE MismatchCovered'
  BY <1>19 DEF AutoReconnectDial, MismatchCovered, WrongNumber, LoggedIn, TypeOK
<1>20. ASSUME NEW c \in Clients, NetLogin(c) PROVE MismatchCovered'
  BY <1>20 DEF NetLogin, MismatchCovered, WrongNumber, LoggedIn, OwnClient
<1>21. ASSUME NEW c \in Clients, NetLoginRefused(c) PROVE MismatchCovered'
  BY <1>21 DEF NetLoginRefused, MismatchCovered, WrongNumber, LoggedIn
<1>22. ASSUME NEW c \in Clients, NetDrop(c) PROVE MismatchCovered'
  BY <1>22 DEF NetDrop, MismatchCovered, WrongNumber, LoggedIn
<1>23. ASSUME NEW c \in Clients, NetReconnect(c) PROVE MismatchCovered'
  BY <1>23 DEF NetReconnect, MismatchCovered, WrongNumber, LoggedIn
<1>24. ASSUME NEW c \in Clients, CodeExpires(c) PROVE MismatchCovered'
  BY <1>24 DEF CodeExpires, MismatchCovered, WrongNumber, LoggedIn
<1>25. ASSUME NEW c \in Clients, NEW p \in Phones, PhonePairs(c, p) PROVE MismatchCovered'
  BY <1>25 DEF PhonePairs, MismatchCovered, WrongNumber, LoggedIn
<1>26. ASSUME NEW p \in Phones, PhoneUnlinks(p) PROVE MismatchCovered'
  BY <1>26 DEF PhoneUnlinks, ServerUnlink, MismatchCovered, WrongNumber,
     LoggedIn, TypeOK
<1>27. ASSUME Crash PROVE MismatchCovered'
  BY <1>27 DEF Crash, MismatchCovered, LoggedIn
<1>28. CASE UNCHANGED vars
  BY <1>28 DEF vars, MismatchCovered, WrongNumber, LoggedIn
<1> QED
  BY <1>1, <1>2, <1>3, <1>4, <1>5, <1>6, <1>7, <1>8, <1>9, <1>10, <1>11, <1>12, <1>13, <1>14, <1>15, <1>16, <1>17, <1>18, <1>19, <1>20, <1>21, <1>22, <1>23, <1>24, <1>25, <1>26, <1>27, <1>28
  DEF Next, Request, RequestStep, Callback, Reconnector, Environment

\* Goroutine w is at work on the client of account a.
Recovers(w, a) ==
    /\ worker[w].acct = a
    /\ worker[w].pc = "sleep" \/ worker[w].cl = client[a]

\* The Disconnected callback, the delays of autoReconnect and the dial relieve
\* each other until the client is up again or recovery is given up.
LEMMA DropStep == TInv /\ DropCovered /\ [Next]_vars => DropCovered'
<1> SUFFICES ASSUME TInv, DropCovered, [Next]_vars PROVE DropCovered'
  OBVIOUS
<1> USE DEF TInv
<1>1. ASSUME NEW a \in Accounts, requireConnectedAccount(a) PROVE DropCovered'
  BY <1>1 DEF requireConnectedAccount, DropCovered
<1>2. ASSUME NEW a \in Accounts, requireConnectedClient(a) PROVE DropCovered'
  BY <1>2 DEF requireConnectedClient, DropCovered
<1>3. ASSUME NEW a \in Accounts, Connect(a) PROVE DropCovered'
  BY <1>3 DEF Connect, prepareClient, Fresh, DropCovered, TypeOK
<1>4. ASSUME NEW a \in Accounts, ConnectDial(a) PROVE DropCovered'
  BY <1>4 DEF ConnectDial, DropCovered, TypeOK
<1>5. ASSUME NEW a \in Accounts, GetQRDial(a) PROVE DropCovered'
  BY <1>5 DEF GetQRDial, DropCovered, TypeOK
<1>6. ASSUME NEW a \in Accounts, SendMessage(a) PROVE DropCovered'
  BY <1>6 DEF SendMessage, DropCovered
<1>7. ASSUME NEW a \in Accounts, Disconnect(a) PROVE DropCovered'
  BY <1>7 DEF Disconnect, ClosedIfAny, ForgetClient, DropCovered
<1>8. ASSUME NEW a \in Accounts, GetQR(a) PROVE DropCovered'
  BY <1>8, NoneAssumption DEF GetQR, ClosedIfAny, prepareClient, Fresh,
     DropCovered, TypeOK
<1>9. ASSUME NEW a \in Accounts, PairPhone(a) PROVE DropCovered'
  BY <1>9 DEF PairPhone, DropCovered
<1>10. ASSUME NEW a \in Accounts, LogoutConnected(a) PROVE DropCovered'
  BY <1>10 DEF LogoutConnected, ForgetClient, ClosedIfAny, ServerUnlink,
     DropCovered, TypeOK
<1>11. ASSUME NEW a \in Accounts, LogoutOffline(a) PROVE DropCovered'
  BY <1>11 DEF LogoutOffline, ClosedIfAny, ForgetClient, DropCovered
<1>12. ASSUME NEW a \in Accounts, NEW p \in Phones, UpdatePhoneNumber(a, p) PROVE DropCovered'
  BY <1>12 DEF UpdatePhoneNumber, DropCovered
<1>13. ASSUME NEW a \in Accounts, NEW p \in Phones, HandlePairSuccess(a, p) PROVE DropCovered'
  BY <1>13 DEF HandlePairSuccess, Take, DropCovered
<1>14. ASSUME NEW a \in Accounts, HandleConnected(a) PROVE DropCovered'
  BY <1>14 DEF HandleConnected, Take, DropCovered
<1>15. ASSUME NEW a \in Accounts, HandleLoggedOut(a) PROVE DropCovered'
  BY <1>15 DEF HandleLoggedOut, Take, ClosedIfAny, ForgetClient, DropCovered
<1>16. ASSUME NEW a \in Accounts, HandleDisconnected(a) PROVE DropCovered'
  BY <1>16 DEF HandleDisconnected, Take, DropCovered, TypeOK, WorkerOK
<1>17. ASSUME NEW a \in Accounts, RejectMismatch(a) PROVE DropCovered'
  BY <1>17 DEF RejectMismatch, ForgetClient, ClosedIfAny, ServerUnlink,
     DropCovered, TypeOK
<1>18. ASSUME NEW w \in Workers, AutoReconnectWake(w) PROVE DropCovered'
  BY <1>18 DEF AutoReconnectWake, NothingToDo, DropCovered, Connected,
     IsConnected
<1>19. ASSUME NEW w \in Workers, AutoReconnectDial(w) PROVE DropCovered'
  <2> SUFFICES ASSUME NEW a \in Accounts, client[a] # None, conn'[client[a]] = "lost"
               PROVE  \/ <<"Disconnected", a, None>> \in events
                      \/ \E v \in Workers : Recovers(v, a)'
                      \/ abandoned'[a]
    BY <1>19 DEF AutoReconnectDial, DropCovered, Recovers
  <2>1. worker[w].pc = "dial" /\ worker[w].cl \in Clients /\ worker[w].acct \in Accounts
    BY <1>19 DEF AutoReconnectDial, WorkerOK, TypeOK, WorkerState
  <2>2. conn[client[a]] = "lost"
    BY <1>19, <2>1 DEF AutoReconnectDial, TypeOK
  <2>3. \/ <<"Disconnected", a, None>> \in events
        \/ \E v \in Workers : Recovers(v, a)
        \/ abandoned[a]
    BY <2>2 DEF DropCovered, Recovers
  <2>4. abandoned[a] => abandoned'[a]
    BY <1>19 DEF AutoReconnectDial, TypeOK
  <2>5. ASSUME NEW v \in Workers, Recovers(v, a), v # w
        PROVE  Recovers(v, a)'
    BY <1>19, <2>5 DEF AutoReconnectDial, TypeOK, Recovers
  <2>6. ASSUME Recovers(w, a)
        PROVE  Recovers(w, a)' \/ abandoned'[a]
    <3>1. worker[w].acct = a /\ worker[w].cl = client[a]
      BY <2>1, <2>6 DEF Recovers
    <3>2. conn' = conn
      BY <1>19, <3>1 DEF AutoReconnectDial, TypeOK
    <3>3. CASE LastTry(w)
      BY <1>19, <3>1, <3>2, <3>3, <2>1, <2>2 DEF AutoReconnectDial, TypeOK
    <3>4. CASE ~LastTry(w)
      BY <1>19, <3>1, <3>2, <3>4, <2>1, <2>2 DEF AutoReconnectDial, TypeOK, Recovers
    <3> QED BY <3>3, <3>4
  <2> QED
    BY <2>3, <2>4, <2>5, <2>6, <1>19 DEF AutoReconnectDial
<1>20. ASSUME NEW c \in Clients, NetLogin(c) PROVE DropCovered'
  BY <1>20 DEF NetLogin, DropCovered
<1>21. ASSUME NEW c \in Clients, NetLoginRefused(c) PROVE DropCovered'
  BY <1>21 DEF NetLoginRefused, DropCovered
<1>22. ASSUME NEW c \in Clients, NetDrop(c) PROVE DropCovered'
  BY <1>22 DEF NetDrop, DropCovered, OwnClient
<1>23. ASSUME NEW c \in Clients, NetReconnect(c) PROVE DropCovered'
  BY <1>23 DEF NetReconnect, DropCovered
<1>24. ASSUME NEW c \in Clients, CodeExpires(c) PROVE DropCovered'
  BY <1>24 DEF CodeExpires, DropCovered
<1>25. ASSUME NEW c \in Clients, NEW p \in Phones, PhonePairs(c, p) PROVE DropCovered'
  BY <1>25 DEF PhonePairs, DropCovered
<1>26. ASSUME NEW p \in Phones, PhoneUnlinks(p) PROVE DropCovered'
  BY <1>26 DEF PhoneUnlinks, ServerUnlink, DropCovered, TypeOK
<1>27. ASSUME Crash PROVE DropCovered'
  BY <1>27 DEF Crash, DropCovered
<1>28. CASE UNCHANGED vars
  BY <1>28 DEF vars, DropCovered
<1> QED
  BY <1>1, <1>2, <1>3, <1>4, <1>5, <1>6, <1>7, <1>8, <1>9, <1>10, <1>11, <1>12, <1>13, <1>14, <1>15, <1>16, <1>17, <1>18, <1>19, <1>20, <1>21, <1>22, <1>23, <1>24, <1>25, <1>26, <1>27, <1>28
  DEF Next, Request, RequestStep, Callback, Reconnector, Environment

-----------------------------------------------------------------------------
(* Orphans.  As long as no connection has dropped nothing is lost, no      *)
(* goroutine runs, and a client is closed before it is let go of.          *)

Quiet ==
    /\ \A c \in Clients : conn[c] # "lost"
    /\ \A a \in Accounts : <<"Disconnected", a, None>> \notin events
    /\ \A w \in Workers : worker[w].pc = "idle"
    /\ NoOrphans

NoDropInv ==
    /\ left["drop"] <= Budget["drop"]
    /\ left["drop"] = Budget["drop"] => Quiet

LEMMA NoDropStep == TInv /\ NoDropInv /\ [Next]_vars => NoDropInv'
<1> SUFFICES ASSUME TInv, NoDropInv, [Next]_vars PROVE NoDropInv'
  OBVIOUS
<1> USE BudgetAssumption DEF TInv
<1>1. ASSUME NEW a \in Accounts, requireConnectedAccount(a) PROVE NoDropInv'
  BY <1>1 DEF requireConnectedAccount, NoDropInv, Quiet, NoOrphans, Orphan
<1>2. ASSUME NEW a \in Accounts, requireConnectedClient(a) PROVE NoDropInv'
  BY <1>2 DEF requireConnectedClient, NoDropInv, Quiet, NoOrphans, Orphan
<1>3. ASSUME NEW a \in Accounts, Connect(a) PROVE NoDropInv'
  BY <1>3, NoneAssumption DEF Connect, Connected, prepareClient, NoDropInv,
     Quiet, NoOrphans, Orphan, TypeOK, IsConnected
<1>4. ASSUME NEW a \in Accounts, ConnectDial(a) PROVE NoDropInv'
  BY <1>4 DEF ConnectDial, NoDropInv, Quiet, NoOrphans, Orphan, TypeOK,
     OwnClient, MuOK
<1>5. ASSUME NEW a \in Accounts, GetQRDial(a) PROVE NoDropInv'
  BY <1>5 DEF GetQRDial, NoDropInv, Quiet, NoOrphans, Orphan, TypeOK, OwnClient,
     MuOK
<1>6. ASSUME NEW a \in Accounts, SendMessage(a) PROVE NoDropInv'
  BY <1>6 DEF SendMessage, NoDropInv, Quiet, NoOrphans, Orphan
<1>7. ASSUME NEW a \in Accounts, Disconnect(a) PROVE NoDropInv'
  BY <1>7 DEF Disconnect, ClosedIfAny, ForgetClient, NoDropInv, Quiet,
     NoOrphans, Orphan, TypeOK
<1>8. ASSUME NEW a \in Accounts, GetQR(a) PROVE NoDropInv'
  BY <1>8, NoneAssumption DEF GetQR, ClosedIfAny, prepareClient, NoDropInv,
     Quiet, NoOrphans, Orphan, TypeOK
<1>9. ASSUME NEW a \in Accounts, PairPhone(a) PROVE NoDropInv'
  BY <1>9 DEF PairPhone, Connected, NoDropInv, Quiet, NoOrphans, Orphan,
     OwnClient
<1>10. ASSUME NEW a \in Accounts, LogoutConnected(a) PROVE NoDropInv'
  BY <1>10 DEF LogoutConnected, ForgetClient, ClosedIfAny, ServerUnlink,
     NoDropInv, Quiet, NoOrphans, Orphan, TypeOK
<1>11. ASSUME NEW a \in Accounts, LogoutOffline(a) PROVE NoDropInv'
  BY <1>11 DEF LogoutOffline, ClosedIfAny, ForgetClient, NoDropInv, Quiet,
     NoOrphans, Orphan, TypeOK
<1>12. ASSUME NEW a \in Accounts, NEW p \in Phones, UpdatePhoneNumber(a, p) PROVE NoDropInv'
  BY <1>12 DEF UpdatePhoneNumber, Spend, NoDropInv, Quiet, NoOrphans, Orphan
<1>13. ASSUME NEW a \in Accounts, NEW p \in Phones, HandlePairSuccess(a, p) PROVE NoDropInv'
  BY <1>13 DEF HandlePairSuccess, Take, NoDropInv, Quiet, NoOrphans, Orphan
<1>14. ASSUME NEW a \in Accounts, HandleConnected(a) PROVE NoDropInv'
  BY <1>14 DEF HandleConnected, Take, NoDropInv, Quiet, NoOrphans, Orphan
<1>15. ASSUME NEW a \in Accounts, HandleLoggedOut(a) PROVE NoDropInv'
  BY <1>15 DEF HandleLoggedOut, Take, ClosedIfAny, ForgetClient, NoDropInv,
     Quiet, NoOrphans, Orphan, TypeOK
<1>16. ASSUME NEW a \in Accounts, HandleDisconnected(a) PROVE NoDropInv'
  BY <1>16 DEF HandleDisconnected, Take, NoDropInv, Quiet
<1>17. ASSUME NEW a \in Accounts, RejectMismatch(a) PROVE NoDropInv'
  BY <1>17 DEF RejectMismatch, ForgetClient, ClosedIfAny, ServerUnlink,
     NoDropInv, Quiet, NoOrphans, Orphan, TypeOK
<1>18. ASSUME NEW w \in Workers, AutoReconnectWake(w) PROVE NoDropInv'
  BY <1>18 DEF AutoReconnectWake, NoDropInv, Quiet
<1>19. ASSUME NEW w \in Workers, AutoReconnectDial(w) PROVE NoDropInv'
  BY <1>19 DEF AutoReconnectDial, NoDropInv, Quiet
<1>20. ASSUME NEW c \in Clients, NetLogin(c) PROVE NoDropInv'
  BY <1>20 DEF NetLogin, NoDropInv, Quiet, NoOrphans, Orphan
<1>21. ASSUME NEW c \in Clients, NetLoginRefused(c) PROVE NoDropInv'
  BY <1>21 DEF NetLoginRefused, NoDropInv, Quiet, NoOrphans, Orphan
<1>22. ASSUME NEW c \in Clients, NetDrop(c) PROVE NoDropInv'
  BY <1>22 DEF NetDrop, Spend, NoDropInv, TypeOK
<1>23. ASSUME NEW c \in Clients, NetReconnect(c) PROVE NoDropInv'
  BY <1>23 DEF NetReconnect, NoDropInv, Quiet
<1>24. ASSUME NEW c \in Clients, CodeExpires(c) PROVE NoDropInv'
  BY <1>24 DEF CodeExpires, NoDropInv, Quiet, NoOrphans, Orphan
<1>25. ASSUME NEW c \in Clients, NEW p \in Phones, PhonePairs(c, p) PROVE NoDropInv'
  BY <1>25 DEF PhonePairs, Spend, NoDropInv, Quiet, NoOrphans, Orphan
<1>26. ASSUME NEW p \in Phones, PhoneUnlinks(p) PROVE NoDropInv'
  BY <1>26 DEF PhoneUnlinks, Spend, ServerUnlink, NoDropInv, Quiet, NoOrphans,
     Orphan
<1>27. ASSUME Crash PROVE NoDropInv'
  BY <1>27 DEF Crash, Spend, NoDropInv, Quiet, NoOrphans, Orphan, IdleWorker
<1>28. CASE UNCHANGED vars
  BY <1>28 DEF vars, NoDropInv, Quiet, NoOrphans, Orphan
<1> QED
  BY <1>1, <1>2, <1>3, <1>4, <1>5, <1>6, <1>7, <1>8, <1>9, <1>10, <1>11, <1>12, <1>13, <1>14, <1>15, <1>16, <1>17, <1>18, <1>19, <1>20, <1>21, <1>22, <1>23, <1>24, <1>25, <1>26, <1>27, <1>28
  DEF Next, Request, RequestStep, Callback, Reconnector, Environment

-----------------------------------------------------------------------------
\* A session logged in with a wrong number is always about to be checked or
\* rejected, whatever requests, drops and reconnections come in between.
THEOREM MismatchNoticed == Spec => []MismatchCovered
<1>1. Init => MismatchCovered
  BY NoneAssumption DEF Init, MismatchCovered, WrongNumber
<1> QED
  BY <1>1, MismatchStep, TInvAlways, PTL DEF Spec

\* A dropped connection is never forgotten: the callback is due, autoReconnect is
\* at work on it, or it gave up.
THEOREM DropNoticed == Spec => []DropCovered
<1>1. Init => DropCovered
  BY NoneAssumption DEF Init, DropCovered
<1> QED
  BY <1>1, DropStep, TInvAlways, PTL DEF Spec

\* Without a broken connection no client object is left connected after its
\* account let go of it.
THEOREM OrphansNeedDrops == Spec => []OrphanNeedsDrop
<1>1. Init => NoDropInv
  BY NoneAssumption, BudgetAssumption
  DEF Init, NoDropInv, Quiet, NoOrphans, Orphan, IdleWorker
<1>2. NoDropInv => OrphanNeedsDrop
  BY DEF NoDropInv, Quiet, OrphanNeedsDrop
<1> QED
  BY <1>1, <1>2, NoDropStep, TInvAlways, PTL DEF Spec

-----------------------------------------------------------------------------
(* The row of a session.  A client that the servers accept has its row in  *)
(* the shared table until the account lets the client go; the exceptions   *)
(* are the two steps that delete rows of other accounts.                   *)

\* Whoever is logged in is accepted by the servers: unlinking cuts it off.
OnlineLinked == \A c \in Clients : conn[c] = "online" => dev[c] \in linked

\* The client account a holds, if the servers accept it, has its row.
SessionKept(a) ==
    (client[a] # None /\ dev[client[a]] \in linked) => dev[client[a]] \in devices

\* Logout of a sleeping account deletes the first row, rejectMismatch all of them.
DeletesAnyRow(a) == LogoutOffline(a) \/ RejectMismatch(a)

LEMMA OnlineLinkedStep == TInv /\ OnlineLinked /\ [Next]_vars => OnlineLinked'
<1> SUFFICES ASSUME TInv, OnlineLinked, [Next]_vars PROVE OnlineLinked'
  OBVIOUS
<1> USE NoneAssumption DEF TInv, TypeOK, OnlineLinked
<1>1. ASSUME NEW a \in Accounts, requireConnectedAccount(a) PROVE OnlineLinked'
  BY <1>1 DEF requireConnectedAccount
<1>2. ASSUME NEW a \in Accounts, requireConnectedClient(a) PROVE OnlineLinked'
  BY <1>2 DEF requireConnectedClient
<1>3. ASSUME NEW a \in Accounts, Connect(a) PROVE OnlineLinked'
  BY <1>3 DEF Connect, prepareClient, Fresh
<1>4. ASSUME NEW a \in Accounts, ConnectDial(a) PROVE OnlineLinked'
  BY <1>4 DEF ConnectDial
<1>5. ASSUME NEW a \in Accounts, GetQRDial(a) PROVE OnlineLinked'
  BY <1>5 DEF GetQRDial
<1>6. ASSUME NEW a \in Accounts, SendMessage(a) PROVE OnlineLinked'
  BY <1>6 DEF SendMessage
<1>7. ASSUME NEW a \in Accounts, Disconnect(a) PROVE OnlineLinked'
  BY <1>7 DEF Disconnect, ClosedIfAny, ForgetClient
<1>8. ASSUME NEW a \in Accounts, GetQR(a) PROVE OnlineLinked'
  BY <1>8 DEF GetQR, ClosedIfAny, prepareClient, Fresh
<1>9. ASSUME NEW a \in Accounts, PairPhone(a) PROVE OnlineLinked'
  BY <1>9 DEF PairPhone
<1>10. ASSUME NEW a \in Accounts, LogoutConnected(a) PROVE OnlineLinked'
  BY <1>10 DEF LogoutConnected, LoggedIn, ForgetClient, ClosedIfAny, ServerUnlink, Kicked
<1>11. ASSUME NEW a \in Accounts, LogoutOffline(a) PROVE OnlineLinked'
  BY <1>11 DEF LogoutOffline, ClosedIfAny, ForgetClient
<1>12. ASSUME NEW a \in Accounts, NEW p \in Phones, UpdatePhoneNumber(a, p) PROVE OnlineLinked'
  BY <1>12 DEF UpdatePhoneNumber
<1>13. ASSUME NEW a \in Accounts, NEW p \in Phones, HandlePairSuccess(a, p) PROVE OnlineLinked'
  BY <1>13 DEF HandlePairSuccess
<1>14. ASSUME NEW a \in Accounts, HandleConnected(a) PROVE OnlineLinked'
  BY <1>14 DEF HandleConnected
<1>15. ASSUME NEW a \in Accounts, HandleLoggedOut(a) PROVE OnlineLinked'
  BY <1>15 DEF HandleLoggedOut, ClosedIfAny, ForgetClient
<1>16. ASSUME NEW a \in Accounts, HandleDisconnected(a) PROVE OnlineLinked'
  BY <1>16 DEF HandleDisconnected
<1>17. ASSUME NEW a \in Accounts, RejectMismatch(a) PROVE OnlineLinked'
  BY <1>17 DEF RejectMismatch, LoggedIn, ForgetClient, ClosedIfAny, ServerUnlink, Kicked
<1>18. ASSUME NEW w \in Workers, AutoReconnectWake(w) PROVE OnlineLinked'
  BY <1>18 DEF AutoReconnectWake
<1>19. ASSUME NEW w \in Workers, AutoReconnectDial(w) PROVE OnlineLinked'
  BY <1>19 DEF AutoReconnectDial
<1>20. ASSUME NEW c \in Clients, NetLogin(c) PROVE OnlineLinked'
  BY <1>20 DEF NetLogin
<1>21. ASSUME NEW c \in Clients, NetLoginRefused(c) PROVE OnlineLinked'
  BY <1>21 DEF NetLoginRefused
<1>22. ASSUME NEW c \in Clients, NetDrop(c) PROVE OnlineLinked'
  BY <1>22 DEF NetDrop
<1>23. ASSUME NEW c \in Clients, NetReconnect(c) PROVE OnlineLinked'
  BY <1>23 DEF NetReconnect
<1>24. ASSUME NEW c \in Clients, CodeExpires(c) PROVE OnlineLinked'
  BY <1>24 DEF CodeExpires
<1>25. ASSUME NEW c \in Clients, NEW p \in Phones, PhonePairs(c, p) PROVE OnlineLinked'
  BY <1>25 DEF PhonePairs
<1>26. ASSUME NEW p \in Phones, PhoneUnlinks(p) PROVE OnlineLinked'
  BY <1>26 DEF PhoneUnlinks, ServerUnlink, Kicked
<1>27. ASSUME Crash PROVE OnlineLinked'
  BY <1>27 DEF Crash
<1>28. CASE UNCHANGED vars
  BY <1>28 DEF vars
<1> QED
  BY <1>1, <1>2, <1>3, <1>4, <1>5, <1>6, <1>7, <1>8, <1>9, <1>10, <1>11, <1>12, <1>13, <1>14, <1>15, <1>16, <1>17, <1>18, <1>19, <1>20, <1>21, <1>22, <1>23, <1>24, <1>25, <1>26, <1>27, <1>28
  DEF Next, Request, RequestStep, Callback, Reconnector, Environment

\* No step of another kind deletes the row of an accepted client that is held.
LEMMA SessionKeptStep ==
    ASSUME TInv, [Next]_vars, NEW b \in Accounts, SessionKept(b)
    PROVE  SessionKept(b)' \/ \E a \in Accounts \ {b} : DeletesAnyRow(a)
<1> DEFINE Goal == SessionKept(b)' \/ \E a \in Accounts \ {b} : DeletesAnyRow(a)
<1> SUFFICES Goal
  OBVIOUS
<1> USE NoneAssumption DEF TInv, TypeOK, SessionKept
<1>1. ASSUME NEW a \in Accounts, requireConnectedAccount(a) PROVE Goal
  BY <1>1 DEF requireConnectedAccount
<1>2. ASSUME NEW a \in Accounts, requireConnectedClient(a) PROVE Goal
  BY <1>2 DEF requireConnectedClient
<1>3. ASSUME NEW a \in Accounts, Connect(a) PROVE Goal
  BY <1>3 DEF Connect, prepareClient, Fresh, FirstDevice
<1>4. ASSUME NEW a \in Accounts, ConnectDial(a) PROVE Goal
  BY <1>4 DEF ConnectDial
<1>5. ASSUME NEW a \in Accounts, GetQRDial(a) PROVE Goal
  BY <1>5 DEF GetQRDial
<1>6. ASSUME NEW a \in Accounts, SendMessage(a) PROVE Goal
  BY <1>6 DEF SendMessage
<1>7. ASSUME NEW a \in Accounts, Disconnect(a) PROVE Goal
  BY <1>7 DEF Disconnect, ClosedIfAny, ForgetClient
<1>8. ASSUME NEW a \in Accounts, GetQR(a) PROVE Goal
  BY <1>8 DEF GetQR, ClosedIfAny, prepareClient, Fresh, FirstDevice
<1>9. ASSUME NEW a \in Accounts, PairPhone(a) PROVE Goal
  BY <1>9 DEF PairPhone
<1>10. ASSUME NEW a \in Accounts, LogoutConnected(a) PROVE Goal
  BY <1>10 DEF LogoutConnected, LoggedIn, ForgetClient, ClosedIfAny, ServerUnlink, Kicked
<1>11. ASSUME NEW a \in Accounts, LogoutOffline(a) PROVE Goal
  BY <1>11 DEF LogoutOffline, ClosedIfAny, ForgetClient, DeletesAnyRow
<1>12. ASSUME NEW a \in Accounts, NEW p \in Phones, UpdatePhoneNumber(a, p) PROVE Goal
  BY <1>12 DEF UpdatePhoneNumber
<1>13. ASSUME NEW a \in Accounts, NEW p \in Phones, HandlePairSuccess(a, p) PROVE Goal
  BY <1>13 DEF HandlePairSuccess
<1>14. ASSUME NEW a \in Accounts, HandleConnected(a) PROVE Goal
  BY <1>14 DEF HandleConnected
<1>15. ASSUME NEW a \in Accounts, HandleLoggedOut(a) PROVE Goal
  BY <1>15 DEF HandleLoggedOut, ClosedIfAny, ForgetClient
<1>16. ASSUME NEW a \in Accounts, HandleDisconnected(a) PROVE Goal
  BY <1>16 DEF HandleDisconnected
<1>17. ASSUME NEW a \in Accounts, RejectMismatch(a) PROVE Goal
  BY <1>17 DEF RejectMismatch, LoggedIn, ForgetClient, ClosedIfAny, ServerUnlink, Kicked, DeletesAnyRow
<1>18. ASSUME NEW w \in Workers, AutoReconnectWake(w) PROVE Goal
  BY <1>18 DEF AutoReconnectWake
<1>19. ASSUME NEW w \in Workers, AutoReconnectDial(w) PROVE Goal
  BY <1>19 DEF AutoReconnectDial
<1>20. ASSUME NEW c \in Clients, NetLogin(c) PROVE Goal
  BY <1>20 DEF NetLogin
<1>21. ASSUME NEW c \in Clients, NetLoginRefused(c) PROVE Goal
  BY <1>21 DEF NetLoginRefused
<1>22. ASSUME NEW c \in Clients, NetDrop(c) PROVE Goal
  BY <1>22 DEF NetDrop
<1>23. ASSUME NEW c \in Clients, NetReconnect(c) PROVE Goal
  BY <1>23 DEF NetReconnect
<1>24. ASSUME NEW c \in Clients, CodeExpires(c) PROVE Goal
  BY <1>24 DEF CodeExpires
<1>25. ASSUME NEW c \in Clients, NEW p \in Phones, PhonePairs(c, p) PROVE Goal
  BY <1>25 DEF PhonePairs
<1>26. ASSUME NEW p \in Phones, PhoneUnlinks(p) PROVE Goal
  BY <1>26 DEF PhoneUnlinks, ServerUnlink, Kicked
<1>27. ASSUME Crash PROVE Goal
  BY <1>27 DEF Crash
<1>28. CASE UNCHANGED vars
  BY <1>28 DEF vars
<1> HIDE DEF Goal
<1> QED
  BY <1>1, <1>2, <1>3, <1>4, <1>5, <1>6, <1>7, <1>8, <1>9, <1>10, <1>11, <1>12, <1>13, <1>14, <1>15, <1>16, <1>17, <1>18, <1>19, <1>20, <1>21, <1>22, <1>23, <1>24, <1>25, <1>26, <1>27, <1>28
  DEF Next, Request, RequestStep, Callback, Reconnector, Environment

\* What keeps the sessions of a store with several accounts: the row of a client
\* that an account holds and the servers accept is deleted by that account's own
\* logout only, which lets the client go, or by another account that logs out
\* asleep or rejects its session.
THEOREM RowsLostToOthers ==
    Spec => [][\A b \in Accounts :
                 (SessionKept(b) /\ ~SessionKept(b)') =>
                     \E a \in Accounts \ {b} : DeletesAnyRow(a)]_vars
<1>1. TInv /\ [Next]_vars =>
        [\A b \in Accounts :
           (SessionKept(b) /\ ~SessionKept(b)') =>
               \E a \in Accounts \ {b} : DeletesAnyRow(a)]_vars
  BY SessionKeptStep
<1> QED
  BY <1>1, TInvAlways, PTL DEF Spec

\* With one account on the store, its logged-in session is always stored: logouts,
\* rejections, revoked credentials, late reconnections and restarts never leave it
\* online without a row.
THEOREM SessionsStored ==
    ASSUME \A a, b \in Accounts : a = b
    PROVE  Spec => []SessionStored
<1> DEFINE Kept == OnlineLinked /\ \A a \in Accounts : SessionKept(a)
<1>1. Init => Kept
  BY DEF Init, OnlineLinked, SessionKept
<1>2. TInv /\ Kept /\ [Next]_vars => Kept'
  BY OnlineLinkedStep, SessionKeptStep
<1>3. TInv /\ Kept => SessionStored
  BY DEF TInv, TypeOK, OnlineLinked, SessionKept, SessionStored, LoggedIn
<1> HIDE DEF Kept
<1> QED
  BY <1>1, <1>2, <1>3, TInvAlways, PTL DEF Spec

-----------------------------------------------------------------------------
(* What a request and an autoReconnect goroutine have left to do.          *)

\* The steps a request on account a still takes if nothing ends it earlier.
CallLeft(a) ==
    CASE call[a].pc = "connect" /\ mu[a] # "connect" -> 4
      [] call[a].pc = "connect" /\ mu[a] = "connect" -> 3
      [] call[a].pc = "ready" -> 2
      [] call[a].pc = "using" -> 1
      [] OTHER -> 0

\* The same of a goroutine: it wakes up and dials once for each delay.
WorkLeft(w) ==
    CASE worker[w].pc = "sleep" -> 2 * (Retries - worker[w].try)
      [] worker[w].pc = "dial" -> 2 * (Retries - worker[w].try) - 1
      [] OTHER -> 0

CallSteps(a) == Connect(a) \/ ConnectDial(a) \/ requireConnectedClient(a) \/ SendMessage(a)

CallShrinks(a) ==
    /\ CallLeft(a) > 0 => CallLeft(a)' <= CallLeft(a)
    /\ CallSteps(a) => CallLeft(a)' < CallLeft(a)

WorkShrinks(w) ==
    /\ WorkLeft(w) > 0 => WorkLeft(w)' <= WorkLeft(w)
    /\ Reconnector(w) => WorkLeft(w)' < WorkLeft(w)

\* Connect keeps the lock for the request that connects.
ConnectsUnderLock == \A a \in Accounts : mu[a] = "connect" => call[a].pc = "connect"

\* Requests are left where they are.
CallStays == \A a \in Accounts : call'[a] = call[a] /\ (mu'[a] = "connect" <=> mu[a] = "connect")

\* What a step does to the requests and to the lock.
LEMMA CallMoves ==
    ASSUME TInv, ConnectsUnderLock, [Next]_vars
    PROVE  \/ CallStays
           \/ \E a \in Accounts : requireConnectedAccount(a) \/ CallSteps(a)
           \/ Crash
<1> DEFINE Goal == \/ CallStays
                   \/ \E a \in Accounts : requireConnectedAccount(a) \/ CallSteps(a)
                   \/ Crash
<1>1. ASSUME NEW a \in Accounts, Request(a), ~requireConnectedAccount(a) PROVE CallStays
  BY <1>1 DEF Request, Disconnect, GetQR, PairPhone, LogoutConnected, LogoutOffline,
     UpdatePhoneNumber, LockFree, CallStays, TInv, TypeOK
<1>2. ASSUME NEW a \in Accounts, GetQRDial(a) PROVE CallStays
  BY <1>2 DEF GetQRDial, CallStays, TInv, TypeOK
<1>3. ASSUME NEW a \in Accounts, Callback(a) \/ RejectMismatch(a) PROVE CallStays
  BY <1>3 DEF Callback, HandlePairSuccess, HandleConnected, HandleLoggedOut,
     HandleDisconnected, RejectMismatch, CallStays
<1>4. ASSUME NEW w \in Workers, Reconnector(w) PROVE CallStays
  BY <1>4 DEF Reconnector, AutoReconnectWake, AutoReconnectDial, CallStays
<1>5. ASSUME Environment, ~Crash PROVE CallStays
  BY <1>5 DEF Environment, NetLogin, NetLoginRefused, NetDrop, NetReconnect, CodeExpires,
     PhonePairs, PhoneUnlinks, CallStays
<1>6. CASE UNCHANGED vars
  BY <1>6 DEF vars, CallStays
<1> HIDE DEF Goal
<1>7. ASSUME CallStays \/ Crash \/ \E a \in Accounts : requireConnectedAccount(a) \/ CallSteps(a)
      PROVE  Goal
  BY <1>7 DEF Goal
<1>8. \A a \in Accounts : RequestStep(a) => CallSteps(a) \/ GetQRDial(a)
  BY DEF RequestStep, CallSteps
<1>9. Goal
  BY <1>1, <1>2, <1>3, <1>4, <1>5, <1>6, <1>7, <1>8 DEF Next
<1> QED
  BY <1>9 DEF Goal

LEMMA CallShrinksStep ==
    ASSUME TInv, ConnectsUnderLock, [Next]_vars
    PROVE  ConnectsUnderLock' /\ \A a \in Accounts : CallShrinks(a)
<1> USE DEF TInv, TypeOK, CallState
\* One account's request takes a step.
<1>1. ASSUME NEW a \in Accounts, CallSteps(a)
      PROVE  /\ CallLeft(a)' < CallLeft(a)
             /\ mu'[a] = "connect" => call'[a].pc = "connect"
             /\ \A b \in Accounts \ {a} : call'[b] = call[b] /\ mu'[b] = mu[b]
  <2>1. CASE Connect(a)
    BY <1>1, <2>1 DEF Connect, LockFree, CallLeft, IdleCall, ReadyCall
  <2>2. CASE ConnectDial(a)
    BY <1>1, <2>2 DEF ConnectDial, CallLeft, IdleCall, ReadyCall, ConnectsUnderLock
  <2>3. CASE requireConnectedClient(a)
    BY <1>1, <2>3 DEF requireConnectedClient, LockFree, CallLeft, IdleCall, UseClient
  <2>4. CASE SendMessage(a)
    BY <1>1, <2>4 DEF SendMessage, CallLeft, IdleCall, ConnectsUnderLock
  <2> QED
    BY <1>1, <2>1, <2>2, <2>3, <2>4 DEF CallSteps
<1>2. ASSUME NEW a \in Accounts, requireConnectedAccount(a)
      PROVE  /\ CallLeft(a) = 0
             /\ UNCHANGED mu /\ mu[a] = "free"
             /\ \A b \in Accounts \ {a} : call'[b] = call[b]
  BY <1>2 DEF requireConnectedAccount, LockFree, CallLeft
<1>3. CASE \E a \in Accounts : requireConnectedAccount(a) \/ CallSteps(a)
  <2>1. PICK a \in Accounts : requireConnectedAccount(a) \/ CallSteps(a)
    BY <1>3
  <2>2. \A b \in Accounts \ {a} : call'[b] = call[b] /\ mu'[b] = mu[b]
    BY <1>1, <1>2, <2>1
  <2>3. \A b \in Accounts \ {a} :
          /\ CallLeft(b)' = CallLeft(b)
          /\ mu'[b] = "connect" => call'[b].pc = "connect"
    BY <2>2 DEF CallLeft, ConnectsUnderLock
  <2>4. \A b \in Accounts \ {a} : ~CallSteps(b)
    <3> SUFFICES ASSUME NEW b \in Accounts \ {a}, CallSteps(b) PROVE FALSE
      OBVIOUS
    <3>1. CallLeft(b)' < CallLeft(b)
      BY <1>1
    <3>2. CallLeft(b) \in Nat
      BY DEF CallLeft
    <3> QED
      BY <2>3, <3>1, <3>2
  <2>5. \A b \in Accounts \ {a} : CallShrinks(b)
    <3> SUFFICES ASSUME NEW b \in Accounts \ {a} PROVE CallShrinks(b)
      OBVIOUS
    <3>1. CallLeft(b)' = CallLeft(b) /\ CallLeft(b) \in Nat
      BY <2>3 DEF CallLeft
    <3> QED
      BY <2>4, <3>1 DEF CallShrinks
  <2>6. CallShrinks(a) /\ (mu'[a] = "connect" => call'[a].pc = "connect")
    <3>1. CallLeft(a) \in Nat /\ CallLeft(a)' \in Nat
      BY DEF CallLeft
    <3>2. CASE CallSteps(a)
      BY <1>1, <3>1, <3>2 DEF CallShrinks
    <3>3. CASE requireConnectedAccount(a) /\ ~CallSteps(a)
      BY <1>2, <3>3 DEF CallShrinks
    <3> QED
      BY <2>1, <3>2, <3>3
  <2>7. ConnectsUnderLock'
    BY <2>3, <2>6 DEF ConnectsUnderLock
  <2> QED
    BY <2>5, <2>6, <2>7
<1>4. CASE CallStays
  <2>1. ConnectsUnderLock'
    BY <1>4 DEF CallStays, ConnectsUnderLock
  <2>2. ASSUME NEW a \in Accounts PROVE CallShrinks(a)
    <3>1. CallLeft(a)' = CallLeft(a) /\ CallLeft(a) \in Nat
      BY <1>4 DEF CallStays, CallLeft
    <3>2. ~CallSteps(a)
      BY <1>1, <3>1
    <3> QED
      BY <3>1, <3>2 DEF CallShrinks
  <2> QED
    BY <2>1, <2>2
<1>5. CASE Crash
  <2>1. ConnectsUnderLock'
    BY <1>5 DEF Crash, ConnectsUnderLock
  <2>2. ASSUME NEW a \in Accounts PROVE CallShrinks(a)
    <3>1. CallLeft(a)' = 0 /\ CallLeft(a) \in Nat
      BY <1>5 DEF Crash, CallLeft, IdleCall
    <3>2. CallSteps(a) => CallLeft(a)' < CallLeft(a)
      BY <1>1
    <3> QED
      BY <3>1, <3>2 DEF CallShrinks
  <2> QED
    BY <2>1, <2>2
<1> QED
  BY <1>3, <1>4, <1>5, CallMoves

LEMMA WorkShrinksStep ==
    ASSUME TInv, [Next]_vars
    PROVE  \A w \in Workers : WorkShrinks(w)
<1> SUFFICES ASSUME NEW w \in Workers PROVE WorkShrinks(w)
  OBVIOUS
<1> USE RetriesAssumption DEF TInv, TypeOK, WorkerState
<1>0. /\ worker[w].try \in 0 .. Retries - 1 /\ WorkLeft(w) \in Nat
      /\ worker[w].pc # "idle" => WorkLeft(w) > 0
  BY DEF WorkLeft
<1>1. ASSUME Reconnector(w) PROVE WorkLeft(w)' < WorkLeft(w)
  <2>1. CASE AutoReconnectWake(w)
    BY <2>1 DEF AutoReconnectWake, WorkLeft, IdleWorker
  <2>2. CASE AutoReconnectDial(w)
    <3>1. CASE worker' = [worker EXCEPT ![w] = IdleWorker]
      BY <1>0, <2>2, <3>1 DEF AutoReconnectDial, WorkLeft, IdleWorker
    <3>2. CASE /\ ~LastTry(w)
               /\ worker' = [worker EXCEPT ![w] = [pc |-> "sleep", acct |-> worker[w].acct,
                                                   try |-> NextTry(w), cl |-> None]]
      <4>1. worker'[w].pc = "sleep" /\ worker'[w].try = worker[w].try + 1
        BY <3>2 DEF NextTry
      <4> QED
        BY <1>0, <2>2, <4>1 DEF AutoReconnectDial, WorkLeft
    <3> QED
      BY <2>2, <3>1, <3>2 DEF AutoReconnectDial
  <2> QED
    BY <1>1, <2>1, <2>2 DEF Reconnector
<1>2. CASE worker'[w] = worker[w] \/ worker'[w] = IdleWorker
  <2>1. WorkLeft(w)' \in {WorkLeft(w), 0}
    BY <1>2 DEF WorkLeft, IdleWorker
  <2> QED
    BY <1>0, <1>1, <2>1 DEF WorkShrinks
<1>3. CASE worker[w].pc = "idle" /\ ~Reconnector(w)
  BY <1>3 DEF WorkShrinks, WorkLeft
<1>4. worker'[w] = worker[w] \/ worker'[w] = IdleWorker \/ worker[w].pc = "idle" \/ Reconnector(w)
  <2>1. ASSUME NEW a \in Accounts, Request(a) \/ RequestStep(a) PROVE worker' = worker
    BY <2>1 DEF Request, RequestStep, requireConnectedAccount, Disconnect, GetQR, PairPhone,
       LogoutConnected, LogoutOffline, UpdatePhoneNumber, Connect, ConnectDial, GetQRDial,
       requireConnectedClient, SendMessage
  <2>2. ASSUME NEW a \in Accounts, Callback(a) \/ RejectMismatch(a)
        PROVE  worker'[w] = worker[w] \/ worker[w].pc = "idle"
    BY <2>2 DEF Callback, HandlePairSuccess, HandleConnected, HandleLoggedOut,
       HandleDisconnected, RejectMismatch
  <2>3. ASSUME NEW v \in Workers, v # w, Reconnector(v) PROVE worker'[w] = worker[w]
    BY <2>3 DEF Reconnector, AutoReconnectWake, AutoReconnectDial
  <2>4. ASSUME Environment PROVE worker'[w] = worker[w] \/ worker'[w] = IdleWorker
    BY <2>4 DEF Environment, NetLogin, NetLoginRefused, NetDrop, NetReconnect, CodeExpires,
       PhonePairs, PhoneUnlinks, Crash
  <2>5. CASE UNCHANGED vars
    BY <2>5 DEF vars
  <2> QED
    BY <2>1, <2>2, <2>3, <2>4, <2>5 DEF Next
<1>5. CASE Reconnector(w)
  <2>1. TInv'
    BY TInvStep
  <2>2. WorkLeft(w)' \in Nat
    BY <2>1 DEF WorkLeft
  <2> QED
    BY <1>0, <1>1, <1>5, <2>2 DEF WorkShrinks
<1> QED
  BY <1>2, <1>3, <1>4, <1>5

\* The safety half of RequestCompletes: a request that has begun goes through Connect, its
\* network call, requireConnectedClient and the operation in this order and none of them
\* twice, and nobody else, reconnecting, rejecting or logging out meanwhile, sends it back.
THEOREM RequestsShrink == Spec => [][\A a \in Accounts : CallShrinks(a)]_vars
<1>1. Init => ConnectsUnderLock
  BY DEF Init, ConnectsUnderLock
<1>2. TInv /\ ConnectsUnderLock /\ [Next]_vars =>
        ConnectsUnderLock' /\ [\A a \in Accounts : CallShrinks(a)]_vars
  BY CallShrinksStep
<1> QED
  BY <1>1, <1>2, TInvAlways, PTL DEF Spec

\* A goroutine of autoReconnect wakes up and dials at most once per delay, however the
\* connection behaves and whatever requests replace its client.
THEOREM GoroutinesShrink == Spec => [][\A w \in Workers : WorkShrinks(w)]_vars
<1>1. TInv /\ [Next]_vars => [\A w \in Workers : WorkShrinks(w)]_vars
  BY WorkShrinksStep
<1> QED
  BY <1>1, TInvAlways, PTL DEF Spec

-----------------------------------------------------------------------------
(* AccountSession implements Session.                                      *)

\* A client that is up was held before, and the device it is for is the one it
\* had, unless it was up and a phone has paired it.
UpRule(a) ==
    Connected(a)' =>
        /\ client[a] # None /\ client'[a] = client[a]
        /\ \/ dev'[client[a]] = dev[client[a]]
           \/ Connected(a) /\ dev'[client[a]] # None

\* Session asks nothing about a client that is not up.
LEMMA UpRuleMoves ==
    ASSUME NEW a \in Accounts, UpRule(a)
    PROVE  SessionOf(a)' \in Abs!After(SessionOf(a)) \cup {SessionOf(a)}
<1>1. HasStoredCredentials(a) \in BOOLEAN /\ HasStoredCredentials(a)' \in BOOLEAN
  BY DEF HasStoredCredentials
<1>2. CASE ~Connected(a)'
  <2>1. SessionOf(a)'.client \in {"none", "down"}
    BY <1>2 DEF SessionOf
  <2>2. SessionOf(a)' = [client |-> SessionOf(a)'.client, linked |-> HasStoredCredentials(a)']
    BY DEF SessionOf
  <2> QED
    BY <1>1, <2>1, <2>2 DEF Abs!After, Abs!Prepared, Abs!LetGo
<1>3. CASE Connected(a)'
  <2>1. /\ SessionOf(a)' = [client |-> "up", linked |-> HasStoredCredentials(a)']
        /\ client[a] # None /\ client'[a] # None
    BY <1>3 DEF SessionOf, UpRule, Connected
  <2>2. HasStoredCredentials(a) = (dev[client[a]] # None)
    BY <2>1 DEF HasStoredCredentials
  <2>3. HasStoredCredentials(a)' = (dev'[client[a]] # None)
    BY <1>3, <2>1 DEF HasStoredCredentials, UpRule
  <2>4. CASE Connected(a)
    <3>1. SessionOf(a) = [client |-> "up", linked |-> HasStoredCredentials(a)]
      BY <2>1, <2>4 DEF SessionOf
    <3>2. CASE HasStoredCredentials(a)' = HasStoredCredentials(a)
      BY <2>1, <3>1, <3>2
    <3>3. CASE HasStoredCredentials(a)' = TRUE
      <4>1. SessionOf(a)' = [client |-> "up", linked |-> TRUE]
        BY <2>1, <3>3
      <4>2. SessionOf(a).client = "up"
        BY <3>1
      <4> HIDE DEF SessionOf
      <4> QED
        BY <4>1, <4>2 DEF Abs!After, Abs!Paired
    <3> QED
      BY <1>3, <2>2, <2>3, <3>2, <3>3 DEF UpRule
  <2>5. CASE ~Connected(a)
    <3>1. SessionOf(a) = [client |-> "down", linked |-> HasStoredCredentials(a)]
      BY <2>1, <2>5 DEF SessionOf
    <3>2. HasStoredCredentials(a)' = HasStoredCredentials(a)
      BY <1>3, <2>2, <2>3, <2>5 DEF UpRule
    <3> QED
      BY <2>1, <3>1, <3>2 DEF Abs!After, Abs!Opened
  <2> QED
    BY <2>4, <2>5
<1> QED
  BY <1>2, <1>3

\* Every step of every actor respects the rule for every account.
LEMMA UpRuleStep == TInv /\ [Next]_vars => \A b \in Accounts : UpRule(b)
<1> SUFFICES ASSUME TInv, [Next]_vars, NEW b \in Accounts PROVE UpRule(b)
  OBVIOUS
<1> USE NoneAssumption DEF TInv, UpRule, Connected, IsConnected, TypeOK
<1>1. ASSUME NEW a \in Accounts, requireConnectedAccount(a) PROVE UpRule(b)
  BY <1>1 DEF requireConnectedAccount
<1>2. ASSUME NEW a \in Accounts, requireConnectedClient(a) PROVE UpRule(b)
  BY <1>2 DEF requireConnectedClient
<1>3. ASSUME NEW a \in Accounts, Connect(a) PROVE UpRule(b)
  BY <1>3 DEF Connect, prepareClient, Fresh
<1>4. ASSUME NEW a \in Accounts, ConnectDial(a) PROVE UpRule(b)
  BY <1>4 DEF ConnectDial, MuOK, OwnClient
<1>5. ASSUME NEW a \in Accounts, GetQRDial(a) PROVE UpRule(b)
  BY <1>5 DEF GetQRDial, MuOK, OwnClient
<1>6. ASSUME NEW a \in Accounts, SendMessage(a) PROVE UpRule(b)
  BY <1>6 DEF SendMessage
<1>7. ASSUME NEW a \in Accounts, Disconnect(a) PROVE UpRule(b)
  BY <1>7 DEF Disconnect, ClosedIfAny, ForgetClient
<1>8. ASSUME NEW a \in Accounts, GetQR(a) PROVE UpRule(b)
  BY <1>8 DEF GetQR, ClosedIfAny, prepareClient, Fresh
<1>9. ASSUME NEW a \in Accounts, PairPhone(a) PROVE UpRule(b)
  BY <1>9 DEF PairPhone
<1>10. ASSUME NEW a \in Accounts, LogoutConnected(a) PROVE UpRule(b)
  BY <1>10 DEF LogoutConnected, LoggedIn, ClosedIfAny, ForgetClient, ServerUnlink
<1>11. ASSUME NEW a \in Accounts, LogoutOffline(a) PROVE UpRule(b)
  BY <1>11 DEF LogoutOffline, ClosedIfAny, ForgetClient
<1>12. ASSUME NEW a \in Accounts, NEW p \in Phones, UpdatePhoneNumber(a, p) PROVE UpRule(b)
  BY <1>12 DEF UpdatePhoneNumber
<1>13. ASSUME NEW a \in Accounts, NEW p \in Phones, HandlePairSuccess(a, p) PROVE UpRule(b)
  BY <1>13 DEF HandlePairSuccess
<1>14. ASSUME NEW a \in Accounts, HandleConnected(a) PROVE UpRule(b)
  BY <1>14 DEF HandleConnected
<1>15. ASSUME NEW a \in Accounts, HandleLoggedOut(a) PROVE UpRule(b)
  BY <1>15 DEF HandleLoggedOut, ClosedIfAny, ForgetClient
<1>16. ASSUME NEW a \in Accounts, HandleDisconnected(a) PROVE UpRule(b)
  BY <1>16 DEF HandleDisconnected
<1>17. ASSUME NEW a \in Accounts, RejectMismatch(a) PROVE UpRule(b)
  BY <1>17 DEF RejectMismatch, LoggedIn, ClosedIfAny, ForgetClient, ServerUnlink
<1>18. ASSUME NEW w \in Workers, AutoReconnectWake(w) PROVE UpRule(b)
  BY <1>18 DEF AutoReconnectWake
<1>19. ASSUME NEW w \in Workers, AutoReconnectDial(w) PROVE UpRule(b)
  BY <1>19 DEF AutoReconnectDial
<1>20. ASSUME NEW c \in Clients, NetLogin(c) PROVE UpRule(b)
  BY <1>20 DEF NetLogin
<1>21. ASSUME NEW c \in Clients, NetLoginRefused(c) PROVE UpRule(b)
  BY <1>21 DEF NetLoginRefused
<1>22. ASSUME NEW c \in Clients, NetDrop(c) PROVE UpRule(b)
  BY <1>22 DEF NetDrop
<1>23. ASSUME NEW c \in Clients, NetReconnect(c) PROVE UpRule(b)
  BY <1>23 DEF NetReconnect
<1>24. ASSUME NEW c \in Clients, CodeExpires(c) PROVE UpRule(b)
  BY <1>24 DEF CodeExpires
<1>25. ASSUME NEW c \in Clients, NEW p \in Phones, PhonePairs(c, p) PROVE UpRule(b)
  BY <1>25 DEF PhonePairs
<1>26. ASSUME NEW p \in Phones, PhoneUnlinks(p) PROVE UpRule(b)
  BY <1>26 DEF PhoneUnlinks, ServerUnlink
<1>27. ASSUME Crash PROVE UpRule(b)
  BY <1>27 DEF Crash
<1>28. CASE UNCHANGED vars
  BY <1>28 DEF vars
<1> QED
  BY <1>1, <1>2, <1>3, <1>4, <1>5, <1>6, <1>7, <1>8, <1>9, <1>10, <1>11, <1>12, <1>13, <1>14, <1>15, <1>16, <1>17, <1>18, <1>19, <1>20, <1>21, <1>22, <1>23, <1>24, <1>25, <1>26, <1>27, <1>28
  DEF Next, Request, RequestStep, Callback, Reconnector, Environment

\* What an account does with its clients, whatever the other accounts of the store
\* do, is what Session promises to the handlers and tools: a client comes up only
\* after it was prepared, and goes down with its credentials.
THEOREM SessionImplemented == Spec => ImplementsSession
<1>1. Init => Abs!Init
  BY DEF Init, Abs!Init, Abs!NoSession, SessionOf, HasStoredCredentials
<1>2. TInv /\ [Next]_vars => [Abs!Next]_([a \in Accounts |-> SessionOf(a)])
  <2> SUFFICES ASSUME TInv, [Next]_vars PROVE Abs!Next
    OBVIOUS
  <2>1. \A a \in Accounts : SessionOf(a)' \in Abs!After(SessionOf(a)) \cup {SessionOf(a)}
    BY UpRuleMoves, UpRuleStep
  <2>2. \A a \in Accounts : SessionOf(a)' \in Abs!SessionState
    BY DEF SessionOf, Connected, HasStoredCredentials, Abs!SessionState
  <2> QED
    BY <2>1, <2>2 DEF Abs!Next
<1> QED
  BY <1>1, <1>2, TInvAlways, PTL DEF Spec, ImplementsSession, Abs!Spec
=============================================================================
