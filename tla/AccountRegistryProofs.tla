------------------------ MODULE AccountRegistryProofs ------------------------
(***************************************************************************)
(* Proofs about AccountRegistry, for any ids, numbers and request slots.   *)
(***************************************************************************)
EXTENDS AccountRegistry, TLAPS

USE NoneAssumption
USE DEF retryVars, dataVars, mainVars, ghostVars, At, Goto, Finish

LEMMA InitTypes == Init => TypeOK
  BY DEF Init, TypeOK, IdleRequest, RequestState

\* Every step leaves every variable in its type.
LEMMA TypeStep == TypeOK /\ LoadedHasRow /\ [Next]_vars => TypeOK'
<1> SUFFICES ASSUME TypeOK, LoadedHasRow, [Next]_vars PROVE TypeOK'
  OBVIOUS
<1>1. ASSUME NEW r \in Requests, NEW p \in Phones, CreateLookup(r, p) PROVE TypeOK'
  BY <1>1 DEF CreateLookup, Begin, TypeOK, RequestState, IdleRequest
<1>2. ASSUME NEW r \in Requests, CreateInsert(r) PROVE TypeOK'
  BY <1>2 DEF CreateInsert, NewUUID, PhoneTaken, Untracked, TypeOK, RequestState, IdleRequest
<1>3. ASSUME NEW r \in Requests, CreatePublish(r) PROVE TypeOK'
  BY <1>3 DEF CreatePublish, TypeOK, RequestState, IdleRequest
<1>4. ASSUME NEW r \in Requests, NEW i \in Ids, DeleteLookup(r, i) PROVE TypeOK'
  BY <1>4 DEF DeleteLookup, Begin, TypeOK, RequestState, IdleRequest
<1>5. ASSUME NEW r \in Requests, DeleteCheck(r) PROVE TypeOK'
  BY <1>5 DEF DeleteCheck, TypeOK, RequestState, IdleRequest
<1>6. ASSUME NEW r \in Requests, DeleteUnmap(r) PROVE TypeOK'
  BY <1>6 DEF DeleteUnmap, TypeOK, RequestState, IdleRequest
<1>7. ASSUME NEW r \in Requests, DeleteDrop(r) PROVE TypeOK'
  BY <1>7
     DEF DeleteDrop, Disconnect, LetGo, Escapes, Other, Untracked, TypeOK, RequestState,
         IdleRequest
<1>8. ASSUME NEW r \in Requests, DeleteRow(r) PROVE TypeOK'
  BY <1>8 DEF DeleteRow, TypeOK, RequestState, IdleRequest
<1>9. ASSUME NEW r \in Requests, NEW i \in Ids, NEW p \in Phones, UpdateLookup(r, i, p) PROVE TypeOK'
  BY <1>9 DEF UpdateLookup, Begin, TypeOK, RequestState, IdleRequest
<1>10. ASSUME NEW r \in Requests, UpdateTaken(r) PROVE TypeOK'
  BY <1>10 DEF UpdateTaken, TypeOK, RequestState, IdleRequest
<1>11. ASSUME NEW r \in Requests, UpdateWrite(r) PROVE TypeOK'
  BY <1>11 DEF UpdateWrite, UpdatedRows, PhoneTaken, Other, TypeOK, RequestState, IdleRequest
<1>12. ASSUME NEW r \in Requests, UpdateMemory(r) PROVE TypeOK'
  BY <1>12 DEF UpdateMemory, TypeOK, RequestState, IdleRequest
<1>13. ASSUME NEW r \in Requests, NEW i \in Ids, ConnectLookup(r, i) PROVE TypeOK'
  BY <1>13 DEF ConnectLookup, Begin, TypeOK, RequestState, IdleRequest
<1>14. ASSUME NEW r \in Requests, EnsureConnected(r) PROVE TypeOK'
  BY <1>14 DEF EnsureConnected, Connected, LetGo, TypeOK, RequestState, IdleRequest
<1>15. ASSUME NEW r \in Requests, GetQR(r) PROVE TypeOK'
  BY <1>15 DEF GetQR, LetGo, TypeOK, RequestState, IdleRequest
<1>16. ASSUME NEW i \in Ids, LogIn(i) PROVE TypeOK'
  BY <1>16 DEF LogIn, TypeOK, RequestState, IdleRequest
<1>17. ASSUME NEW i \in Ids, LoggedOut(i) PROVE TypeOK'
  BY <1>17 DEF LoggedOut, Disconnect, LetGo, TypeOK, RequestState, IdleRequest
<1>18. ASSUME NEW i \in Ids, Dropped(i) PROVE TypeOK'
  BY <1>18 DEF Dropped, Connected, TypeOK, RequestState, IdleRequest
<1>19. ASSUME NEW i \in Ids, NetReconnect(i) PROVE TypeOK'
  BY <1>19 DEF NetReconnect, TypeOK, RequestState, IdleRequest
<1>20. ASSUME NEW i \in Ids, AutoReconnectWake(i) PROVE TypeOK'
  BY <1>20 DEF AutoReconnectWake, Unconnected, Rest, TypeOK, RequestState, IdleRequest
<1>21. ASSUME NEW i \in Ids, AutoReconnectDial(i) PROVE TypeOK'
  BY <1>21 DEF AutoReconnectDial, Unconnected, Rest, TypeOK, RequestState, IdleRequest
<1>22. ASSUME NEW i \in Ids, LooseDial(i) PROVE TypeOK'
  BY <1>22 DEF LooseDial, Rest, TypeOK, RequestState, IdleRequest
<1>23. ASSUME NEW i \in Ids, StrayDropped(i) PROVE TypeOK'
  BY <1>23 DEF StrayDropped, Rest, TypeOK, RequestState, IdleRequest
<1>24. ASSUME Stop PROVE TypeOK'
  BY <1>24 DEF Stop, TypeOK, RequestState, IdleRequest
<1>25. ASSUME NEW i \in Ids, ShutdownNext(i) PROVE TypeOK'
  BY <1>25 DEF ShutdownNext, Disconnect, LetGo, TypeOK, RequestState, IdleRequest
<1>26. ASSUME CloseServer PROVE TypeOK'
  BY <1>26 DEF CloseServer, TypeOK, RequestState, IdleRequest
<1>27. ASSUME Goodbye PROVE TypeOK'
  BY <1>27 DEF Goodbye, TypeOK, RequestState, IdleRequest
<1>28. ASSUME Restart PROVE TypeOK'
  BY <1>28 DEF Restart, Stored, Discovered, TypeOK, RequestState, IdleRequest
<1>29. CASE UNCHANGED vars
  BY <1>29 DEF vars, TypeOK, RequestState, IdleRequest
<1> QED
  BY <1>1, <1>2, <1>3, <1>4, <1>5, <1>6, <1>7, <1>8, <1>9, <1>10, <1>11, <1>12, <1>13, <1>14, <1>15, <1>16, <1>17, <1>18, <1>19, <1>20, <1>21, <1>22, <1>23, <1>24, <1>25, <1>26, <1>27, <1>28, <1>29
  DEF Next, Create, Delete, Update, Connect, Connection, Shutdown

\* An account about to be published is known to its creator only.
PublishAlone ==
    \A r \in Requests : At(r, "publish") =>
        /\ rows[req[r].id] = req[r].to
        /\ req[r].id \notin accounts
        /\ session[req[r].id] = "down"
        /\ \A q \in Requests \ {r} : req[q].id # req[r].id

\* A deletion past the map works on an account that stays out of it.
Removed ==
    \A r \in Requests : req[r].pc \in {"drop", "delete"} => req[r].id \notin accounts

\* An account whose number is not torn has at most one update between its writes.
TornOK ==
    \A r \in Requests : (At(r, "memory") /\ req[r].id \notin torn) =>
        /\ req[r].id \in accounts => rows[req[r].id] = req[r].to
        /\ \A q \in Requests \ {r} : ~(At(q, "memory") /\ req[q].id = req[r].id)

\* A request that connects a removed account is accounted for.
Connecting ==
    \A r \in Requests : (At(r, "connect") /\ req[r].id \notin accounts) =>
        \/ req[r].id \in held
        \/ \E q \in Requests : At(q, "drop") /\ req[q].id = req[r].id

\* No client of a removed account that its Disconnect did not miss is connected, or
\* going to be.
Quiet ==
    \A i \in Ids \ (accounts \cup held) :
        \/ session[i] = "down" /\ i \notin dialling \cup Untracked
        \/ \E r \in Requests : At(r, "drop") /\ req[r].id = i

IInv ==
    /\ TypeOK
    /\ PublishAlone
    /\ Removed
    /\ LoadedHasRow
    /\ UnloadedRow
    /\ TornOK
    /\ PhoneSettled
    /\ Connecting
    /\ Quiet

LEMMA IInvInit == Init => IInv
  BY InitTypes DEF Init, IInv, PublishAlone, Removed, LoadedHasRow, UnloadedRow, TornOK,
     PhoneSettled, Connecting, Quiet, Untracked, IdleRequest

LEMMA PublishAloneStep == IInv /\ [Next]_vars => PublishAlone'
<1> SUFFICES ASSUME IInv, [Next]_vars PROVE PublishAlone'
  OBVIOUS
<1>1. ASSUME NEW r \in Requests, NEW p \in Phones, CreateLookup(r, p) PROVE PublishAlone'
  BY <1>1 DEF CreateLookup, Begin, IInv, TypeOK, RequestState, IdleRequest, PublishAlone
<1>2. ASSUME NEW r \in Requests, CreateInsert(r) PROVE PublishAlone'
  BY <1>2
     DEF CreateInsert, NewUUID, PhoneTaken, Untracked, IInv, TypeOK, RequestState,
         IdleRequest, PublishAlone
<1>3. ASSUME NEW r \in Requests, CreatePublish(r) PROVE PublishAlone'
  BY <1>3 DEF CreatePublish, IInv, TypeOK, RequestState, IdleRequest, PublishAlone
<1>4. ASSUME NEW r \in Requests, NEW i \in Ids, DeleteLookup(r, i) PROVE PublishAlone'
  BY <1>4 DEF DeleteLookup, Begin, IInv, TypeOK, RequestState, IdleRequest, PublishAlone
<1>5. ASSUME NEW r \in Requests, DeleteCheck(r) PROVE PublishAlone'
  BY <1>5 DEF DeleteCheck, IInv, TypeOK, RequestState, IdleRequest, PublishAlone
<1>6. ASSUME NEW r \in Requests, DeleteUnmap(r) PROVE PublishAlone'
  BY <1>6 DEF DeleteUnmap, IInv, TypeOK, RequestState, IdleRequest, PublishAlone
<1>7. ASSUME NEW r \in Requests, DeleteDrop(r) PROVE PublishAlone'
  BY <1>7
     DEF DeleteDrop, Disconnect, LetGo, Escapes, Other, Untracked, IInv, TypeOK,
         RequestState, IdleRequest, PublishAlone
<1>8. ASSUME NEW r \in Requests, DeleteRow(r) PROVE PublishAlone'
  BY <1>8 DEF DeleteRow, IInv, TypeOK, RequestState, IdleRequest, PublishAlone
<1>9. ASSUME NEW r \in Requests, NEW i \in Ids, NEW p \in Phones, UpdateLookup(r, i, p) PROVE PublishAlone'
  BY <1>9 DEF UpdateLookup, Begin, IInv, TypeOK, RequestState, IdleRequest, PublishAlone
<1>10. ASSUME NEW r \in Requests, UpdateTaken(r) PROVE PublishAlone'
  BY <1>10 DEF UpdateTaken, IInv, TypeOK, RequestState, IdleRequest, PublishAlone
<1>11. ASSUME NEW r \in Requests, UpdateWrite(r) PROVE PublishAlone'
  BY <1>11
     DEF UpdateWrite, UpdatedRows, PhoneTaken, Other, IInv, TypeOK, RequestState,
         IdleRequest, PublishAlone
<1>12. ASSUME NEW r \in Requests, UpdateMemory(r) PROVE PublishAlone'
  BY <1>12 DEF UpdateMemory, IInv, TypeOK, RequestState, IdleRequest, PublishAlone
<1>13. ASSUME NEW r \in Requests, NEW i \in Ids, ConnectLookup(r, i) PROVE PublishAlone'
  BY <1>13 DEF ConnectLookup, Begin, IInv, TypeOK, RequestState, IdleRequest, PublishAlone
<1>14. ASSUME NEW r \in Requests, EnsureConnected(r) PROVE PublishAlone'
  BY <1>14
     DEF EnsureConnected, Connected, LetGo, IInv, TypeOK, RequestState, IdleRequest,
         PublishAlone
<1>15. ASSUME NEW r \in Requests, GetQR(r) PROVE PublishAlone'
  BY <1>15 DEF GetQR, LetGo, IInv, TypeOK, RequestState, IdleRequest, PublishAlone
<1>16. ASSUME NEW i \in Ids, LogIn(i) PROVE PublishAlone'
  BY <1>16 DEF LogIn, IInv, TypeOK, RequestState, IdleRequest, PublishAlone
<1>17. ASSUME NEW i \in Ids, LoggedOut(i) PROVE PublishAlone'
  BY <1>17
     DEF LoggedOut, Disconnect, LetGo, IInv, TypeOK, RequestState, IdleRequest, PublishAlone
<1>18. ASSUME NEW i \in Ids, Dropped(i) PROVE PublishAlone'
  BY <1>18 DEF Dropped, Connected, IInv, TypeOK, RequestState, IdleRequest, PublishAlone
<1>19. ASSUME NEW i \in Ids, NetReconnect(i) PROVE PublishAlone'
  BY <1>19 DEF NetReconnect, IInv, TypeOK, RequestState, IdleRequest, PublishAlone
<1>20. ASSUME NEW i \in Ids, AutoReconnectWake(i) PROVE PublishAlone'
  BY <1>20
     DEF AutoReconnectWake, Unconnected, Rest, IInv, TypeOK, RequestState, IdleRequest,
         PublishAlone
<1>21. ASSUME NEW i \in Ids, AutoReconnectDial(i) PROVE PublishAlone'
  BY <1>21
     DEF AutoReconnectDial, Unconnected, Rest, IInv, TypeOK, RequestState, IdleRequest,
         PublishAlone
<1>22. ASSUME NEW i \in Ids, LooseDial(i) PROVE PublishAlone'
  BY <1>22 DEF LooseDial, Rest, IInv, TypeOK, RequestState, IdleRequest, PublishAlone
<1>23. ASSUME NEW i \in Ids, StrayDropped(i) PROVE PublishAlone'
  BY <1>23 DEF StrayDropped, Rest, IInv, TypeOK, RequestState, IdleRequest, PublishAlone
<1>24. ASSUME Stop PROVE PublishAlone'
  BY <1>24 DEF Stop, IInv, TypeOK, RequestState, IdleRequest, PublishAlone
<1>25. ASSUME NEW i \in Ids, ShutdownNext(i) PROVE PublishAlone'
  BY <1>25
     DEF ShutdownNext, Disconnect, LetGo, IInv, TypeOK, RequestState, IdleRequest,
         PublishAlone
<1>26. ASSUME CloseServer PROVE PublishAlone'
  BY <1>26 DEF CloseServer, IInv, TypeOK, RequestState, IdleRequest, PublishAlone
<1>27. ASSUME Goodbye PROVE PublishAlone'
  BY <1>27 DEF Goodbye, IInv, TypeOK, RequestState, IdleRequest, PublishAlone
<1>28. ASSUME Restart PROVE PublishAlone'
  BY <1>28
     DEF Restart, Stored, Discovered, IInv, TypeOK, RequestState, IdleRequest, PublishAlone
<1>29. CASE UNCHANGED vars
  BY <1>29 DEF vars, IInv, TypeOK, RequestState, IdleRequest, PublishAlone
<1> QED
  BY <1>1, <1>2, <1>3, <1>4, <1>5, <1>6, <1>7, <1>8, <1>9, <1>10, <1>11, <1>12, <1>13, <1>14, <1>15, <1>16, <1>17, <1>18, <1>19, <1>20, <1>21, <1>22, <1>23, <1>24, <1>25, <1>26, <1>27, <1>28, <1>29
  DEF Next, Create, Delete, Update, Connect, Connection, Shutdown

LEMMA RemovedStep == IInv /\ [Next]_vars => Removed'
<1> SUFFICES ASSUME IInv, [Next]_vars PROVE Removed'
  OBVIOUS
<1>1. ASSUME NEW r \in Requests, NEW p \in Phones, CreateLookup(r, p) PROVE Removed'
  BY <1>1
     DEF CreateLookup, Begin, IInv, TypeOK, RequestState, IdleRequest, Removed, PublishAlone
<1>2. ASSUME NEW r \in Requests, CreateInsert(r) PROVE Removed'
  BY <1>2
     DEF CreateInsert, NewUUID, PhoneTaken, Untracked, IInv, TypeOK, RequestState,
         IdleRequest, Removed, PublishAlone
<1>3. ASSUME NEW r \in Requests, CreatePublish(r) PROVE Removed'
  BY <1>3 DEF CreatePublish, IInv, TypeOK, RequestState, IdleRequest, Removed, PublishAlone
<1>4. ASSUME NEW r \in Requests, NEW i \in Ids, DeleteLookup(r, i) PROVE Removed'
  BY <1>4
     DEF DeleteLookup, Begin, IInv, TypeOK, RequestState, IdleRequest, Removed, PublishAlone
<1>5. ASSUME NEW r \in Requests, DeleteCheck(r) PROVE Removed'
  BY <1>5 DEF DeleteCheck, IInv, TypeOK, RequestState, IdleRequest, Removed, PublishAlone
<1>6. ASSUME NEW r \in Requests, DeleteUnmap(r) PROVE Removed'
  BY <1>6 DEF DeleteUnmap, IInv, TypeOK, RequestState, IdleRequest, Removed, PublishAlone
<1>7. ASSUME NEW r \in Requests, DeleteDrop(r) PROVE Removed'
  BY <1>7
     DEF DeleteDrop, Disconnect, LetGo, Escapes, Other, Untracked, IInv, TypeOK,
         RequestState, IdleRequest, Removed, PublishAlone
<1>8. ASSUME NEW r \in Requests, DeleteRow(r) PROVE Removed'
  BY <1>8 DEF DeleteRow, IInv, TypeOK, RequestState, IdleRequest, Removed, PublishAlone
<1>9. ASSUME NEW r \in Requests, NEW i \in Ids, NEW p \in Phones, UpdateLookup(r, i, p) PROVE Removed'
  BY <1>9
     DEF UpdateLookup, Begin, IInv, TypeOK, RequestState, IdleRequest, Removed, PublishAlone
<1>10. ASSUME NEW r \in Requests, UpdateTaken(r) PROVE Removed'
  BY <1>10 DEF UpdateTaken, IInv, TypeOK, RequestState, IdleRequest, Removed, PublishAlone
<1>11. ASSUME NEW r \in Requests, UpdateWrite(r) PROVE Removed'
  BY <1>11
     DEF UpdateWrite, UpdatedRows, PhoneTaken, Other, IInv, TypeOK, RequestState,
         IdleRequest, Removed, PublishAlone
<1>12. ASSUME NEW r \in Requests, UpdateMemory(r) PROVE Removed'
  BY <1>12 DEF UpdateMemory, IInv, TypeOK, RequestState, IdleRequest, Removed, PublishAlone
<1>13. ASSUME NEW r \in Requests, NEW i \in Ids, ConnectLookup(r, i) PROVE Removed'
  BY <1>13
     DEF ConnectLookup, Begin, IInv, TypeOK, RequestState, IdleRequest, Removed,
         PublishAlone
<1>14. ASSUME NEW r \in Requests, EnsureConnected(r) PROVE Removed'
  BY <1>14
     DEF EnsureConnected, Connected, LetGo, IInv, TypeOK, RequestState, IdleRequest,
         Removed, PublishAlone
<1>15. ASSUME NEW r \in Requests, GetQR(r) PROVE Removed'
  BY <1>15 DEF GetQR, LetGo, IInv, TypeOK, RequestState, IdleRequest, Removed, PublishAlone
<1>16. ASSUME NEW i \in Ids, LogIn(i) PROVE Removed'
  BY <1>16 DEF LogIn, IInv, TypeOK, RequestState, IdleRequest, Removed, PublishAlone
<1>17. ASSUME NEW i \in Ids, LoggedOut(i) PROVE Removed'
  BY <1>17
     DEF LoggedOut, Disconnect, LetGo, IInv, TypeOK, RequestState, IdleRequest, Removed,
         PublishAlone
<1>18. ASSUME NEW i \in Ids, Dropped(i) PROVE Removed'
  BY <1>18
     DEF Dropped, Connected, IInv, TypeOK, RequestState, IdleRequest, Removed, PublishAlone
<1>19. ASSUME NEW i \in Ids, NetReconnect(i) PROVE Removed'
  BY <1>19 DEF NetReconnect, IInv, TypeOK, RequestState, IdleRequest, Removed, PublishAlone
<1>20. ASSUME NEW i \in Ids, AutoReconnectWake(i) PROVE Removed'
  BY <1>20
     DEF AutoReconnectWake, Unconnected, Rest, IInv, TypeOK, RequestState, IdleRequest,
         Removed, PublishAlone
<1>21. ASSUME NEW i \in Ids, AutoReconnectDial(i) PROVE Removed'
  BY <1>21
     DEF AutoReconnectDial, Unconnected, Rest, IInv, TypeOK, RequestState, IdleRequest,
         Removed, PublishAlone
<1>22. ASSUME NEW i \in Ids, LooseDial(i) PROVE Removed'
  BY <1>22 DEF LooseDial, Rest, IInv, TypeOK, RequestState, IdleRequest, Removed, PublishAlone
<1>23. ASSUME NEW i \in Ids, StrayDropped(i) PROVE Removed'
  BY <1>23
     DEF StrayDropped, Rest, IInv, TypeOK, RequestState, IdleRequest, Removed, PublishAlone
<1>24. ASSUME Stop PROVE Removed'
  BY <1>24 DEF Stop, IInv, TypeOK, RequestState, IdleRequest, Removed, PublishAlone
<1>25. ASSUME NEW i \in Ids, ShutdownNext(i) PROVE Removed'
  BY <1>25
     DEF ShutdownNext, Disconnect, LetGo, IInv, TypeOK, RequestState, IdleRequest, Removed,
         PublishAlone
<1>26. ASSUME CloseServer PROVE Removed'
  BY <1>26 DEF CloseServer, IInv, TypeOK, RequestState, IdleRequest, Removed, PublishAlone
<1>27. ASSUME Goodbye PROVE Removed'
  BY <1>27 DEF Goodbye, IInv, TypeOK, RequestState, IdleRequest, Removed, PublishAlone
<1>28. ASSUME Restart PROVE Removed'
  BY <1>28
     DEF Restart, Stored, Discovered, IInv, TypeOK, RequestState, IdleRequest, Removed,
         PublishAlone
<1>29. CASE UNCHANGED vars
  BY <1>29 DEF vars, IInv, TypeOK, RequestState, IdleRequest, Removed, PublishAlone
<1> QED
  BY <1>1, <1>2, <1>3, <1>4, <1>5, <1>6, <1>7, <1>8, <1>9, <1>10, <1>11, <1>12, <1>13, <1>14, <1>15, <1>16, <1>17, <1>18, <1>19, <1>20, <1>21, <1>22, <1>23, <1>24, <1>25, <1>26, <1>27, <1>28, <1>29
  DEF Next, Create, Delete, Update, Connect, Connection, Shutdown

LEMMA LoadedHasRowStep == IInv /\ [Next]_vars => LoadedHasRow'
<1> SUFFICES ASSUME IInv, [Next]_vars PROVE LoadedHasRow'
  OBVIOUS
<1>1. ASSUME NEW r \in Requests, NEW p \in Phones, CreateLookup(r, p) PROVE LoadedHasRow'
  BY <1>1
     DEF CreateLookup, Begin, IInv, TypeOK, RequestState, IdleRequest, LoadedHasRow,
         PublishAlone, Removed
<1>2. ASSUME NEW r \in Requests, CreateInsert(r) PROVE LoadedHasRow'
  BY <1>2
     DEF CreateInsert, NewUUID, PhoneTaken, Untracked, IInv, TypeOK, RequestState,
         IdleRequest, LoadedHasRow, PublishAlone, Removed
<1>3. ASSUME NEW r \in Requests, CreatePublish(r) PROVE LoadedHasRow'
  BY <1>3
     DEF CreatePublish, IInv, TypeOK, RequestState, IdleRequest, LoadedHasRow, PublishAlone,
         Removed
<1>4. ASSUME NEW r \in Requests, NEW i \in Ids, DeleteLookup(r, i) PROVE LoadedHasRow'
  BY <1>4
     DEF DeleteLookup, Begin, IInv, TypeOK, RequestState, IdleRequest, LoadedHasRow,
         PublishAlone, Removed
<1>5. ASSUME NEW r \in Requests, DeleteCheck(r) PROVE LoadedHasRow'
  BY <1>5
     DEF DeleteCheck, IInv, TypeOK, RequestState, IdleRequest, LoadedHasRow, PublishAlone,
         Removed
<1>6. ASSUME NEW r \in Requests, DeleteUnmap(r) PROVE LoadedHasRow'
  BY <1>6
     DEF DeleteUnmap, IInv, TypeOK, RequestState, IdleRequest, LoadedHasRow, PublishAlone,
         Removed
<1>7. ASSUME NEW r \in Requests, DeleteDrop(r) PROVE LoadedHasRow'
  BY <1>7
     DEF DeleteDrop, Disconnect, LetGo, Escapes, Other, Untracked, IInv, TypeOK,
         RequestState, IdleRequest, LoadedHasRow, PublishAlone, Removed
<1>8. ASSUME NEW r \in Requests, DeleteRow(r) PROVE LoadedHasRow'
  BY <1>8
     DEF DeleteRow, IInv, TypeOK, RequestState, IdleRequest, LoadedHasRow, PublishAlone,
         Removed
<1>9. ASSUME NEW r \in Requests, NEW i \in Ids, NEW p \in Phones, UpdateLookup(r, i, p) PROVE LoadedHasRow'
  BY <1>9
     DEF UpdateLookup, Begin, IInv, TypeOK, RequestState, IdleRequest, LoadedHasRow,
         PublishAlone, Removed
<1>10. ASSUME NEW r \in Requests, UpdateTaken(r) PROVE LoadedHasRow'
  BY <1>10
     DEF UpdateTaken, IInv, TypeOK, RequestState, IdleRequest, LoadedHasRow, PublishAlone,
         Removed
<1>11. ASSUME NEW r \in Requests, UpdateWrite(r) PROVE LoadedHasRow'
  BY <1>11
     DEF UpdateWrite, UpdatedRows, PhoneTaken, Other, IInv, TypeOK, RequestState,
         IdleRequest, LoadedHasRow, PublishAlone, Removed
<1>12. ASSUME NEW r \in Requests, UpdateMemory(r) PROVE LoadedHasRow'
  BY <1>12
     DEF UpdateMemory, IInv, TypeOK, RequestState, IdleRequest, LoadedHasRow, PublishAlone,
         Removed
<1>13. ASSUME NEW r \in Requests, NEW i \in Ids, ConnectLookup(r, i) PROVE LoadedHasRow'
  BY <1>13
     DEF ConnectLookup, Begin, IInv, TypeOK, RequestState, IdleRequest, LoadedHasRow,
         PublishAlone, Removed
<1>14. ASSUME NEW r \in Requests, EnsureConnected(r) PROVE LoadedHasRow'
  BY <1>14
     DEF EnsureConnected, Connected, LetGo, IInv, TypeOK, RequestState, IdleRequest,
         LoadedHasRow, PublishAlone, Removed
<1>15. ASSUME NEW r \in Requests, GetQR(r) PROVE LoadedHasRow'
  BY <1>15
     DEF GetQR, LetGo, IInv, TypeOK, RequestState, IdleRequest, LoadedHasRow, PublishAlone,
         Removed
<1>16. ASSUME NEW i \in Ids, LogIn(i) PROVE LoadedHasRow'
  BY <1>16
     DEF LogIn, IInv, TypeOK, RequestState, IdleRequest, LoadedHasRow, PublishAlone, Removed
<1>17. ASSUME NEW i \in Ids, LoggedOut(i) PROVE LoadedHasRow'
  BY <1>17
     DEF LoggedOut, Disconnect, LetGo, IInv, TypeOK, RequestState, IdleRequest,
         LoadedHasRow, PublishAlone, Removed
<1>18. ASSUME NEW i \in Ids, Dropped(i) PROVE LoadedHasRow'
  BY <1>18
     DEF Dropped, Connected, IInv, TypeOK, RequestState, IdleRequest, LoadedHasRow,
         PublishAlone, Removed
<1>19. ASSUME NEW i \in Ids, NetReconnect(i) PROVE LoadedHasRow'
  BY <1>19
     DEF NetReconnect, IInv, TypeOK, RequestState, IdleRequest, LoadedHasRow, PublishAlone,
         Removed
<1>20. ASSUME NEW i \in Ids, AutoReconnectWake(i) PROVE LoadedHasRow'
  BY <1>20
     DEF AutoReconnectWake, Unconnected, Rest, IInv, TypeOK, RequestState, IdleRequest,
         LoadedHasRow, PublishAlone, Removed
<1>21. ASSUME NEW i \in Ids, AutoReconnectDial(i) PROVE LoadedHasRow'
  BY <1>21
     DEF AutoReconnectDial, Unconnected, Rest, IInv, TypeOK, RequestState, IdleRequest,
         LoadedHasRow, PublishAlone, Removed
<1>22. ASSUME NEW i \in Ids, LooseDial(i) PROVE LoadedHasRow'
  BY <1>22
     DEF LooseDial, Rest, IInv, TypeOK, RequestState, IdleRequest, LoadedHasRow,
         PublishAlone, Removed
<1>23. ASSUME NEW i \in Ids, StrayDropped(i) PROVE LoadedHasRow'
  BY <1>23
     DEF StrayDropped, Rest, IInv, TypeOK, RequestState, IdleRequest, LoadedHasRow,
         PublishAlone, Removed
<1>24. ASSUME Stop PROVE LoadedHasRow'
  BY <1>24
     DEF Stop, IInv, TypeOK, RequestState, IdleRequest, LoadedHasRow, PublishAlone, Removed
<1>25. ASSUME NEW i \in Ids, ShutdownNext(i) PROVE LoadedHasRow'
  BY <1>25
     DEF ShutdownNext, Disconnect, LetGo, IInv, TypeOK, RequestState, IdleRequest,
         LoadedHasRow, PublishAlone, Removed
<1>26. ASSUME CloseServer PROVE LoadedHasRow'
  BY <1>26
     DEF CloseServer, IInv, TypeOK, RequestState, IdleRequest, LoadedHasRow, PublishAlone,
         Removed
<1>27. ASSUME Goodbye PROVE LoadedHasRow'
  BY <1>27
     DEF Goodbye, IInv, TypeOK, RequestState, IdleRequest, LoadedHasRow, PublishAlone,
         Removed
<1>28. ASSUME Restart PROVE LoadedHasRow'
  BY <1>28
     DEF Restart, Stored, Discovered, IInv, TypeOK, RequestState, IdleRequest, LoadedHasRow,
         PublishAlone, Removed
<1>29. CASE UNCHANGED vars
  BY <1>29
     DEF vars, IInv, TypeOK, RequestState, IdleRequest, LoadedHasRow, PublishAlone, Removed
<1> QED
  BY <1>1, <1>2, <1>3, <1>4, <1>5, <1>6, <1>7, <1>8, <1>9, <1>10, <1>11, <1>12, <1>13, <1>14, <1>15, <1>16, <1>17, <1>18, <1>19, <1>20, <1>21, <1>22, <1>23, <1>24, <1>25, <1>26, <1>27, <1>28, <1>29
  DEF Next, Create, Delete, Update, Connect, Connection, Shutdown

LEMMA UnloadedRowStep == IInv /\ [Next]_vars => UnloadedRow'
<1> SUFFICES ASSUME IInv, [Next]_vars PROVE UnloadedRow'
  OBVIOUS
<1>1. ASSUME NEW r \in Requests, NEW p \in Phones, CreateLookup(r, p) PROVE UnloadedRow'
  BY <1>1
     DEF CreateLookup, Begin, IInv, TypeOK, RequestState, IdleRequest, UnloadedRow,
         PublishAlone
<1>2. ASSUME NEW r \in Requests, CreateInsert(r) PROVE UnloadedRow'
  BY <1>2
     DEF CreateInsert, NewUUID, PhoneTaken, Untracked, IInv, TypeOK, RequestState,
         IdleRequest, UnloadedRow, PublishAlone
<1>3. ASSUME NEW r \in Requests, CreatePublish(r) PROVE UnloadedRow'
  BY <1>3 DEF CreatePublish, IInv, TypeOK, RequestState, IdleRequest, UnloadedRow, PublishAlone
<1>4. ASSUME NEW r \in Requests, NEW i \in Ids, DeleteLookup(r, i) PROVE UnloadedRow'
  BY <1>4
     DEF DeleteLookup, Begin, IInv, TypeOK, RequestState, IdleRequest, UnloadedRow,
         PublishAlone
<1>5. ASSUME NEW r \in Requests, DeleteCheck(r) PROVE UnloadedRow'
  BY <1>5 DEF DeleteCheck, IInv, TypeOK, RequestState, IdleRequest, UnloadedRow, PublishAlone
<1>6. ASSUME NEW r \in Requests, DeleteUnmap(r) PROVE UnloadedRow'
  BY <1>6 DEF DeleteUnmap, IInv, TypeOK, RequestState, IdleRequest, UnloadedRow, PublishAlone
<1>7. ASSUME NEW r \in Requests, DeleteDrop(r) PROVE UnloadedRow'
  BY <1>7
     DEF DeleteDrop, Disconnect, LetGo, Escapes, Other, Untracked, IInv, TypeOK,
         RequestState, IdleRequest, UnloadedRow, PublishAlone
<1>8. ASSUME NEW r \in Requests, DeleteRow(r) PROVE UnloadedRow'
  BY <1>8 DEF DeleteRow, IInv, TypeOK, RequestState, IdleRequest, UnloadedRow, PublishAlone
<1>9. ASSUME NEW r \in Requests, NEW i \in Ids, NEW p \in Phones, UpdateLookup(r, i, p) PROVE UnloadedRow'
  BY <1>9
     DEF UpdateLookup, Begin, IInv, TypeOK, RequestState, IdleRequest, UnloadedRow,
         PublishAlone
<1>10. ASSUME NEW r \in Requests, UpdateTaken(r) PROVE UnloadedRow'
  BY <1>10 DEF UpdateTaken, IInv, TypeOK, RequestState, IdleRequest, UnloadedRow, PublishAlone
<1>11. ASSUME NEW r \in Requests, UpdateWrite(r) PROVE UnloadedRow'
  BY <1>11
     DEF UpdateWrite, UpdatedRows, PhoneTaken, Other, IInv, TypeOK, RequestState,
         IdleRequest, UnloadedRow, PublishAlone
<1>12. ASSUME NEW r \in Requests, UpdateMemory(r) PROVE UnloadedRow'
  BY <1>12 DEF UpdateMemory, IInv, TypeOK, RequestState, IdleRequest, UnloadedRow, PublishAlone
<1>13. ASSUME NEW r \in Requests, NEW i \in Ids, ConnectLookup(r, i) PROVE UnloadedRow'
  BY <1>13
     DEF ConnectLookup, Begin, IInv, TypeOK, RequestState, IdleRequest, UnloadedRow,
         PublishAlone
<1>14. ASSUME NEW r \in Requests, EnsureConnected(r) PROVE UnloadedRow'
  BY <1>14
     DEF EnsureConnected, Connected, LetGo, IInv, TypeOK, RequestState, IdleRequest,
         UnloadedRow, PublishAlone
<1>15. ASSUME NEW r \in Requests, GetQR(r) PROVE UnloadedRow'
  BY <1>15 DEF GetQR, LetGo, IInv, TypeOK, RequestState, IdleRequest, UnloadedRow, PublishAlone
<1>16. ASSUME NEW i \in Ids, LogIn(i) PROVE UnloadedRow'
  BY <1>16 DEF LogIn, IInv, TypeOK, RequestState, IdleRequest, UnloadedRow, PublishAlone
<1>17. ASSUME NEW i \in Ids, LoggedOut(i) PROVE UnloadedRow'
  BY <1>17
     DEF LoggedOut, Disconnect, LetGo, IInv, TypeOK, RequestState, IdleRequest, UnloadedRow,
         PublishAlone
<1>18. ASSUME NEW i \in Ids, Dropped(i) PROVE UnloadedRow'
  BY <1>18
     DEF Dropped, Connected, IInv, TypeOK, RequestState, IdleRequest, UnloadedRow,
         PublishAlone
<1>19. ASSUME NEW i \in Ids, NetReconnect(i) PROVE UnloadedRow'
  BY <1>19 DEF NetReconnect, IInv, TypeOK, RequestState, IdleRequest, UnloadedRow, PublishAlone
<1>20. ASSUME NEW i \in Ids, AutoReconnectWake(i) PROVE UnloadedRow'
  BY <1>20
     DEF AutoReconnectWake, Unconnected, Rest, IInv, TypeOK, RequestState, IdleRequest,
         UnloadedRow, PublishAlone
<1>21. ASSUME NEW i \in Ids, AutoReconnectDial(i) PROVE UnloadedRow'
  BY <1>21
     DEF AutoReconnectDial, Unconnected, Rest, IInv, TypeOK, RequestState, IdleRequest,
         UnloadedRow, PublishAlone
<1>22. ASSUME NEW i \in Ids, LooseDial(i) PROVE UnloadedRow'
  BY <1>22
     DEF LooseDial, Rest, IInv, TypeOK, RequestState, IdleRequest, UnloadedRow, PublishAlone
<1>23. ASSUME NEW i \in Ids, StrayDropped(i) PROVE UnloadedRow'
  BY <1>23
     DEF StrayDropped, Rest, IInv, TypeOK, RequestState, IdleRequest, UnloadedRow,
         PublishAlone
<1>24. ASSUME Stop PROVE UnloadedRow'
  BY <1>24 DEF Stop, IInv, TypeOK, RequestState, IdleRequest, UnloadedRow, PublishAlone
<1>25. ASSUME NEW i \in Ids, ShutdownNext(i) PROVE UnloadedRow'
  BY <1>25
     DEF ShutdownNext, Disconnect, LetGo, IInv, TypeOK, RequestState, IdleRequest,
         UnloadedRow, PublishAlone
<1>26. ASSUME CloseServer PROVE UnloadedRow'
  BY <1>26 DEF CloseServer, IInv, TypeOK, RequestState, IdleRequest, UnloadedRow, PublishAlone
<1>27. ASSUME Goodbye PROVE UnloadedRow'
  BY <1>27 DEF Goodbye, IInv, TypeOK, RequestState, IdleRequest, UnloadedRow, PublishAlone
<1>28. ASSUME Restart PROVE UnloadedRow'
  BY <1>28
     DEF Restart, Stored, Discovered, IInv, TypeOK, RequestState, IdleRequest, UnloadedRow,
         PublishAlone
<1>29. CASE UNCHANGED vars
  BY <1>29 DEF vars, IInv, TypeOK, RequestState, IdleRequest, UnloadedRow, PublishAlone
<1> QED
  BY <1>1, <1>2, <1>3, <1>4, <1>5, <1>6, <1>7, <1>8, <1>9, <1>10, <1>11, <1>12, <1>13, <1>14, <1>15, <1>16, <1>17, <1>18, <1>19, <1>20, <1>21, <1>22, <1>23, <1>24, <1>25, <1>26, <1>27, <1>28, <1>29
  DEF Next, Create, Delete, Update, Connect, Connection, Shutdown

LEMMA TornOKStep == IInv /\ [Next]_vars => TornOK'
<1> SUFFICES ASSUME IInv, [Next]_vars PROVE TornOK'
  OBVIOUS
<1>1. ASSUME NEW r \in Requests, NEW p \in Phones, CreateLookup(r, p) PROVE TornOK'
  BY <1>1
     DEF CreateLookup, Begin, IInv, TypeOK, RequestState, IdleRequest, TornOK, PublishAlone,
         Removed, LoadedHasRow
<1>2. ASSUME NEW r \in Requests, CreateInsert(r) PROVE TornOK'
  BY <1>2
     DEF CreateInsert, NewUUID, PhoneTaken, Untracked, IInv, TypeOK, RequestState,
         IdleRequest, TornOK, PublishAlone, Removed, LoadedHasRow
<1>3. ASSUME NEW r \in Requests, CreatePublish(r) PROVE TornOK'
  BY <1>3
     DEF CreatePublish, IInv, TypeOK, RequestState, IdleRequest, TornOK, PublishAlone,
         Removed, LoadedHasRow
<1>4. ASSUME NEW r \in Requests, NEW i \in Ids, DeleteLookup(r, i) PROVE TornOK'
  BY <1>4
     DEF DeleteLookup, Begin, IInv, TypeOK, RequestState, IdleRequest, TornOK, PublishAlone,
         Removed, LoadedHasRow
<1>5. ASSUME NEW r \in Requests, DeleteCheck(r) PROVE TornOK'
  BY <1>5
     DEF DeleteCheck, IInv, TypeOK, RequestState, IdleRequest, TornOK, PublishAlone,
         Removed, LoadedHasRow
<1>6. ASSUME NEW r \in Requests, DeleteUnmap(r) PROVE TornOK'
  BY <1>6
     DEF DeleteUnmap, IInv, TypeOK, RequestState, IdleRequest, TornOK, PublishAlone,
         Removed, LoadedHasRow
<1>7. ASSUME NEW r \in Requests, DeleteDrop(r) PROVE TornOK'
  BY <1>7
     DEF DeleteDrop, Disconnect, LetGo, Escapes, Other, Untracked, IInv, TypeOK,
         RequestState, IdleRequest, TornOK, PublishAlone, Removed, LoadedHasRow
<1>8. ASSUME NEW r \in Requests, DeleteRow(r) PROVE TornOK'
  BY <1>8
     DEF DeleteRow, IInv, TypeOK, RequestState, IdleRequest, TornOK, PublishAlone, Removed,
         LoadedHasRow
<1>9. ASSUME NEW r \in Requests, NEW i \in Ids, NEW p \in Phones, UpdateLookup(r, i, p) PROVE TornOK'
  BY <1>9
     DEF UpdateLookup, Begin, IInv, TypeOK, RequestState, IdleRequest, TornOK, PublishAlone,
         Removed, LoadedHasRow
<1>10. ASSUME NEW r \in Requests, UpdateTaken(r) PROVE TornOK'
  BY <1>10
     DEF UpdateTaken, IInv, TypeOK, RequestState, IdleRequest, TornOK, PublishAlone,
         Removed, LoadedHasRow
<1>11. ASSUME NEW r \in Requests, UpdateWrite(r) PROVE TornOK'
  BY <1>11
     DEF UpdateWrite, UpdatedRows, PhoneTaken, Other, IInv, TypeOK, RequestState,
         IdleRequest, TornOK, PublishAlone, Removed, LoadedHasRow
<1>12. ASSUME NEW r \in Requests, UpdateMemory(r) PROVE TornOK'
  BY <1>12
     DEF UpdateMemory, IInv, TypeOK, RequestState, IdleRequest, TornOK, PublishAlone,
         Removed, LoadedHasRow
<1>13. ASSUME NEW r \in Requests, NEW i \in Ids, ConnectLookup(r, i) PROVE TornOK'
  BY <1>13
     DEF ConnectLookup, Begin, IInv, TypeOK, RequestState, IdleRequest, TornOK,
         PublishAlone, Removed, LoadedHasRow
<1>14. ASSUME NEW r \in Requests, EnsureConnected(r) PROVE TornOK'
  BY <1>14
     DEF EnsureConnected, Connected, LetGo, IInv, TypeOK, RequestState, IdleRequest, TornOK,
         PublishAlone, Removed, LoadedHasRow
<1>15. ASSUME NEW r \in Requests, GetQR(r) PROVE TornOK'
  BY <1>15
     DEF GetQR, LetGo, IInv, TypeOK, RequestState, IdleRequest, TornOK, PublishAlone,
         Removed, LoadedHasRow
<1>16. ASSUME NEW i \in Ids, LogIn(i) PROVE TornOK'
  BY <1>16
     DEF LogIn, IInv, TypeOK, RequestState, IdleRequest, TornOK, PublishAlone, Removed,
         LoadedHasRow
<1>17. ASSUME NEW i \in Ids, LoggedOut(i) PROVE TornOK'
  BY <1>17
     DEF LoggedOut, Disconnect, LetGo, IInv, TypeOK, RequestState, IdleRequest, TornOK,
         PublishAlone, Removed, LoadedHasRow
<1>18. ASSUME NEW i \in Ids, Dropped(i) PROVE TornOK'
  BY <1>18
     DEF Dropped, Connected, IInv, TypeOK, RequestState, IdleRequest, TornOK, PublishAlone,
         Removed, LoadedHasRow
<1>19. ASSUME NEW i \in Ids, NetReconnect(i) PROVE TornOK'
  BY <1>19
     DEF NetReconnect, IInv, TypeOK, RequestState, IdleRequest, TornOK, PublishAlone,
         Removed, LoadedHasRow
<1>20. ASSUME NEW i \in Ids, AutoReconnectWake(i) PROVE TornOK'
  BY <1>20
     DEF AutoReconnectWake, Unconnected, Rest, IInv, TypeOK, RequestState, IdleRequest,
         TornOK, PublishAlone, Removed, LoadedHasRow
<1>21. ASSUME NEW i \in Ids, AutoReconnectDial(i) PROVE TornOK'
  BY <1>21
     DEF AutoReconnectDial, Unconnected, Rest, IInv, TypeOK, RequestState, IdleRequest,
         TornOK, PublishAlone, Removed, LoadedHasRow
<1>22. ASSUME NEW i \in Ids, LooseDial(i) PROVE TornOK'
  BY <1>22
     DEF LooseDial, Rest, IInv, TypeOK, RequestState, IdleRequest, TornOK, PublishAlone,
         Removed, LoadedHasRow
<1>23. ASSUME NEW i \in Ids, StrayDropped(i) PROVE TornOK'
  BY <1>23
     DEF StrayDropped, Rest, IInv, TypeOK, RequestState, IdleRequest, TornOK, PublishAlone,
         Removed, LoadedHasRow
<1>24. ASSUME Stop PROVE TornOK'
  BY <1>24
     DEF Stop, IInv, TypeOK, RequestState, IdleRequest, TornOK, PublishAlone, Removed,
         LoadedHasRow
<1>25. ASSUME NEW i \in Ids, ShutdownNext(i) PROVE TornOK'
  BY <1>25
     DEF ShutdownNext, Disconnect, LetGo, IInv, TypeOK, RequestState, IdleRequest, TornOK,
         PublishAlone, Removed, LoadedHasRow
<1>26. ASSUME CloseServer PROVE TornOK'
  BY <1>26
     DEF CloseServer, IInv, TypeOK, RequestState, IdleRequest, TornOK, PublishAlone,
         Removed, LoadedHasRow
<1>27. ASSUME Goodbye PROVE TornOK'
  BY <1>27
     DEF Goodbye, IInv, TypeOK, RequestState, IdleRequest, TornOK, PublishAlone, Removed,
         LoadedHasRow
<1>28. ASSUME Restart PROVE TornOK'
  BY <1>28
     DEF Restart, Stored, Discovered, IInv, TypeOK, RequestState, IdleRequest, TornOK,
         PublishAlone, Removed, LoadedHasRow
<1>29. CASE UNCHANGED vars
  BY <1>29
     DEF vars, IInv, TypeOK, RequestState, IdleRequest, TornOK, PublishAlone, Removed,
         LoadedHasRow
<1> QED
  BY <1>1, <1>2, <1>3, <1>4, <1>5, <1>6, <1>7, <1>8, <1>9, <1>10, <1>11, <1>12, <1>13, <1>14, <1>15, <1>16, <1>17, <1>18, <1>19, <1>20, <1>21, <1>22, <1>23, <1>24, <1>25, <1>26, <1>27, <1>28, <1>29
  DEF Next, Create, Delete, Update, Connect, Connection, Shutdown

LEMMA PhoneSettledStep == IInv /\ [Next]_vars => PhoneSettled'
<1> SUFFICES ASSUME IInv, [Next]_vars PROVE PhoneSettled'
  OBVIOUS
<1>1. ASSUME NEW r \in Requests, NEW p \in Phones, CreateLookup(r, p) PROVE PhoneSettled'
  BY <1>1
     DEF CreateLookup, Begin, IInv, TypeOK, RequestState, IdleRequest, PhoneSettled,
         PublishAlone, Removed, TornOK
<1>2. ASSUME NEW r \in Requests, CreateInsert(r) PROVE PhoneSettled'
  BY <1>2
     DEF CreateInsert, NewUUID, PhoneTaken, Untracked, IInv, TypeOK, RequestState,
         IdleRequest, PhoneSettled, PublishAlone, Removed, TornOK
<1>3. ASSUME NEW r \in Requests, CreatePublish(r) PROVE PhoneSettled'
  BY <1>3
     DEF CreatePublish, IInv, TypeOK, RequestState, IdleRequest, PhoneSettled, PublishAlone,
         Removed, TornOK
<1>4. ASSUME NEW r \in Requests, NEW i \in Ids, DeleteLookup(r, i) PROVE PhoneSettled'
  BY <1>4
     DEF DeleteLookup, Begin, IInv, TypeOK, RequestState, IdleRequest, PhoneSettled,
         PublishAlone, Removed, TornOK
<1>5. ASSUME NEW r \in Requests, DeleteCheck(r) PROVE PhoneSettled'
  BY <1>5
     DEF DeleteCheck, IInv, TypeOK, RequestState, IdleRequest, PhoneSettled, PublishAlone,
         Removed, TornOK
<1>6. ASSUME NEW r \in Requests, DeleteUnmap(r) PROVE PhoneSettled'
  BY <1>6
     DEF DeleteUnmap, IInv, TypeOK, RequestState, IdleRequest, PhoneSettled, PublishAlone,
         Removed, TornOK
<1>7. ASSUME NEW r \in Requests, DeleteDrop(r) PROVE PhoneSettled'
  BY <1>7
     DEF DeleteDrop, Disconnect, LetGo, Escapes, Other, Untracked, IInv, TypeOK,
         RequestState, IdleRequest, PhoneSettled, PublishAlone, Removed, TornOK
<1>8. ASSUME NEW r \in Requests, DeleteRow(r) PROVE PhoneSettled'
  BY <1>8
     DEF DeleteRow, IInv, TypeOK, RequestState, IdleRequest, PhoneSettled, PublishAlone,
         Removed, TornOK
<1>9. ASSUME NEW r \in Requests, NEW i \in Ids, NEW p \in Phones, UpdateLookup(r, i, p) PROVE PhoneSettled'
  BY <1>9
     DEF UpdateLookup, Begin, IInv, TypeOK, RequestState, IdleRequest, PhoneSettled,
         PublishAlone, Removed, TornOK
<1>10. ASSUME NEW r \in Requests, UpdateTaken(r) PROVE PhoneSettled'
  BY <1>10
     DEF UpdateTaken, IInv, TypeOK, RequestState, IdleRequest, PhoneSettled, PublishAlone,
         Removed, TornOK
<1>11. ASSUME NEW r \in Requests, UpdateWrite(r) PROVE PhoneSettled'
  BY <1>11
     DEF UpdateWrite, UpdatedRows, PhoneTaken, Other, IInv, TypeOK, RequestState,
         IdleRequest, PhoneSettled, PublishAlone, Removed, TornOK
<1>12. ASSUME NEW r \in Requests, UpdateMemory(r) PROVE PhoneSettled'
  BY <1>12
     DEF UpdateMemory, IInv, TypeOK, RequestState, IdleRequest, PhoneSettled, PublishAlone,
         Removed, TornOK
<1>13. ASSUME NEW r \in Requests, NEW i \in Ids, ConnectLookup(r, i) PROVE PhoneSettled'
  BY <1>13
     DEF ConnectLookup, Begin, IInv, TypeOK, RequestState, IdleRequest, PhoneSettled,
         PublishAlone, Removed, TornOK
<1>14. ASSUME NEW r \in Requests, EnsureConnected(r) PROVE PhoneSettled'
  BY <1>14
     DEF EnsureConnected, Connected, LetGo, IInv, TypeOK, RequestState, IdleRequest,
         PhoneSettled, PublishAlone, Removed, TornOK
<1>15. ASSUME NEW r \in Requests, GetQR(r) PROVE PhoneSettled'
  BY <1>15
     DEF GetQR, LetGo, IInv, TypeOK, RequestState, IdleRequest, PhoneSettled, PublishAlone,
         Removed, TornOK
<1>16. ASSUME NEW i \in Ids, LogIn(i) PROVE PhoneSettled'
  BY <1>16
     DEF LogIn, IInv, TypeOK, RequestState, IdleRequest, PhoneSettled, PublishAlone,
         Removed, TornOK
<1>17. ASSUME NEW i \in Ids, LoggedOut(i) PROVE PhoneSettled'
  BY <1>17
     DEF LoggedOut, Disconnect, LetGo, IInv, TypeOK, RequestState, IdleRequest,
         PhoneSettled, PublishAlone, Removed, TornOK
<1>18. ASSUME NEW i \in Ids, Dropped(i) PROVE PhoneSettled'
  BY <1>18
     DEF Dropped, Connected, IInv, TypeOK, RequestState, IdleRequest, PhoneSettled,
         PublishAlone, Removed, TornOK
<1>19. ASSUME NEW i \in Ids, NetReconnect(i) PROVE PhoneSettled'
  BY <1>19
     DEF NetReconnect, IInv, TypeOK, RequestState, IdleRequest, PhoneSettled, PublishAlone,
         Removed, TornOK
<1>20. ASSUME NEW i \in Ids, AutoReconnectWake(i) PROVE PhoneSettled'
  BY <1>20
     DEF AutoReconnectWake, Unconnected, Rest, IInv, TypeOK, RequestState, IdleRequest,
         PhoneSettled, PublishAlone, Removed, TornOK
<1>21. ASSUME NEW i \in Ids, AutoReconnectDial(i) PROVE PhoneSettled'
  BY <1>21
     DEF AutoReconnectDial, Unconnected, Rest, IInv, TypeOK, RequestState, IdleRequest,
         PhoneSettled, PublishAlone, Removed, TornOK
<1>22. ASSUME NEW i \in Ids, LooseDial(i) PROVE PhoneSettled'
  BY <1>22
     DEF LooseDial, Rest, IInv, TypeOK, RequestState, IdleRequest, PhoneSettled,
         PublishAlone, Removed, TornOK
<1>23. ASSUME NEW i \in Ids, StrayDropped(i) PROVE PhoneSettled'
  BY <1>23
     DEF StrayDropped, Rest, IInv, TypeOK, RequestState, IdleRequest, PhoneSettled,
         PublishAlone, Removed, TornOK
<1>24. ASSUME Stop PROVE PhoneSettled'
  BY <1>24
     DEF Stop, IInv, TypeOK, RequestState, IdleRequest, PhoneSettled, PublishAlone, Removed,
         TornOK
<1>25. ASSUME NEW i \in Ids, ShutdownNext(i) PROVE PhoneSettled'
  BY <1>25
     DEF ShutdownNext, Disconnect, LetGo, IInv, TypeOK, RequestState, IdleRequest,
         PhoneSettled, PublishAlone, Removed, TornOK
<1>26. ASSUME CloseServer PROVE PhoneSettled'
  BY <1>26
     DEF CloseServer, IInv, TypeOK, RequestState, IdleRequest, PhoneSettled, PublishAlone,
         Removed, TornOK
<1>27. ASSUME Goodbye PROVE PhoneSettled'
  BY <1>27
     DEF Goodbye, IInv, TypeOK, RequestState, IdleRequest, PhoneSettled, PublishAlone,
         Removed, TornOK
<1>28. ASSUME Restart PROVE PhoneSettled'
  BY <1>28
     DEF Restart, Stored, Discovered, IInv, TypeOK, RequestState, IdleRequest, PhoneSettled,
         PublishAlone, Removed, TornOK
<1>29. CASE UNCHANGED vars
  BY <1>29
     DEF vars, IInv, TypeOK, RequestState, IdleRequest, PhoneSettled, PublishAlone, Removed,
         TornOK
<1> QED
  BY <1>1, <1>2, <1>3, <1>4, <1>5, <1>6, <1>7, <1>8, <1>9, <1>10, <1>11, <1>12, <1>13, <1>14, <1>15, <1>16, <1>17, <1>18, <1>19, <1>20, <1>21, <1>22, <1>23, <1>24, <1>25, <1>26, <1>27, <1>28, <1>29
  DEF Next, Create, Delete, Update, Connect, Connection, Shutdown

LEMMA ConnectingStep == IInv /\ [Next]_vars => Connecting'
<1> SUFFICES ASSUME IInv, [Next]_vars PROVE Connecting'
  OBVIOUS
<1>1. ASSUME NEW r \in Requests, NEW p \in Phones, CreateLookup(r, p) PROVE Connecting'
  BY <1>1
     DEF CreateLookup, Begin, IInv, TypeOK, RequestState, IdleRequest, Connecting,
         PublishAlone
<1>2. ASSUME NEW r \in Requests, CreateInsert(r) PROVE Connecting'
  BY <1>2
     DEF CreateInsert, NewUUID, PhoneTaken, Untracked, IInv, TypeOK, RequestState,
         IdleRequest, Connecting, PublishAlone
<1>3. ASSUME NEW r \in Requests, CreatePublish(r) PROVE Connecting'
  BY <1>3 DEF CreatePublish, IInv, TypeOK, RequestState, IdleRequest, Connecting, PublishAlone
<1>4. ASSUME NEW r \in Requests, NEW i \in Ids, DeleteLookup(r, i) PROVE Connecting'
  BY <1>4
     DEF DeleteLookup, Begin, IInv, TypeOK, RequestState, IdleRequest, Connecting,
         PublishAlone
<1>5. ASSUME NEW r \in Requests, DeleteCheck(r) PROVE Connecting'
  BY <1>5 DEF DeleteCheck, IInv, TypeOK, RequestState, IdleRequest, Connecting, PublishAlone
<1>6. ASSUME NEW r \in Requests, DeleteUnmap(r) PROVE Connecting'
  BY <1>6 DEF DeleteUnmap, IInv, TypeOK, RequestState, IdleRequest, Connecting, PublishAlone
<1>7. ASSUME NEW r \in Requests, DeleteDrop(r) PROVE Connecting'
  BY <1>7
     DEF DeleteDrop, Disconnect, LetGo, Escapes, Other, Untracked, IInv, TypeOK,
         RequestState, IdleRequest, Connecting, PublishAlone
<1>8. ASSUME NEW r \in Requests, DeleteRow(r) PROVE Connecting'
  BY <1>8 DEF DeleteRow, IInv, TypeOK, RequestState, IdleRequest, Connecting, PublishAlone
<1>9. ASSUME NEW r \in Requests, NEW i \in Ids, NEW p \in Phones, UpdateLookup(r, i, p) PROVE Connecting'
  BY <1>9
     DEF UpdateLookup, Begin, IInv, TypeOK, RequestState, IdleRequest, Connecting,
         PublishAlone
<1>10. ASSUME NEW r \in Requests, UpdateTaken(r) PROVE Connecting'
  BY <1>10 DEF UpdateTaken, IInv, TypeOK, RequestState, IdleRequest, Connecting, PublishAlone
<1>11. ASSUME NEW r \in Requests, UpdateWrite(r) PROVE Connecting'
  BY <1>11
     DEF UpdateWrite, UpdatedRows, PhoneTaken, Other, IInv, TypeOK, RequestState,
         IdleRequest, Connecting, PublishAlone
<1>12. ASSUME NEW r \in Requests, UpdateMemory(r) PROVE Connecting'
  BY <1>12 DEF UpdateMemory, IInv, TypeOK, RequestState, IdleRequest, Connecting, PublishAlone
<1>13. ASSUME NEW r \in Requests, NEW i \in Ids, ConnectLookup(r, i) PROVE Connecting'
  BY <1>13
     DEF ConnectLookup, Begin, IInv, TypeOK, RequestState, IdleRequest, Connecting,
         PublishAlone
<1>14. ASSUME NEW r \in Requests, EnsureConnected(r) PROVE Connecting'
  BY <1>14
     DEF EnsureConnected, Connected, LetGo, IInv, TypeOK, RequestState, IdleRequest,
         Connecting, PublishAlone
<1>15. ASSUME NEW r \in Requests, GetQR(r) PROVE Connecting'
  BY <1>15 DEF GetQR, LetGo, IInv, TypeOK, RequestState, IdleRequest, Connecting, PublishAlone
<1>16. ASSUME NEW i \in Ids, LogIn(i) PROVE Connecting'
  BY <1>16 DEF LogIn, IInv, TypeOK, RequestState, IdleRequest, Connecting, PublishAlone
<1>17. ASSUME NEW i \in Ids, LoggedOut(i) PROVE Connecting'
  BY <1>17
     DEF LoggedOut, Disconnect, LetGo, IInv, TypeOK, RequestState, IdleRequest, Connecting,
         PublishAlone
<1>18. ASSUME NEW i \in Ids, Dropped(i) PROVE Connecting'
  BY <1>18
     DEF Dropped, Connected, IInv, TypeOK, RequestState, IdleRequest, Connecting,
         PublishAlone
<1>19. ASSUME NEW i \in Ids, NetReconnect(i) PROVE Connecting'
  BY <1>19 DEF NetReconnect, IInv, TypeOK, RequestState, IdleRequest, Connecting, PublishAlone
<1>20. ASSUME NEW i \in Ids, AutoReconnectWake(i) PROVE Connecting'
  BY <1>20
     DEF AutoReconnectWake, Unconnected, Rest, IInv, TypeOK, RequestState, IdleRequest,
         Connecting, PublishAlone
<1>21. ASSUME NEW i \in Ids, AutoReconnectDial(i) PROVE Connecting'
  BY <1>21
     DEF AutoReconnectDial, Unconnected, Rest, IInv, TypeOK, RequestState, IdleRequest,
         Connecting, PublishAlone
<1>22. ASSUME NEW i \in Ids, LooseDial(i) PROVE Connecting'
  BY <1>22
     DEF LooseDial, Rest, IInv, TypeOK, RequestState, IdleRequest, Connecting, PublishAlone
<1>23. ASSUME NEW i \in Ids, StrayDropped(i) PROVE Connecting'
  BY <1>23
     DEF StrayDropped, Rest, IInv, TypeOK, RequestState, IdleRequest, Connecting,
         PublishAlone
<1>24. ASSUME Stop PROVE Connecting'
  BY <1>24 DEF Stop, IInv, TypeOK, RequestState, IdleRequest, Connecting, PublishAlone
<1>25. ASSUME NEW i \in Ids, ShutdownNext(i) PROVE Connecting'
  BY <1>25
     DEF ShutdownNext, Disconnect, LetGo, IInv, TypeOK, RequestState, IdleRequest,
         Connecting, PublishAlone
<1>26. ASSUME CloseServer PROVE Connecting'
  BY <1>26 DEF CloseServer, IInv, TypeOK, RequestState, IdleRequest, Connecting, PublishAlone
<1>27. ASSUME Goodbye PROVE Connecting'
  BY <1>27 DEF Goodbye, IInv, TypeOK, RequestState, IdleRequest, Connecting, PublishAlone
<1>28. ASSUME Restart PROVE Connecting'
  BY <1>28
     DEF Restart, Stored, Discovered, IInv, TypeOK, RequestState, IdleRequest, Connecting,
         PublishAlone
<1>29. CASE UNCHANGED vars
  BY <1>29 DEF vars, IInv, TypeOK, RequestState, IdleRequest, Connecting, PublishAlone
<1> QED
  BY <1>1, <1>2, <1>3, <1>4, <1>5, <1>6, <1>7, <1>8, <1>9, <1>10, <1>11, <1>12, <1>13, <1>14, <1>15, <1>16, <1>17, <1>18, <1>19, <1>20, <1>21, <1>22, <1>23, <1>24, <1>25, <1>26, <1>27, <1>28, <1>29
  DEF Next, Create, Delete, Update, Connect, Connection, Shutdown

LEMMA QuietStep == IInv /\ [Next]_vars => Quiet'
<1> SUFFICES ASSUME IInv, [Next]_vars PROVE Quiet'
  OBVIOUS
<1>1. ASSUME NEW r \in Requests, NEW p \in Phones, CreateLookup(r, p) PROVE Quiet'
  BY <1>1
     DEF CreateLookup, Begin, IInv, TypeOK, RequestState, IdleRequest, Quiet, Untracked,
         Connecting
<1>2. ASSUME NEW r \in Requests, CreateInsert(r) PROVE Quiet'
  BY <1>2
     DEF CreateInsert, NewUUID, PhoneTaken, Untracked, IInv, TypeOK, RequestState,
         IdleRequest, Quiet, Connecting
<1>3. ASSUME NEW r \in Requests, CreatePublish(r) PROVE Quiet'
  BY <1>3
     DEF CreatePublish, IInv, TypeOK, RequestState, IdleRequest, Quiet, Untracked,
         Connecting
<1>4. ASSUME NEW r \in Requests, NEW i \in Ids, DeleteLookup(r, i) PROVE Quiet'
  BY <1>4
     DEF DeleteLookup, Begin, IInv, TypeOK, RequestState, IdleRequest, Quiet, Untracked,
         Connecting
<1>5. ASSUME NEW r \in Requests, DeleteCheck(r) PROVE Quiet'
  BY <1>5 DEF DeleteCheck, IInv, TypeOK, RequestState, IdleRequest, Quiet, Untracked, Connecting
<1>6. ASSUME NEW r \in Requests, DeleteUnmap(r) PROVE Quiet'
  BY <1>6 DEF DeleteUnmap, IInv, TypeOK, RequestState, IdleRequest, Quiet, Untracked, Connecting
<1>7. ASSUME NEW r \in Requests, DeleteDrop(r) PROVE Quiet'
  BY <1>7
     DEF DeleteDrop, Disconnect, LetGo, Escapes, Other, Untracked, IInv, TypeOK,
         RequestState, IdleRequest, Quiet, Connecting
<1>8. ASSUME NEW r \in Requests, DeleteRow(r) PROVE Quiet'
  BY <1>8 DEF DeleteRow, IInv, TypeOK, RequestState, IdleRequest, Quiet, Untracked, Connecting
<1>9. ASSUME NEW r \in Requests, NEW i \in Ids, NEW p \in Phones, UpdateLookup(r, i, p) PROVE Quiet'
  BY <1>9
     DEF UpdateLookup, Begin, IInv, TypeOK, RequestState, IdleRequest, Quiet, Untracked,
         Connecting
<1>10. ASSUME NEW r \in Requests, UpdateTaken(r) PROVE Quiet'
  BY <1>10
     DEF UpdateTaken, IInv, TypeOK, RequestState, IdleRequest, Quiet, Untracked, Connecting
<1>11. ASSUME NEW r \in Requests, UpdateWrite(r) PROVE Quiet'
  BY <1>11
     DEF UpdateWrite, UpdatedRows, PhoneTaken, Other, IInv, TypeOK, RequestState,
         IdleRequest, Quiet, Untracked, Connecting
<1>12. ASSUME NEW r \in Requests, UpdateMemory(r) PROVE Quiet'
  BY <1>12
     DEF UpdateMemory, IInv, TypeOK, RequestState, IdleRequest, Quiet, Untracked, Connecting
<1>13. ASSUME NEW r \in Requests, NEW i \in Ids, ConnectLookup(r, i) PROVE Quiet'
  BY <1>13
     DEF ConnectLookup, Begin, IInv, TypeOK, RequestState, IdleRequest, Quiet, Untracked,
         Connecting
<1>14. ASSUME NEW r \in Requests, EnsureConnected(r) PROVE Quiet'
  BY <1>14
     DEF EnsureConnected, Connected, LetGo, IInv, TypeOK, RequestState, IdleRequest, Quiet,
         Untracked, Connecting
<1>15. ASSUME NEW r \in Requests, GetQR(r) PROVE Quiet'
  BY <1>15
     DEF GetQR, LetGo, IInv, TypeOK, RequestState, IdleRequest, Quiet, Untracked, Connecting
<1>16. ASSUME NEW i \in Ids, LogIn(i) PROVE Quiet'
  BY <1>16 DEF LogIn, IInv, TypeOK, RequestState, IdleRequest, Quiet, Untracked, Connecting
<1>17. ASSUME NEW i \in Ids, LoggedOut(i) PROVE Quiet'
  BY <1>17
     DEF LoggedOut, Disconnect, LetGo, IInv, TypeOK, RequestState, IdleRequest, Quiet,
         Untracked, Connecting
<1>18. ASSUME NEW i \in Ids, Dropped(i) PROVE Quiet'
  BY <1>18
     DEF Dropped, Connected, IInv, TypeOK, RequestState, IdleRequest, Quiet, Untracked,
         Connecting
<1>19. ASSUME NEW i \in Ids, NetReconnect(i) PROVE Quiet'
  BY <1>19
     DEF NetReconnect, IInv, TypeOK, RequestState, IdleRequest, Quiet, Untracked, Connecting
<1>20. ASSUME NEW i \in Ids, AutoReconnectWake(i) PROVE Quiet'
  BY <1>20
     DEF AutoReconnectWake, Unconnected, Rest, IInv, TypeOK, RequestState, IdleRequest,
         Quiet, Untracked, Connecting
<1>21. ASSUME NEW i \in Ids, AutoReconnectDial(i) PROVE Quiet'
  BY <1>21
     DEF AutoReconnectDial, Unconnected, Rest, IInv, TypeOK, RequestState, IdleRequest,
         Quiet, Untracked, Connecting
<1>22. ASSUME NEW i \in Ids, LooseDial(i) PROVE Quiet'
  BY <1>22
     DEF LooseDial, Rest, IInv, TypeOK, RequestState, IdleRequest, Quiet, Untracked,
         Connecting
<1>23. ASSUME NEW i \in Ids, StrayDropped(i) PROVE Quiet'
  BY <1>23
     DEF StrayDropped, Rest, IInv, TypeOK, RequestState, IdleRequest, Quiet, Untracked,
         Connecting
<1>24. ASSUME Stop PROVE Quiet'
  BY <1>24 DEF Stop, IInv, TypeOK, RequestState, IdleRequest, Quiet, Untracked, Connecting
<1>25. ASSUME NEW i \in Ids, ShutdownNext(i) PROVE Quiet'
  BY <1>25
     DEF ShutdownNext, Disconnect, LetGo, IInv, TypeOK, RequestState, IdleRequest, Quiet,
         Untracked, Connecting
<1>26. ASSUME CloseServer PROVE Quiet'
  BY <1>26
     DEF CloseServer, IInv, TypeOK, RequestState, IdleRequest, Quiet, Untracked, Connecting
<1>27. ASSUME Goodbye PROVE Quiet'
  BY <1>27 DEF Goodbye, IInv, TypeOK, RequestState, IdleRequest, Quiet, Untracked, Connecting
<1>28. ASSUME Restart PROVE Quiet'
  BY <1>28
     DEF Restart, Stored, Discovered, IInv, TypeOK, RequestState, IdleRequest, Quiet,
         Untracked, Connecting
<1>29. CASE UNCHANGED vars
  BY <1>29 DEF vars, IInv, TypeOK, RequestState, IdleRequest, Quiet, Untracked, Connecting
<1> QED
  BY <1>1, <1>2, <1>3, <1>4, <1>5, <1>6, <1>7, <1>8, <1>9, <1>10, <1>11, <1>12, <1>13, <1>14, <1>15, <1>16, <1>17, <1>18, <1>19, <1>20, <1>21, <1>22, <1>23, <1>24, <1>25, <1>26, <1>27, <1>28, <1>29
  DEF Next, Create, Delete, Update, Connect, Connection, Shutdown

LEMMA IInvStep == IInv /\ [Next]_vars => IInv'
  BY TypeStep, PublishAloneStep, RemovedStep, LoadedHasRowStep, UnloadedRowStep, TornOKStep, PhoneSettledStep, ConnectingStep, QuietStep
     DEF IInv

LEMMA IInvAlways == Spec => []IInv
  BY IInvInit, IInvStep, PTL DEF Spec

\* Every variable keeps its type, and a request knows at each step what it needs.
THEOREM TypeCorrect == Spec => []TypeOK
  BY IInvAlways, PTL DEF IInv

\* An account in memory always has its row (CreateAccount, DeleteAccount, DiscoverAccounts).
THEOREM LoadedRows == Spec => []LoadedHasRow
  BY IInvAlways, PTL DEF IInv

\* A row without an account is a call under way or a failed statement.
THEOREM UnloadedRows == Spec => []UnloadedRow
  BY IInvAlways, PTL DEF IInv

\* UpdatePhoneNumber leaves memory and row equal unless two calls crossed or an answer was lost.
THEOREM PhonesSettle == Spec => []PhoneSettled
  BY IInvAlways, PTL DEF IInv

\* DeleteAccount leaves no connection behind, whatever breaks and is dialled again,
\* unless a request was about to connect, autoReconnect had copied the client, or an
\* earlier client of the account was loose when it disconnected.
THEOREM RemovedAreDown == Spec => []RemovedIsDown
<1>1. IInv => RemovedIsDown
  BY DEF IInv, Quiet, RemovedIsDown, Untracked
<1> QED
  BY <1>1, IInvAlways, PTL
==============================================================================
