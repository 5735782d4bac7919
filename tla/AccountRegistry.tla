--------------------------- MODULE AccountRegistry ---------------------------
(***************************************************************************)
(* The registry of accounts: the map in memory, the account table, and the *)
(* requests and the shutdown that change them (service/manager.go,         *)
(* handler/accounts.go, cmd/notalk/main.go).                               *)
(*                                                                         *)
(* A request is a sequence of sections under m.mu or a.mu and of single    *)
(* SQL statements, and requests interleave between any two of them.  There *)
(* is no transaction.  A statement may fail before or after its effect.    *)
(* A request that is refused at once changes nothing and is not a step.    *)
(*                                                                         *)
(* Connections break, and autoReconnect (service/account.go) dials a copy  *)
(* of a.client that the account may have let go of in the meantime.  Any   *)
(* number of its goroutines may run: four sets say for which accounts      *)
(* there is one, so what is taken from such a set may stay in it.          *)
(***************************************************************************)
EXTENDS Naturals, FiniteSets

CONSTANTS Ids,          \* account ids (reused once nothing refers to them)
          Phones,       \* valid, normalised phone numbers
          Requests,     \* slots for requests in flight
          LostAnswers,  \* may a statement take effect and its answer be lost?
          None          \* no row, no id, no number

ASSUME LostAnswersAssumption == LostAnswers \in BOOLEAN
ASSUME NoneAssumption == None \notin Ids \cup Phones

VARIABLES
    rows,       \* the account table: id to phone_number (UNIQUE), or None
    accounts,   \* the keys of m.accounts
    phone,      \* a.PhoneNumber of the account object
    session,    \* its client: "down" (nil), "closed" (not connected), "lost" (its
                \* connection broke), "open" or "online" (logged in)
    asleep,     \* accounts with an autoReconnect goroutine that will look at a.client
    dialling,   \* with one that has copied the client the account holds
    loose,      \* with a client let go of that may still be dialled
    stray,      \* with a connected client they have let go of
    req,        \* requests: what comes next, for which account, with which number
    main,       \* where main is in its shutdown
    todo,       \* ShutdownAll: ids still to be disconnected
    torn,       \* ghost: accounts whose number was written by two calls at once,
                \* or by a statement whose answer was lost
    stranded,   \* ghost: rows left behind by a failed statement
    held        \* ghost: accounts removed while a request was connecting them, or
                \* after a goroutine had copied their client or they had lost one

retryVars == <<asleep, dialling, loose, stray>>
dataVars  == <<rows, accounts, phone, session, retryVars>>
mainVars  == <<main, todo>>
ghostVars == <<torn, stranded, held>>
vars == <<dataVars, req, mainVars, ghostVars>>

IdleRequest == [pc |-> "idle", id |-> None, to |-> None]

\* What a request knows at each step: the account, the number it sets.
RequestState ==
    [pc : {"idle"}, id : {None}, to : {None}]
    \cup [pc : {"insert"}, id : {None}, to : Phones]
    \cup [pc : {"publish", "taken", "write", "memory"}, id : Ids, to : Phones]
    \cup [pc : {"check", "unmap", "drop", "delete", "connect"}, id : Ids, to : {None}]

TypeOK ==
    /\ rows \in [Ids -> Phones \cup {None}]
    /\ accounts \in SUBSET Ids
    /\ phone \in [Ids -> Phones \cup {None}]
    /\ \A i \in accounts : phone[i] # None
    /\ session \in [Ids -> {"down", "closed", "lost", "open", "online"}]
    /\ asleep \in SUBSET Ids
    /\ dialling \in SUBSET Ids
    /\ loose \in SUBSET Ids
    /\ stray \in SUBSET Ids
    /\ req \in [Requests -> RequestState]
    /\ main \in {"serving", "stopping", "closing", "stopped"}
    /\ todo \in SUBSET Ids
    /\ torn \in SUBSET Ids
    /\ stranded \in SUBSET Ids
    /\ held \in SUBSET Ids

Init ==
    /\ rows = [i \in Ids |-> None]
    /\ accounts = {}
    /\ phone = [i \in Ids |-> None]
    /\ session = [i \in Ids |-> "down"]
    /\ asleep = {} /\ dialling = {} /\ loose = {} /\ stray = {}
    /\ req = [r \in Requests |-> IdleRequest]
    /\ main = "serving"
    /\ todo = {}
    /\ torn = {} /\ stranded = {} /\ held = {}

-----------------------------------------------------------------------------
At(r, pc) == req[r].pc = pc
Goto(r, pc, i, p) == req' = [req EXCEPT ![r] = [pc |-> pc, id |-> i, to |-> p]]
Finish(r) == req' = [req EXCEPT ![r] = IdleRequest]

\* The HTTP server still takes requests.
Begin(r) == At(r, "idle") /\ main \in {"serving", "stopping"}

\* Another request than r is at pc with account i.
Other(r, pc, i) == \E q \in Requests \ {r} : At(q, pc) /\ req[q].id = i

Connected(i) == session[i] \in {"open", "online"}

\* The account holds a client that is not connected.
Unconnected(i) == session[i] \in {"closed", "lost"}

\* Clients the account does not hold that are connected or going to be.
Untracked == loose \cup stray

\* A UUID nothing refers to.
NewUUID(i) ==
    /\ rows[i] = None
    /\ i \notin accounts
    /\ session[i] = "down"
    /\ i \notin asleep \cup dialling \cup Untracked
    /\ \A r \in Requests : req[r].id # i

\* The account lets go of the client it holds; a goroutine that has copied it goes
\* on and dials it.
LetGo(i) ==
    /\ dialling' = dialling \ {i}
    /\ loose' = IF i \in dialling THEN loose \cup {i} ELSE loose

\* acct.Disconnect(): the client is closed and a.client is nil.
Disconnect(i) ==
    /\ session' = [session EXCEPT ![i] = "down"]
    /\ LetGo(i)
    /\ UNCHANGED <<asleep, stray>>

\* GetAccountByPhone finds a row of an account other than i.
PhoneTaken(i, p) == \E j \in Ids \ {i} : rows[j] = p

\* CreateAccount: the uniqueness check.
CreateLookup(r, p) ==
    /\ Begin(r)
    /\ ~PhoneTaken(None, p)
    /\ Goto(r, "insert", None, p)
    /\ UNCHANGED <<dataVars, mainVars, ghostVars>>

\* CreateAccount: INSERT.  The constraint or the database may refuse it; when the
\* answer is lost the row stays.
CreateInsert(r) ==
    /\ At(r, "insert")
    /\ \/ \E i \in Ids :
            /\ NewUUID(i)
            /\ ~PhoneTaken(i, req[r].to)
            /\ rows' = [rows EXCEPT ![i] = req[r].to]
            /\ torn' = torn \ {i}
            /\ held' = held \ {i}
            /\ \/ Goto(r, "publish", i, req[r].to) /\ stranded' = stranded \ {i}
               \/ LostAnswers /\ Finish(r) /\ stranded' = stranded \cup {i}
       \/ Finish(r) /\ UNCHANGED <<rows, ghostVars>>
    /\ UNCHANGED <<accounts, phone, session, retryVars, mainVars>>

\* (mutant: the account object is not put into the map)
CreatePublish_Lost(r) ==
    /\ At(r, "publish")
    /\ Finish(r)
    /\ UNCHANGED <<dataVars, mainVars, ghostVars>>

\* CreateAccount: the new account object enters the map.
CreatePublish(r) ==
    /\ At(r, "publish")
    /\ accounts' = accounts \cup {req[r].id}
    /\ phone' = [phone EXCEPT ![req[r].id] = req[r].to]
    /\ Finish(r)
    /\ UNCHANGED <<rows, session, retryVars, mainVars, ghostVars>>

\* DeleteAccount finds the account.
DeleteLookup(r, i) ==
    /\ Begin(r)
    /\ i \in accounts
    /\ Goto(r, "check", i, None)
    /\ UNCHANGED <<dataVars, mainVars, ghostVars>>

\* DeleteAccount refuses an account that IsAuthorized.
DeleteCheck(r) ==
    /\ At(r, "check")
    /\ IF session[req[r].id] = "online"
       THEN Finish(r)
       ELSE Goto(r, "unmap", req[r].id, None)
    /\ UNCHANGED <<dataVars, mainVars, ghostVars>>

\* (mutant: a removed account stays in the map)
DeleteUnmap_Kept(r) ==
    /\ At(r, "unmap")
    /\ Goto(r, "drop", req[r].id, None)
    /\ UNCHANGED <<dataVars, mainVars, ghostVars>>

\* DeleteAccount: delete(m.accounts, id).
DeleteUnmap(r) ==
    /\ At(r, "unmap")
    /\ accounts' = accounts \ {req[r].id}
    /\ Goto(r, "drop", req[r].id, None)
    /\ UNCHANGED <<rows, phone, session, retryVars, mainVars, ghostVars>>

\* (mutant: a removed account is not disconnected)
DeleteDrop_Open(r) ==
    /\ At(r, "drop")
    /\ Goto(r, "delete", req[r].id, None)
    /\ UNCHANGED <<dataVars, mainVars, ghostVars>>

\* What the Disconnect of request r does not reach: another request is about to
\* connect the account, a goroutine has copied its client, or it had let go of a
\* client before that is connected or going to be.
Escapes(r, i) == Other(r, "connect", i) \/ i \in dialling \cup Untracked

\* DeleteAccount: acct.Disconnect().
DeleteDrop(r) ==
    /\ At(r, "drop")
    /\ Disconnect(req[r].id)
    /\ held' = IF Escapes(r, req[r].id) THEN held \cup {req[r].id} ELSE held
    /\ Goto(r, "delete", req[r].id, None)
    /\ UNCHANGED <<rows, accounts, phone, mainVars, torn, stranded>>

\* DeleteAccount: DELETE, the last step, which may fail.
DeleteRow(r) ==
    /\ At(r, "delete")
    /\ \/ rows' = [rows EXCEPT ![req[r].id] = None] /\ UNCHANGED stranded
       \/ stranded' = stranded \cup {req[r].id} /\ UNCHANGED rows
    /\ Finish(r)
    /\ UNCHANGED <<accounts, phone, session, retryVars, mainVars, torn, held>>

\* UpdatePhoneNumber finds the account.
UpdateLookup(r, i, p) ==
    /\ Begin(r)
    /\ i \in accounts
    /\ Goto(r, "taken", i, p)
    /\ UNCHANGED <<dataVars, mainVars, ghostVars>>

\* UpdatePhoneNumber: the number of another account is refused, and so is
\* everything when the lookup fails.
UpdateTaken(r) ==
    /\ At(r, "taken")
    /\ \/ ~PhoneTaken(req[r].id, req[r].to) /\ Goto(r, "write", req[r].id, req[r].to)
       \/ Finish(r)
    /\ UNCHANGED <<dataVars, mainVars, ghostVars>>

\* What UPDATE account does to the row, if it is still there.
UpdatedRows(i, p) == [rows EXCEPT ![i] = IF @ = None THEN None ELSE p]

\* UpdatePhoneNumber: UPDATE.  It is refused by the constraint or fails, or its
\* answer is lost after the row was written.
UpdateWrite(r) ==
    /\ At(r, "write")
    /\ \/ /\ ~PhoneTaken(req[r].id, req[r].to)
          /\ rows' = UpdatedRows(req[r].id, req[r].to)
          /\ \/ /\ Goto(r, "memory", req[r].id, req[r].to)
                /\ torn' = IF Other(r, "memory", req[r].id)
                           THEN torn \cup {req[r].id} ELSE torn \ {req[r].id}
             \/ LostAnswers /\ Finish(r) /\ torn' = torn \cup {req[r].id}
       \/ Finish(r) /\ UNCHANGED <<rows, torn>>
    /\ UNCHANGED <<accounts, phone, session, retryVars, mainVars, stranded, held>>

\* (mutant: the number in memory is left alone)
UpdateMemory_Stale(r) ==
    /\ At(r, "memory")
    /\ Finish(r)
    /\ UNCHANGED <<dataVars, mainVars, ghostVars>>

\* UpdatePhoneNumber: a.PhoneNumber, in an object that may have left the map.
UpdateMemory(r) ==
    /\ At(r, "memory")
    /\ phone' = [phone EXCEPT ![req[r].id] = req[r].to]
    /\ Finish(r)
    /\ UNCHANGED <<rows, accounts, session, retryVars, mainVars, ghostVars>>

\* requireAccount hands the account object to a request that will connect it.
ConnectLookup(r, i) ==
    /\ Begin(r)
    /\ i \in accounts
    /\ Goto(r, "connect", i, None)
    /\ UNCHANGED <<dataVars, mainVars, ghostVars>>

\* EnsureConnected, Connect: a new client takes the place of one that is not
\* connected.  That one is not closed: if its connection broke, the library may
\* still bring it back.  Preparing the new one or dialling it may fail.
EnsureConnected(r) ==
    LET i == req[r].id IN
    /\ At(r, "connect")
    /\ Finish(r)
    /\ \/ /\ ~Connected(i)
          /\ \E s \in {"closed", "open"} : session' = [session EXCEPT ![i] = s]
          /\ \/ LetGo(i)
             \/ /\ session[i] = "lost"
                /\ dialling' = dialling \ {i}
                /\ loose' = loose \cup {i}
       \/ UNCHANGED <<session, dialling, loose>>
    /\ UNCHANGED <<rows, accounts, phone, asleep, stray, mainVars, ghostVars>>

\* GetQR closes the client, whatever its state, and makes a new one.
GetQR(r) ==
    LET i == req[r].id IN
    /\ At(r, "connect")
    /\ Finish(r)
    /\ \E s \in {"down", "closed", "open"} : session' = [session EXCEPT ![i] = s]
    /\ LetGo(i)
    /\ UNCHANGED <<rows, accounts, phone, asleep, stray, mainVars, ghostVars>>

-----------------------------------------------------------------------------
\* A connected client logs in, by pairing or with its credentials.
LogIn(i) ==
    /\ session[i] = "open"
    /\ session' = [session EXCEPT ![i] = "online"]
    /\ UNCHANGED <<rows, accounts, phone, retryVars, req, mainVars, ghostVars>>

\* The LoggedOut event, of any client the account has had, and Logout,
\* rejectMismatch and SetProxy, close the client the account holds.
LoggedOut(i) ==
    /\ session[i] # "down"
    /\ Disconnect(i)
    /\ UNCHANGED <<rows, accounts, phone, req, mainVars, ghostVars>>

-----------------------------------------------------------------------------
(* Connections break and come back.                                        *)

\* The set without i, or with it because of another goroutine.
Rest(S, i) == {S \ {i}, S}

\* The connection breaks; Disconnected starts a goroutine unless a rejection
\* forbids it.
Dropped(i) ==
    /\ Connected(i)
    /\ session' = [session EXCEPT ![i] = "lost"]
    /\ asleep' \in {asleep, asleep \cup {i}}
    /\ UNCHANGED <<rows, accounts, phone, dialling, loose, stray, req, mainVars, ghostVars>>

\* The library reconnects it by itself.
NetReconnect(i) ==
    /\ session[i] = "lost"
    /\ session' = [session EXCEPT ![i] = "open"]
    /\ UNCHANGED <<rows, accounts, phone, retryVars, req, mainVars, ghostVars>>

\* autoReconnect wakes up and copies a.client; nil or a connected client ends it.
AutoReconnectWake(i) ==
    /\ i \in asleep
    /\ asleep' \in Rest(asleep, i)
    /\ dialling' = IF Unconnected(i) THEN dialling \cup {i} ELSE dialling
    /\ UNCHANGED <<rows, accounts, phone, session, loose, stray, req, mainVars, ghostVars>>

\* It dials the copy, which the account still holds; after an error it sleeps again
\* or gives up.
AutoReconnectDial(i) ==
    /\ i \in dialling
    /\ dialling' \in Rest(dialling, i)
    /\ \/ /\ Unconnected(i)
          /\ session' = [session EXCEPT ![i] = "open"]
          /\ UNCHANGED asleep
       \/ asleep' \in {asleep, asleep \cup {i}} /\ UNCHANGED session
    /\ UNCHANGED <<rows, accounts, phone, loose, stray, req, mainVars, ghostVars>>

\* The same when the account has let go of the copy, or the library does.
LooseDial(i) ==
    /\ i \in loose
    /\ loose' \in Rest(loose, i)
    /\ \/ stray' = stray \cup {i} /\ UNCHANGED asleep
       \/ asleep' \in {asleep, asleep \cup {i}} /\ UNCHANGED stray
    /\ UNCHANGED <<rows, accounts, phone, session, dialling, req, mainVars, ghostVars>>

\* Such a connection breaks in turn: the library reconnects it, and its event starts
\* a goroutine of the account.
StrayDropped(i) ==
    /\ i \in stray
    /\ stray' \in Rest(stray, i)
    /\ loose' \in {loose, loose \cup {i}}
    /\ asleep' \in {asleep, asleep \cup {i}}
    /\ UNCHANGED <<rows, accounts, phone, session, dialling, req, mainVars, ghostVars>>

-----------------------------------------------------------------------------
\* SIGTERM: ShutdownAll takes a snapshot of the ids.
Stop ==
    /\ main = "serving"
    /\ main' = "stopping"
    /\ todo' = accounts
    /\ UNCHANGED <<dataVars, req, ghostVars>>

\* ShutdownAll disconnects one account, if it is still in the map.
ShutdownNext(i) ==
    /\ main = "stopping"
    /\ i \in todo
    /\ todo' = todo \ {i}
    /\ IF i \in accounts THEN Disconnect(i) ELSE UNCHANGED <<session, retryVars>>
    /\ UNCHANGED <<rows, accounts, phone, req, main, ghostVars>>

\* srv.Shutdown stops listening.
CloseServer ==
    /\ main = "stopping"
    /\ todo = {}
    /\ main' = "closing"
    /\ UNCHANGED <<dataVars, req, todo, ghostVars>>

\* main returns once the requests in flight have ended, or after 15 s; those that
\* still run then die with the process, in Restart.
Goodbye ==
    /\ main = "closing"
    /\ main' = "stopped"
    /\ UNCHANGED <<dataVars, req, todo, ghostVars>>

Stored == {i \in Ids : rows[i] # None}

\* (mutant: stored accounts are read without their number)
Discovered_Blank == [i \in Ids |-> None]

\* The number of each account as DiscoverAccounts reads it.
Discovered == rows

\* The process ends, at any moment, and starts again.  DiscoverAccounts loads the
\* table and connects what has a stored session before the server listens; when
\* the table cannot be read, main goes on with no account.
Restart ==
    /\ \/ accounts' = Stored /\ stranded' = {}
       \/ accounts' = {} /\ stranded' = Stored
    /\ phone' = Discovered
    /\ session' \in [Ids -> {"down", "closed", "open"}]
    /\ \A i \in Ids : session'[i] # "down" => i \in accounts'
    /\ asleep' = {} /\ dialling' = {} /\ loose' = {} /\ stray' = {}
    /\ req' = [r \in Requests |-> IdleRequest]
    /\ main' = "serving"
    /\ todo' = {}
    /\ torn' = {} /\ held' = {}
    /\ UNCHANGED rows

-----------------------------------------------------------------------------
Create(r) == (\E p \in Phones : CreateLookup(r, p)) \/ CreateInsert(r) \/ CreatePublish(r)

Delete(r) ==
    \/ \E i \in Ids : DeleteLookup(r, i)
    \/ DeleteCheck(r) \/ DeleteUnmap(r) \/ DeleteDrop(r) \/ DeleteRow(r)

Update(r) ==
    \/ \E i \in Ids, p \in Phones : UpdateLookup(r, i, p)
    \/ UpdateTaken(r) \/ UpdateWrite(r) \/ UpdateMemory(r)

Connect(r) == (\E i \in Ids : ConnectLookup(r, i)) \/ EnsureConnected(r) \/ GetQR(r)

Connection(i) ==
    \/ LogIn(i) \/ LoggedOut(i) \/ Dropped(i) \/ NetReconnect(i)
    \/ AutoReconnectWake(i) \/ AutoReconnectDial(i) \/ LooseDial(i) \/ StrayDropped(i)

Shutdown == Stop \/ (\E i \in Ids : ShutdownNext(i)) \/ CloseServer \/ Goodbye

Next ==
    \/ \E r \in Requests : Create(r) \/ Delete(r) \/ Update(r) \/ Connect(r)
    \/ \E i \in Ids : Connection(i)
    \/ Shutdown
    \/ Restart

Spec == Init /\ [][Next]_vars

-----------------------------------------------------------------------------
(* Properties.                                                             *)

\* Every account in memory has its row: messages, webhooks and proxies that refer
\* to it by foreign key can be stored.
LoadedHasRow == \A i \in accounts : rows[i] # None

\* A row without an account in memory (its number is refused to everybody and no
\* request can reach it) belongs to a creation or deletion that is still running,
\* or was left behind by a statement that failed.
UnloadedRow ==
    \A i \in Ids \ accounts :
        rows[i] # None =>
            \/ i \in stranded
            \/ \E r \in Requests : req[r].id = i /\ req[r].pc \in {"publish", "drop", "delete"}

\* The number in memory, which incoming sessions are checked against, is the one
\* in the row, except between the two writes of an UpdatePhoneNumber and after
\* two of them crossed or one lost its answer; the next undisturbed one repairs it.
PhoneSettled ==
    \A i \in accounts \ torn :
        phone[i] = rows[i] \/ \E r \in Requests : At(r, "memory") /\ req[r].id = i

\* An account that has left the map has no connection, of the client it holds or of
\* one it has let go of, unless its Disconnect came too early: a request was about
\* to connect it, an autoReconnect goroutine had copied its client, or a client it
\* had let go of before was connected or going to be.  A goroutine that only sleeps
\* finds no client and does no harm.
RemovedIsDown ==
    \A i \in Ids \ (accounts \cup held) :
        \/ session[i] = "down" /\ i \notin stray
        \/ \E r \in Requests : At(r, "drop") /\ req[r].id = i
=============================================================================
