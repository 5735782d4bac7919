--------------------------- MODULE AccountSession ---------------------------
(***************************************************************************)
(* The life of the WhatsApp clients behind the accounts of one server      *)
(* process: service/account.go, with the request path of handler/health.go *)
(* that drives it.                                                         *)
(*                                                                         *)
(* An account holds at most one whatsmeow client under its mutex.  Four    *)
(* kinds of actors touch it: REST and MCP requests, event callbacks of the *)
(* whatsmeow library, and the autoReconnect and rejectMismatch goroutines  *)
(* those callbacks start.  All accounts open the same session store, so    *)
(* `devices' (the rows of whatsmeow_device) is shared by every account.    *)
(*                                                                         *)
(* whatsmeow and the WhatsApp servers are external.  A number stands for   *)
(* its companion device, and an event carries the account whose callback   *)
(* gets it: handleEvent never looks at the client that emitted it.         *)
(***************************************************************************)
EXTENDS Naturals, FiniteSets

CONSTANTS Accounts,     \* the accounts in the registry
          Phones,       \* phone numbers
          Clients,      \* identities of whatsmeow.Client objects (reused once dead)
          Workers,      \* slots for running autoReconnect goroutines
          Retries,      \* len(delays) in autoReconnect, 5 in the code
          MaxRejects,   \* bound: rejectMismatch goroutines waiting per account
          Budget,       \* bound: how often each of Upsets happens
          None          \* nil client, nil Store.ID

Upsets == {"pair", "drop", "unlink", "crash", "rename"}

ASSUME BudgetAssumption == Budget \in [Upsets -> Nat]
ASSUME RetriesAssumption == Retries \in Nat \ {0}
ASSUME MaxRejectsAssumption == MaxRejects \in Nat \ {0}
ASSUME NoneAssumption == None \notin Clients \cup Phones \cup Accounts

VARIABLES
    client,     \* a.client
    rejected,   \* a.rejected
    phone,      \* a.PhoneNumber
    mu,         \* a.mu while a writer keeps it across a network call
    owner,      \* the account whose prepareClient made the client object
    dev,        \* client.Store.ID
    conn,       \* the client's socket; "code": open, with a pairing code shown
    devices,    \* rows of the shared whatsmeow_device table
    linked,     \* companions the WhatsApp servers still accept
    events,     \* whatsmeow callbacks started and not yet run
    rejects,    \* rejectMismatch goroutines waiting for a.mu
    worker,     \* autoReconnect goroutines
    call,       \* the request in flight on each account
    renamed,    \* ghost: a.PhoneNumber changed since the session logged in
    abandoned,  \* ghost: autoReconnect gave up, or was refused, since the last drop
    left        \* bound: how often the environment may still act up

accountVars == <<client, rejected, phone, mu>>
clientVars  == <<owner, dev, conn>>
storeVars   == <<devices, linked>>
asyncVars   == <<events, rejects, worker, call>>
ghostVars   == <<renamed, abandoned, left>>
vars == <<accountVars, clientVars, storeVars, asyncVars, ghostVars>>

EventKinds == {"PairSuccess", "Connected", "LoggedOut", "Disconnected"}
Event == EventKinds \X Accounts \X (Phones \cup {None})

IdleWorker == [pc |-> "idle", acct |-> None, try |-> 0, cl |-> None]
IdleCall    == [pc |-> "idle", cl |-> None]
ConnectCall == [pc |-> "connect", cl |-> None]
ReadyCall   == [pc |-> "ready", cl |-> None]
UseClient(c) == [pc |-> "using", cl |-> c]

WorkerState == [pc : {"idle", "sleep", "dial"}, acct : Accounts \cup {None},
                try : 0 .. Retries - 1, cl : Clients \cup {None}]
CallState == [pc : {"idle", "connect", "ready", "using"}, cl : Clients \cup {None}]

TypeOK ==
    /\ client \in [Accounts -> Clients \cup {None}]
    /\ rejected \in [Accounts -> BOOLEAN]
    /\ phone \in [Accounts -> Phones]
    /\ mu \in [Accounts -> {"free", "connect", "qr"}]
    /\ owner \in [Clients -> Accounts \cup {None}]
    /\ dev \in [Clients -> Phones \cup {None}]
    /\ conn \in [Clients -> {"closed", "open", "code", "online", "lost"}]
    /\ devices \in SUBSET Phones
    /\ linked \in SUBSET Phones
    /\ events \in SUBSET Event
    /\ rejects \in [Accounts -> 0 .. MaxRejects]
    /\ worker \in [Workers -> WorkerState]
    /\ call \in [Accounts -> CallState]
    /\ renamed \in [Accounts -> BOOLEAN]
    /\ abandoned \in [Accounts -> BOOLEAN]
    /\ left \in [Upsets -> Nat]

\* A server process that starts on an empty session store.
Init ==
    /\ client = [a \in Accounts |-> None]
    /\ rejected = [a \in Accounts |-> FALSE]
    /\ phone \in {f \in [Accounts -> Phones] :
                    \A a, b \in Accounts : f[a] = f[b] => a = b}
    /\ mu = [a \in Accounts |-> "free"]
    /\ owner = [c \in Clients |-> None]
    /\ dev = [c \in Clients |-> None]
    /\ conn = [c \in Clients |-> "closed"]
    /\ devices = {}
    /\ linked = {}
    /\ events = {}
    /\ rejects = [a \in Accounts |-> 0]
    /\ worker = [w \in Workers |-> IdleWorker]
    /\ call = [a \in Accounts |-> IdleCall]
    /\ renamed = [a \in Accounts |-> FALSE]
    /\ abandoned = [a \in Accounts |-> FALSE]
    /\ left = Budget

Spend(upset) ==
    /\ left[upset] > 0
    /\ left' = [left EXCEPT ![upset] = @ - 1]

-----------------------------------------------------------------------------
(* What the handlers read.                                                 *)

IsConnected(c) == conn[c] \in {"open", "code", "online"}
Connected(a) == client[a] # None /\ IsConnected(client[a])
LoggedIn(a) == client[a] # None /\ conn[client[a]] = "online"

\* (mutant: Connect and GetQR do not keep the lock across the network call)
LockFree_Unlocked(a) == TRUE

\* a.mu can be taken: no Connect or GetQR keeps it across its network call.
LockFree(a) == mu[a] = "free"

\* A client object nothing refers to: a new one may take its identity.
Fresh(c) ==
    /\ \A a \in Accounts : client[a] # c /\ call[a].cl # c
    /\ \A w \in Workers : worker[w].cl # c
    /\ conn[c] = "closed"

\* container.GetFirstDevice: any row of the shared table, whichever account
\* paired it, or a new device without an ID when the table is empty.
FirstDevice == IF devices = {} THEN {None} ELSE devices

HasStoredCredentials(a) ==
    IF client[a] # None THEN dev[client[a]] # None ELSE devices # {}

\* Suffix matching of phoneMatches is abstracted to equality.
phoneMatches(authed, registered) == authed = registered

\* (mutant: the client is forgotten without being disconnected)
ClosedIfAny_Leak(c) == conn

\* c.Disconnect() when c is not nil.
ClosedIfAny(c) == IF c = None THEN conn ELSE [conn EXCEPT ![c] = "closed"]

\* (mutant: a disconnected client stays in a.client)
ForgetClient_Missing(a) == UNCHANGED client

\* a.client = nil.
ForgetClient(a) == client' = [client EXCEPT ![a] = None]

\* Clients other than c logged in as companion p: what the servers cut off
\* when p is unlinked.
Kicked(p, c) == {x \in Clients \ {c} : conn[x] = "online" /\ dev[x] = p}

\* The servers drop companion p: its clients are closed, the library deletes
\* their rows and calls back with LoggedOut.
ServerUnlink(p, c) ==
    /\ linked' = linked \ {p}
    /\ dev' = [x \in Clients |-> IF x \in Kicked(p, c) \cup {c} THEN None ELSE dev[x]]
    /\ conn' = [x \in Clients |-> IF x \in Kicked(p, c) \cup {c} THEN "closed" ELSE conn[x]]
    /\ events' = events \cup {<<"LoggedOut", owner[x], None>> : x \in Kicked(p, c)}

\* (mutant: a client is kept per stored device and handed out again)
prepareClient_Pooled(a, c, d) ==
    /\ d \in FirstDevice
    /\ Fresh(c) \/ (owner[c] # None /\ dev[c] = d /\ ~IsConnected(c))
    /\ client' = [client EXCEPT ![a] = c]
    /\ owner' = IF Fresh(c) THEN [owner EXCEPT ![c] = a] ELSE owner
    /\ dev' = [dev EXCEPT ![c] = d]

\* prepareClient makes client object c around the stored device d.
prepareClient(a, c, d) ==
    /\ Fresh(c)
    /\ d \in FirstDevice
    /\ client' = [client EXCEPT ![a] = c]
    /\ owner' = [owner EXCEPT ![c] = a]
    /\ dev' = [dev EXCEPT ![c] = d]

-----------------------------------------------------------------------------
(* Requests.                                                               *)

\* requireConnectedAccount, which refuses an account that is not linked, with the
\* read-locked check of EnsureConnected: its answer is used after the unlock.
requireConnectedAccount(a) ==
    /\ call[a].pc = "idle"
    /\ LockFree(a)
    /\ HasStoredCredentials(a)
    /\ call' = [call EXCEPT ![a] = IF Connected(a) THEN ReadyCall ELSE ConnectCall]
    /\ UNCHANGED <<accountVars, clientVars, storeVars, events, rejects, worker, ghostVars>>

\* requireConnectedClient hands out whatever connected client the account has by
\* now; the operation uses it after the read lock is released.
requireConnectedClient(a) ==
    /\ call[a].pc = "ready"
    /\ LockFree(a)
    /\ call' = [call EXCEPT ![a] = IF Connected(a) THEN UseClient(client[a]) ELSE IdleCall]
    /\ UNCHANGED <<accountVars, clientVars, storeVars, events, rejects, worker, ghostVars>>

\* Connect up to its network call.  A client that is not connected is replaced
\* without being disconnected.
Connect(a) ==
    /\ call[a].pc = "connect"
    /\ LockFree(a)
    /\ rejected' = [rejected EXCEPT ![a] = FALSE]
    /\ \/ /\ Connected(a)
          /\ call' = [call EXCEPT ![a] = ReadyCall]
          /\ UNCHANGED <<client, mu, owner, dev>>
       \/ /\ ~Connected(a)
          /\ \E c \in Clients, d \in FirstDevice : prepareClient(a, c, d)
          /\ mu' = [mu EXCEPT ![a] = "connect"]
          /\ UNCHANGED call
       \/ /\ ~Connected(a)                      \* the session store cannot be read
          /\ call' = [call EXCEPT ![a] = IdleCall]
          /\ UNCHANGED <<client, mu, owner, dev>>
    /\ UNCHANGED <<phone, conn, storeVars, events, rejects, worker, ghostVars>>

\* (mutant: a failed connection is tried again without limit)
ConnectDial_Forever(a) ==
    /\ mu[a] = "connect"
    /\ mu' = [mu EXCEPT ![a] = "free"]
    /\ \/ /\ conn' = [conn EXCEPT ![client[a]] = "open"]
          /\ call' = [call EXCEPT ![a] = ReadyCall]
       \/ /\ call' = [call EXCEPT ![a] = ConnectCall]
          /\ UNCHANGED conn
    /\ UNCHANGED <<client, rejected, phone, owner, dev, storeVars,
                   events, rejects, worker, ghostVars>>

\* a.client.Connect() at the end of Connect, still under a.mu.
ConnectDial(a) ==
    /\ mu[a] = "connect"
    /\ mu' = [mu EXCEPT ![a] = "free"]
    /\ \/ /\ conn' = [conn EXCEPT ![client[a]] = "open"]
          /\ call' = [call EXCEPT ![a] = ReadyCall]
       \/ /\ call' = [call EXCEPT ![a] = IdleCall]
          /\ UNCHANGED conn
    /\ UNCHANGED <<client, rejected, phone, owner, dev, storeVars,
                   events, rejects, worker, ghostVars>>

\* The operation on the client it was handed: it goes out if that client is
\* logged in, and fails otherwise.
SendMessage(a) ==
    /\ call[a].pc = "using"
    /\ call' = [call EXCEPT ![a] = IdleCall]
    /\ UNCHANGED <<accountVars, clientVars, storeVars, events, rejects, worker, ghostVars>>

\* Disconnect, as called by SetProxy, DeleteProxy, DeleteAccount, ShutdownAll.
Disconnect(a) ==
    /\ LockFree(a)
    /\ client[a] # None
    /\ conn' = ClosedIfAny(client[a])
    /\ ForgetClient(a)
    /\ UNCHANGED <<rejected, phone, mu, owner, dev, storeVars, asyncVars, ghostVars>>

\* GetQR up to its network call.  It does not reset a.rejected, and when the
\* store holds a device it fails with the new client left in place.
GetQR(a) ==
    /\ LockFree(a)
    /\ conn' = ClosedIfAny(client[a])
    /\ \/ /\ \E c \in Clients, d \in FirstDevice :
               /\ prepareClient(a, c, d)
               /\ mu' = [mu EXCEPT ![a] = IF d = None THEN "qr" ELSE "free"]
       \/ /\ client' = [client EXCEPT ![a] = None]   \* the session store cannot be read
          /\ UNCHANGED <<mu, owner, dev>>
    /\ UNCHANGED <<rejected, phone, storeVars, asyncVars, ghostVars>>

\* a.client.Connect() in GetQR: on success a code is shown.
GetQRDial(a) ==
    /\ mu[a] = "qr"
    /\ mu' = [mu EXCEPT ![a] = "free"]
    /\ \/ conn' = [conn EXCEPT ![client[a]] = "code"]
       \/ UNCHANGED conn
    /\ UNCHANGED <<client, rejected, phone, owner, dev, storeVars, asyncVars, ghostVars>>

\* PairPhone: a linking code for a client that is connected and not logged in.
PairPhone(a) ==
    /\ LockFree(a)
    /\ Connected(a)
    /\ dev[client[a]] = None
    /\ conn' = [conn EXCEPT ![client[a]] = "code"]
    /\ UNCHANGED <<accountVars, owner, dev, storeVars, asyncVars, ghostVars>>

\* (mutant: the client of a finished Logout stays connected without credentials)
LogoutConnected_KeepsClient(a) ==
    /\ LockFree(a)
    /\ LoggedIn(a)
    /\ dev' = [dev EXCEPT ![client[a]] = None]
    /\ devices' = devices \ {dev[client[a]]}
    /\ linked' = linked \ {dev[client[a]]}
    /\ UNCHANGED <<accountVars, owner, conn, asyncVars, ghostVars>>

\* Logout of a connected account: the servers unlink the companion and the
\* library deletes its row, or the call fails and only the client is dropped.
LogoutConnected(a) ==
    /\ LockFree(a)
    /\ Connected(a)
    /\ ForgetClient(a)
    /\ \/ /\ LoggedIn(a)
          /\ ServerUnlink(dev[client[a]], client[a])
          /\ devices' = devices \ {dev[client[a]]}
       \/ /\ conn' = ClosedIfAny(client[a])
          /\ UNCHANGED <<dev, devices, linked, events>>
    /\ UNCHANGED <<rejected, phone, mu, owner, rejects, worker, call, ghostVars>>

\* Logout of a sleeping account: delete the first row of the shared store.
LogoutOffline(a) ==
    /\ LockFree(a)
    /\ ~Connected(a)
    /\ conn' = ClosedIfAny(client[a])
    /\ ForgetClient(a)
    /\ \E d \in FirstDevice : devices' = devices \ {d}
    /\ UNCHANGED <<rejected, phone, mu, owner, dev, linked, asyncVars, ghostVars>>

\* The memory half of UpdatePhoneNumber; the number is unique in the registry.
UpdatePhoneNumber(a, p) ==
    /\ Spend("rename")
    /\ LockFree(a)
    /\ \A b \in Accounts : phone[b] # p
    /\ phone' = [phone EXCEPT ![a] = p]
    /\ renamed' = [renamed EXCEPT ![a] = TRUE]
    /\ UNCHANGED <<client, rejected, mu, clientVars, storeVars, asyncVars, abandoned>>

-----------------------------------------------------------------------------
(* handleEvent, one action per case; rejectMismatch and autoReconnect.     *)

Take(e) == e \in events /\ events' = events \ {e}

\* (mutant: the goroutine of rejectMismatch is not started)
SpawnReject_NotStarted(a) == UNCHANGED rejects

\* rejectMismatch starts a goroutine and returns.
SpawnReject(a) ==
    /\ rejects[a] < MaxRejects
    /\ rejects' = [rejects EXCEPT ![a] = @ + 1]

\* *events.PairSuccess
HandlePairSuccess(a, p) ==
    /\ Take(<<"PairSuccess", a, p>>)
    /\ IF phoneMatches(p, phone[a]) THEN UNCHANGED rejects ELSE SpawnReject(a)
    /\ UNCHANGED <<accountVars, clientVars, storeVars, worker, call, ghostVars>>

\* The Connected event checks the client in a.client, not the one that emitted it.
WrongNumber(a) ==
    /\ client[a] # None
    /\ dev[client[a]] # None
    /\ ~phoneMatches(dev[client[a]], phone[a])

\* (mutant: the number is checked on PairSuccess only)
HandleConnected_Unchecked(a) ==
    /\ LockFree(a)
    /\ Take(<<"Connected", a, None>>)
    /\ UNCHANGED <<accountVars, clientVars, storeVars, rejects, worker, call, ghostVars>>

\* *events.Connected
HandleConnected(a) ==
    /\ LockFree(a)
    /\ Take(<<"Connected", a, None>>)
    /\ IF WrongNumber(a) THEN SpawnReject(a) ELSE UNCHANGED rejects
    /\ UNCHANGED <<accountVars, clientVars, storeVars, worker, call, ghostVars>>

\* *events.LoggedOut: drop whatever client the account has now.
HandleLoggedOut(a) ==
    /\ LockFree(a)
    /\ Take(<<"LoggedOut", a, None>>)
    /\ conn' = ClosedIfAny(client[a])
    /\ ForgetClient(a)
    /\ UNCHANGED <<rejected, phone, mu, owner, dev, storeVars,
                   rejects, worker, call, ghostVars>>

\* *events.Disconnected: start autoReconnect unless the account is rejected.
HandleDisconnected(a) ==
    /\ LockFree(a)
    /\ Take(<<"Disconnected", a, None>>)
    /\ \/ /\ rejected[a]
          /\ abandoned' = [abandoned EXCEPT ![a] = TRUE]
          /\ UNCHANGED worker
       \/ /\ ~rejected[a]
          /\ \E w \in Workers :
               /\ worker[w].pc = "idle"
               /\ worker' = [worker EXCEPT ![w] =
                               [pc |-> "sleep", acct |-> a, try |-> 0, cl |-> None]]
          /\ UNCHANGED abandoned
    /\ UNCHANGED <<accountVars, clientVars, storeVars, rejects, call, renamed, left>>

\* The goroutine of rejectMismatch.  Errors of Logout are ignored, and every
\* row of the shared store is deleted.
RejectMismatch(a) ==
    /\ LockFree(a)
    /\ rejects[a] > 0
    /\ rejects' = [rejects EXCEPT ![a] = @ - 1]
    /\ rejected' = [rejected EXCEPT ![a] = TRUE]
    /\ ForgetClient(a)
    /\ devices' = {}
    /\ \/ /\ LoggedIn(a)
          /\ ServerUnlink(dev[client[a]], client[a])
       \/ /\ conn' = ClosedIfAny(client[a])
          /\ UNCHANGED <<dev, linked, events>>
    /\ UNCHANGED <<phone, mu, owner, worker, call, ghostVars>>

\* (mutant: one delay too many)
LastTry_OffByOne(w) == worker[w].try = Retries

\* The loop over delays.
LastTry(w) == worker[w].try + 1 = Retries
NextTry(w) == worker[w].try + 1

\* (mutant: the test of IsConnected is inverted)
NothingToDo_Inverted(a) == client[a] = None \/ ~Connected(a)

\* The loop returns: the account let its client go, or is connected again.
NothingToDo(a) == client[a] = None \/ Connected(a)

\* autoReconnect wakes up and copies a.client under the read lock.
AutoReconnectWake(w) ==
    /\ worker[w].pc = "sleep"
    /\ LockFree(worker[w].acct)
    /\ LET a == worker[w].acct IN
         worker' = [worker EXCEPT ![w] =
                      IF NothingToDo(a)
                      THEN IdleWorker
                      ELSE [pc |-> "dial", acct |-> a, try |-> worker[w].try,
                            cl |-> client[a]]]
    /\ UNCHANGED <<accountVars, clientVars, storeVars, events, rejects, call, ghostVars>>

\* It then connects that copy, without the lock.  An error (the client is
\* already connected, or the network fails) leads to the next delay.
AutoReconnectDial(w) ==
    /\ worker[w].pc = "dial"
    /\ \/ /\ ~IsConnected(worker[w].cl)
          /\ conn' = [conn EXCEPT ![worker[w].cl] = "open"]
          /\ worker' = [worker EXCEPT ![w] = IdleWorker]
          /\ UNCHANGED abandoned
       \/ /\ worker' = [worker EXCEPT ![w] =
                          IF LastTry(w) THEN IdleWorker
                          ELSE [pc |-> "sleep", acct |-> worker[w].acct,
                                try |-> NextTry(w), cl |-> None]]
          /\ abandoned' = [abandoned EXCEPT ![worker[w].acct] =
                             @ \/ LastTry(w)]
          /\ UNCHANGED conn
    /\ UNCHANGED <<accountVars, owner, dev, storeVars, events, rejects, call, renamed, left>>

-----------------------------------------------------------------------------
(* whatsmeow, the network, the phones and the host: external.              *)

\* A connected client with credentials logs in.
NetLogin(c) ==
    /\ conn[c] = "open"
    /\ dev[c] \in linked
    /\ conn' = [conn EXCEPT ![c] = "online"]
    /\ events' = events \cup {<<"Connected", owner[c], None>>}
    /\ renamed' = [renamed EXCEPT ![owner[c]] = @ /\ client[owner[c]] # c]
    /\ UNCHANGED <<accountVars, owner, dev, storeVars, rejects, worker, call, abandoned, left>>

\* The servers refuse revoked credentials: the library deletes them.
NetLoginRefused(c) ==
    /\ conn[c] = "open"
    /\ dev[c] # None
    /\ dev[c] \notin linked
    /\ conn' = [conn EXCEPT ![c] = "closed"]
    /\ dev' = [dev EXCEPT ![c] = None]
    /\ devices' = devices \ {dev[c]}
    /\ events' = events \cup {<<"LoggedOut", owner[c], None>>}
    /\ UNCHANGED <<accountVars, owner, linked, rejects, worker, call, ghostVars>>

\* The connection breaks.
NetDrop(c) ==
    /\ Spend("drop")
    /\ IsConnected(c)
    /\ conn' = [conn EXCEPT ![c] = "lost"]
    /\ events' = events \cup {<<"Disconnected", owner[c], None>>}
    /\ abandoned' = [abandoned EXCEPT ![owner[c]] = @ /\ client[owner[c]] # c]
    /\ UNCHANGED <<accountVars, owner, dev, storeVars, rejects, worker, call, renamed>>

\* The library's own reconnection of a client that has credentials.
NetReconnect(c) ==
    /\ conn[c] = "lost"
    /\ dev[c] # None
    /\ conn' = [conn EXCEPT ![c] = "open"]
    /\ UNCHANGED <<accountVars, owner, dev, storeVars, asyncVars, ghostVars>>

\* The code shown for c runs out; the library closes the client.
CodeExpires(c) ==
    /\ conn[c] = "code"
    /\ conn' = [conn EXCEPT ![c] = "closed"]
    /\ UNCHANGED <<accountVars, owner, dev, storeVars, asyncVars, ghostVars>>

\* Someone scans or enters the code with phone p, right or wrong.
PhonePairs(c, p) ==
    /\ Spend("pair")
    /\ conn[c] = "code"
    /\ conn' = [conn EXCEPT ![c] = "open"]
    /\ dev' = [dev EXCEPT ![c] = p]
    /\ devices' = devices \cup {p}
    /\ linked' = linked \cup {p}
    /\ events' = events \cup {<<"PairSuccess", owner[c], p>>}
    /\ UNCHANGED <<accountVars, owner, rejects, worker, call, renamed, abandoned>>

\* The user removes the companion on the phone.
PhoneUnlinks(p) ==
    /\ Spend("unlink")
    /\ p \in linked
    /\ ServerUnlink(p, None)
    /\ devices' = IF Kicked(p, None) = {} THEN devices ELSE devices \ {p}
    /\ UNCHANGED <<accountVars, owner, rejects, worker, call, renamed, abandoned>>

\* The process dies and is started again: only the store, the registry and
\* the servers remember anything.
Crash ==
    /\ Spend("crash")
    /\ client' = [a \in Accounts |-> None]
    /\ rejected' = [a \in Accounts |-> FALSE]
    /\ mu' = [a \in Accounts |-> "free"]
    /\ owner' = [c \in Clients |-> None]
    /\ dev' = [c \in Clients |-> None]
    /\ conn' = [c \in Clients |-> "closed"]
    /\ events' = {}
    /\ rejects' = [a \in Accounts |-> 0]
    /\ worker' = [w \in Workers |-> IdleWorker]
    /\ call' = [a \in Accounts |-> IdleCall]
    /\ renamed' = [a \in Accounts |-> FALSE]
    /\ abandoned' = [a \in Accounts |-> FALSE]
    /\ UNCHANGED <<phone, storeVars>>

-----------------------------------------------------------------------------
Request(a) ==
    \/ requireConnectedAccount(a)
    \/ Disconnect(a)
    \/ GetQR(a)
    \/ PairPhone(a)
    \/ LogoutConnected(a)
    \/ LogoutOffline(a)
    \/ \E p \in Phones : UpdatePhoneNumber(a, p)

\* The rest of a request once it has started.
RequestStep(a) ==
    \/ Connect(a)
    \/ ConnectDial(a)
    \/ GetQRDial(a)
    \/ requireConnectedClient(a)
    \/ SendMessage(a)

Callback(a) ==
    \/ \E p \in Phones : HandlePairSuccess(a, p)
    \/ HandleConnected(a)
    \/ HandleLoggedOut(a)
    \/ HandleDisconnected(a)

Reconnector(w) == AutoReconnectWake(w) \/ AutoReconnectDial(w)

Environment ==
    \/ \E c \in Clients :
         \/ NetLogin(c) \/ NetLoginRefused(c) \/ NetDrop(c) \/ NetReconnect(c)
         \/ CodeExpires(c)
         \/ \E p \in Phones : PhonePairs(c, p)
    \/ \E p \in Phones : PhoneUnlinks(p)
    \/ Crash

Next ==
    \/ \E a \in Accounts : Request(a) \/ RequestStep(a) \/ Callback(a) \/ RejectMismatch(a)
    \/ \E w \in Workers : Reconnector(w)
    \/ Environment

Spec == Init /\ [][Next]_vars

\* What Go and the network are assumed to do: a started goroutine, callback or
\* request goes on, and sync.RWMutex starves neither readers nor writers, so
\* whoever waits for a.mu gets it.  Users, phones and failures owe nothing.
Fairness ==
    /\ \A a \in Accounts :
         /\ WF_vars(ConnectDial(a)) /\ WF_vars(GetQRDial(a)) /\ WF_vars(SendMessage(a))
         /\ SF_vars(Connect(a)) /\ SF_vars(requireConnectedClient(a))
         /\ SF_vars(RejectMismatch(a))
         /\ SF_vars(HandleConnected(a)) /\ SF_vars(HandleLoggedOut(a))
         /\ SF_vars(HandleDisconnected(a))
         /\ \A p \in Phones : WF_vars(HandlePairSuccess(a, p))
    /\ \A w \in Workers : SF_vars(AutoReconnectWake(w)) /\ WF_vars(AutoReconnectDial(w))

FairSpec == Spec /\ Fairness

-----------------------------------------------------------------------------
(* Properties.                                                             *)

\* No client object is ever shared: what an account holds, what its goroutines
\* dial and what its requests use was made by its own prepareClient, so the
\* callbacks of that client come back to this account.
OwnClient ==
    /\ \A a \in Accounts : client[a] # None => owner[client[a]] = a
    /\ \A a \in Accounts : call[a].cl # None => owner[call[a].cl] = a
    /\ \A w \in Workers : worker[w].cl # None => owner[worker[w].cl] = worker[w].acct

\* Between prepareClient and a.client.Connect() nobody takes the new client away
\* or dials it: the call never meets a nil client or one that is connected.
DialTarget ==
    \A a \in Accounts :
        mu[a] # "free" => client[a] # None /\ conn[client[a]] = "closed"

\* A session logged in with a number other than the account's never goes
\* unnoticed: the check of the Connected event is due, or a rejectMismatch
\* goroutine waits for the lock, unless the account's number was changed after
\* the login (UpdatePhoneNumber checks nothing).
MismatchCovered ==
    \A a \in Accounts :
        (WrongNumber(a) /\ LoggedIn(a) /\ ~renamed[a]) =>
            <<"Connected", a, None>> \in events \/ rejects[a] > 0

\* autoReconnect never forgets a dropped connection: while the account's client
\* is down after a drop, the Disconnected callback is due, or a goroutine is in
\* a delay or about to dial that client, or recovery was given up.
DropCovered ==
    \A a \in Accounts :
        (client[a] # None /\ conn[client[a]] = "lost") =>
            \/ <<"Disconnected", a, None>> \in events
            \/ \E w \in Workers : /\ worker[w].acct = a
                                  /\ worker[w].pc = "sleep" \/ worker[w].cl = client[a]
            \/ abandoned[a]

\* A client the account has let go of keeps no connection.
Orphan(c) == conn[c] # "closed" /\ owner[c] # None /\ client[owner[c]] # c
NoOrphans == \A c \in Clients : ~Orphan(c)

\* Orphans come from broken connections only: as long as no connection has
\* dropped, replacing, rejecting or logging out a client leaves none behind.
OrphanNeedsDrop == left["drop"] = Budget["drop"] => NoOrphans

\* With one account on the store, the session it is logged in with is stored:
\* a restart finds it again.
SessionStored ==
    \A a \in Accounts :
        LoggedIn(a) => dev[client[a]] \in devices

\* What is promised about sessions, with the clients and the store hidden.
SessionOf(a) ==
    [client |-> IF client[a] = None THEN "none" ELSE IF Connected(a) THEN "up" ELSE "down",
     linked |-> HasStoredCredentials(a)]

Abs == INSTANCE Session WITH session <- [a \in Accounts |-> SessionOf(a)]

\* Whatever requests, callbacks, goroutines and phones do to the clients and to
\* the shared store, each account's session moves as Session says: no client
\* comes up unprepared, and none stays connected when its credentials go.
ImplementsSession == Abs!Spec

\* A session with the wrong number is eventually thrown out.
MismatchDropped ==
    \A a \in Accounts :
        LET wrong == WrongNumber(a) /\ LoggedIn(a) IN
        (wrong /\ ~renamed[a]) ~> ~wrong

\* Requests are answered: none waits for ever on a.mu behind the handlers, the
\* reconnections and the rejections of its account.
RequestCompletes == \A a \in Accounts : call[a].pc # "idle" ~> call[a].pc = "idle"

-----------------------------------------------------------------------------
(* What the documentation and the comments say, and the code does not do.  *)

Redials(w) == AutoReconnectDial(w) /\ conn' # conn

\* rejectMismatch "sets the rejected flag so autoReconnect will not retry"
\* (account.go:1836): no connection is dialled again for a rejected account.
NoRejectedRedial == [][\A w \in Workers : Redials(w) => ~rejected[worker[w].acct]]_vars
=============================================================================
