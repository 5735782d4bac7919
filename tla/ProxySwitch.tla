----------------------------- MODULE ProxySwitch -----------------------------
(***************************************************************************)
(* Changing the proxy of one account: SetProxy and DeleteProxy of          *)
(* service/manager.go write the row, disconnect the client and assign      *)
(* a.Proxy in three separate steps, while other requests connect through   *)
(* whatever a.Proxy is (prepareClient in service/account.go).  A client    *)
(* keeps the route it was made with, and may be dialled again after the    *)
(* account has let go of it: by an autoReconnect goroutine that copied it, *)
(* or by the library when it was replaced after its connection broke.      *)
(***************************************************************************)
EXTENDS Naturals

CONSTANTS Proxies,      \* proxy configurations
          Enabled,      \* those whose enabled flag is set
          Requests,     \* slots for SetProxy and DeleteProxy calls
          Clients,      \* slots for clients that are held, connected or dialled
          LostAnswers,  \* may a statement take effect and its answer be lost?
          None          \* no configuration, no proxy, no client

ASSUME EnabledAssumption == Enabled \subseteq Proxies
ASSUME LostAnswersAssumption == LostAnswers \in BOOLEAN
ASSUME NoneAssumption == None \notin Proxies \cup Clients

VARIABLES
    row,        \* the account's row of proxy_config
    proxy,      \* a.Proxy
    client,     \* a.client, None for nil
    conn,       \* clients: "closed", "lost" (the connection broke) or "open"
    via,        \* clients: the proxy they were made with
    asleep,     \* does an autoReconnect goroutine sleep?
    copied,     \* clients an autoReconnect goroutine has copied and is about to dial
    req,        \* calls: what comes next, and the configuration they set
    torn,       \* ghost: row and memory were written by two calls at once, a
                \* lost answer, or a start that could not read the row
    escaped     \* ghost: clients made between a call's two locks, or that its
                \* Disconnect did not reach

clientVars == <<client, conn, via, asleep, copied>>
vars == <<row, proxy, clientVars, req, torn, escaped>>

Choices == Proxies \cup {None}
RequestState == [pc : {"idle", "store", "drop", "assign"}, to : Choices]
IdleRequest == [pc |-> "idle", to |-> None]

TypeOK ==
    /\ row \in Choices
    /\ proxy \in Choices
    /\ client \in Clients \cup {None}
    /\ conn \in [Clients -> {"closed", "lost", "open"}]
    /\ via \in [Clients -> Enabled \cup {None}]
    /\ asleep \in BOOLEAN
    /\ copied \in SUBSET Clients
    /\ req \in [Requests -> RequestState]
    /\ torn \in BOOLEAN
    /\ escaped \in SUBSET Clients

Init ==
    /\ row = None
    /\ proxy = None
    /\ client = None
    /\ conn = [c \in Clients |-> "closed"]
    /\ via = [c \in Clients |-> None]
    /\ asleep = FALSE
    /\ copied = {}
    /\ req = [r \in Requests |-> IdleRequest]
    /\ torn = FALSE
    /\ escaped = {}

-----------------------------------------------------------------------------
At(r, pc) == req[r].pc = pc
Goto(r, pc, x) == req' = [req EXCEPT ![r] = [pc |-> pc, to |-> x]]
Finish(r) == req' = [req EXCEPT ![r] = IdleRequest]

\* Another call has written the row and not yet a.Proxy.
OtherHalfway(r) == \E q \in Requests \ {r} : req[q].pc \in {"drop", "assign"}

\* What prepareClient makes of a.Proxy.
Route(x) == IF x \in Enabled THEN x ELSE None

\* The account holds it, it is connected, or it may be dialled.
InUse(c) == c = client \/ c \in copied \/ conn[c] # "closed"

\* The client the account holds is closed.
Closed == [c \in Clients |-> IF c = client THEN "closed" ELSE conn[c]]

\* What closing the client does not reach: copies that are about to be dialled, and
\* what the account had let go of before.
Missed == copied \cup {c \in Clients \ {client} : conn[c] # "closed"}

\* SetProxy with a validated configuration.
SetProxy(r, x) ==
    /\ At(r, "idle")
    /\ Goto(r, "store", x)
    /\ UNCHANGED <<row, proxy, clientVars, torn, escaped>>

\* DeleteProxy: the same steps with no configuration.
DeleteProxy(r) == SetProxy(r, None)

\* (mutant: the call goes on although its statement has failed)
StoreProxy_Unchecked(r) ==
    /\ At(r, "store")
    /\ Goto(r, "drop", req[r].to)
    /\ row' \in {row, req[r].to}
    /\ torn' = OtherHalfway(r)
    /\ UNCHANGED <<proxy, clientVars, escaped>>

\* UpsertProxyConfig or DeleteProxyConfig.
StoreProxy(r) ==
    /\ At(r, "store")
    /\ \/ /\ row' = req[r].to
          /\ \/ /\ Goto(r, "drop", req[r].to)
                /\ torn' = IF OtherHalfway(r) THEN TRUE ELSE FALSE
             \/ LostAnswers /\ Finish(r) /\ torn' = TRUE
       \/ Finish(r) /\ UNCHANGED <<row, torn>>
    /\ UNCHANGED <<proxy, clientVars, escaped>>

\* (mutant: the client stays connected)
DropClient_Kept(r) ==
    /\ At(r, "drop")
    /\ Goto(r, "assign", req[r].to)
    /\ UNCHANGED <<row, proxy, clientVars, torn, escaped>>

\* acct.Disconnect(), under a.mu.
DropClient(r) ==
    /\ At(r, "drop")
    /\ Goto(r, "assign", req[r].to)
    /\ client' = None
    /\ conn' = Closed
    /\ escaped' = escaped \cup Missed
    /\ UNCHANGED <<row, proxy, via, asleep, copied, torn>>

\* a.Proxy = cfg, under a.mu again.
AssignProxy(r) ==
    /\ At(r, "assign")
    /\ proxy' = req[r].to
    /\ Finish(r)
    /\ UNCHANGED <<row, clientVars, torn, escaped>>

-----------------------------------------------------------------------------
\* A new client takes the route of a.Proxy.
prepareClient(c) ==
    /\ ~InUse(c)
    /\ client' = c
    /\ via' = [via EXCEPT ![c] = Route(proxy)]
    /\ escaped' = IF \E r \in Requests : At(r, "assign") THEN escaped \cup {c} ELSE escaped \ {c}

\* Connect replaces a client that is not connected, without closing it; its dial may
\* fail.
Connect(c) ==
    /\ client # None => conn[client] # "open"
    /\ prepareClient(c)
    /\ \E s \in {"closed", "open"} : conn' = [conn EXCEPT ![c] = s]
    /\ UNCHANGED <<row, proxy, asleep, copied, req, torn>>

\* GetQR closes the client first.
GetQR(c) ==
    /\ prepareClient(c)
    /\ \E s \in {"closed", "open"} : conn' = [Closed EXCEPT ![c] = s]
    /\ UNCHANGED <<row, proxy, asleep, copied, req, torn>>

\* Disconnect, Logout or a rejection.
ClientGone ==
    /\ client # None
    /\ client' = None
    /\ conn' = Closed
    /\ UNCHANGED <<row, proxy, via, asleep, copied, req, torn, escaped>>

\* A connection breaks, or the library ends it; Disconnected starts a goroutine
\* unless a rejection forbids it.
NetDrop(c) ==
    /\ conn[c] = "open"
    /\ \E s \in {"closed", "lost"} : conn' = [conn EXCEPT ![c] = s]
    /\ asleep' \in {asleep, TRUE}
    /\ UNCHANGED <<row, proxy, client, via, copied, req, torn, escaped>>

\* The library reconnects a client whose connection broke.
NetReconnect(c) ==
    /\ conn[c] = "lost"
    /\ conn' = [conn EXCEPT ![c] = "open"]
    /\ UNCHANGED <<row, proxy, client, via, asleep, copied, req, torn, escaped>>

\* autoReconnect copies a.client; nil or a connected client ends it.  Another
\* goroutine may go on sleeping.
AutoReconnectWake ==
    /\ asleep
    /\ asleep' \in BOOLEAN
    /\ copied' = IF client # None /\ conn[client] # "open" THEN copied \cup {client} ELSE copied
    /\ UNCHANGED <<row, proxy, client, conn, via, req, torn, escaped>>

\* It dials the copy, whether the account still holds it or not, and sleeps again or
\* gives up after an error.  Another goroutine may have the same copy.
AutoReconnectDial(c) ==
    /\ c \in copied
    /\ copied' \in {copied, copied \ {c}}
    /\ \/ /\ conn[c] # "open"
          /\ conn' = [conn EXCEPT ![c] = "open"]
          /\ UNCHANGED asleep
       \/ asleep' \in {asleep, TRUE} /\ UNCHANGED conn
    /\ UNCHANGED <<row, proxy, client, via, req, torn, escaped>>

\* The process starts again; DiscoverAccounts goes on without a proxy when its
\* row cannot be read.
Discover ==
    /\ \/ proxy' = row /\ torn' = FALSE
       \/ proxy' = None /\ torn' = TRUE
    /\ client' = None
    /\ conn' = [c \in Clients |-> "closed"]
    /\ asleep' = FALSE
    /\ copied' = {}
    /\ escaped' = {}
    /\ req' = [r \in Requests |-> IdleRequest]
    /\ UNCHANGED <<row, via>>

Next ==
    \/ \E r \in Requests :
         \/ \E x \in Proxies : SetProxy(r, x)
         \/ DeleteProxy(r)
         \/ StoreProxy(r) \/ DropClient(r) \/ AssignProxy(r)
    \/ \E c \in Clients :
         \/ Connect(c) \/ GetQR(c)
         \/ NetDrop(c) \/ NetReconnect(c) \/ AutoReconnectDial(c)
    \/ ClientGone \/ AutoReconnectWake \/ Discover

Spec == Init /\ [][Next]_vars

-----------------------------------------------------------------------------
\* What a restart will use is what this process uses: the stored configuration is
\* the one in memory, except between a call's two writes and after two calls
\* crossed, an answer was lost or a start failed to read it.
ProxySettled ==
    \/ proxy = row
    \/ \E r \in Requests : req[r].pc \in {"drop", "assign"}
    \/ torn

\* Every connection, of the client the account holds or of one it has let go of, goes
\* through the configured proxy, unless its client was made in the window between
\* the disconnection and the assignment of a change, or the disconnection did not
\* reach it: an autoReconnect goroutine had copied it, or the account had let go of
\* it before and it was connected or about to be.
RouteCurrent == \A c \in Clients : conn[c] = "open" => via[c] = Route(proxy) \/ c \in escaped
=============================================================================
