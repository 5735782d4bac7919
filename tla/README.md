# notalk-server in TLA+

A TLA+ development kept beside `src/`: what the server's code does, as modules;
what it has to keep true, as invariants, action and liveness properties checked
by TLC; and what holds for every size of the system, as theorems checked by
TLAPS. Every definition is translated from the Go source; `PROJECT.json` maps
each of them to its lines.

## 1. The system

notalk-server is one Go process that puts a REST and an MCP interface in front
of WhatsApp. It keeps a registry of *accounts*, each a phone number with its own
WhatsApp client (the whatsmeow library), a PostgreSQL database, an optional
Redis cache, and role-based access control for its own users.

| component | state | operations | interacts with |
|---|---|---|---|
| **Account session** `service/account.go`, `handler/health.go` | `a.client`, `a.rejected`, `a.PhoneNumber` under `a.mu`; the client's socket and `Store.ID`; the session store `whatsmeow_device`, one for all accounts | `Connect`, `Disconnect`, `EnsureConnected`, `GetQR`, `PairPhone`, `Logout`; callbacks `PairSuccess`, `Connected`, `LoggedOut`, `Disconnected`; goroutines `rejectMismatch`, `autoReconnect` | requests call it, the library calls back, goroutines outlive their cause |
| **Account registry** `service/manager.go`, `handler/accounts.go` | `accounts` map under `m.mu`; rows of `account` and `proxy_config` | `CreateAccount`, `DeleteAccount`, `UpdateAccountName`, `UpdatePhoneNumber`, `SetProxy`, `DeleteProxy`, `DiscoverAccounts`, `ShutdownAll` | owns the sessions; memory and rows are written one after the other |
| **Send limiter** `account.go` | token bucket per account | `allow` | `SendMessage`, `SendMedia`, `SendReply` |
| **Message store and chat cache** `account.go`, `cache/` | rows of `message`; Redis keys `msgs:*`, `chats:*` | `storeMessage`, `storeHistorySync`, `storeOutgoing`, `ListMessages`, `ListChats` | callbacks write, requests read through the cache |
| **Webhook delivery** `account.go`, `handler/webhook.go` | row of `webhook_config`, one goroutine per message | `doDispatchWebhook`, configuration CRUD | message callbacks start it |
| **Users, roles, API keys** `handler/users.go`, `roles.go`, `apikeys.go` | rows of `app_user`, `role`, `role_permission`, `api_key` | CRUD, each a sequence of statements without a transaction | the middleware reads them on each request |
| **Login, registration, reset** `handler/auth.go`, `smtp/` | rows of `app_user`, `password_reset_token` | `Login`, `Register`, `ForgotPassword`, `ResetPassword` | users |
| **Middleware** `middleware/` | semaphore; identity per request | `Auth`, `MCPScope`, `RequirePermission`, `RateLimit`, `CORS` | in front of every handler |
| **Billing** `database/billing.go`, `handler/billing.go` | rows of `plan`, `subscription`, `usage` | plan CRUD, subscribe, count usage, look up limits | users |
| **AI agent** `agent/` | history per user | `RunChat`, `AutoReply` | nothing in `cmd/` starts it |
| **MCP server** `mcpserver/` | none of its own | tools that call the service | middleware, sessions |
| **Entry and shutdown** `cmd/notalk/main.go` | process | start, serve, stop | registry, HTTP server |

What is hard in this code is concurrency: nothing is transactional, locks are
released between a check and its use, library callbacks and goroutines arrive in
any order, and the process may die in between. `PROJECT.json` lists each such
place under `hazards` with the property that watches it; two have none, and say why.

What makes each part correct, in a sentence:

- *session*: a client belongs to one account; a wrong number never goes
  unnoticed; a dropped connection is always being worked on; what is connected
  can be found again; requests end.
- *registry*: memory and rows agree once the calls are over; what is deleted is
  gone; a number belongs to one account.
- *limiter*: no interval carries more messages than bucket plus refill.
- *messages and cache*: a stored message shows up once the cached answer ages
  out; pages are the newest messages.
- *webhooks*: bounded attempts, at least one if the network allows, none
  after an answer below 500.
- *requests*: slots come back; an error means that nothing was changed; a message
  needs a grant.
- *users, access, plans*: references between rows hold; what was asked for last
  stands unless calls overlapped; what was revoked lets nobody in.

## 2. Modules

| module | what it is |
|---|---|
| `AccountSession` | the clients behind the accounts: state, actions, properties, and the mutated definitions the checks of the properties use |
| `MCAccountSession` | budgets of upsets and symmetry for TLC |
| `AccountSessionProofs` | type correctness, `TInv`, ownership of clients, the target of a dial; the covering invariants; that it implements `Session` |
| `Session` | the session of an account as the rest of the server may rely on it: abstract specification |
| `AccountRegistry` | the map of accounts, its table, the requests that change both, shutdown and start |
| `MCAccountRegistry` | symmetry for TLC |
| `AccountRegistryProofs` | type correctness and the four invariants that relate map, rows, numbers and connections |
| `ProxySwitch` | changing an account's proxy while its clients connect, break and are dialled again |
| `MCProxySwitch` | two proxies, one disabled |
| `ProxySwitchProofs` | its two invariants |
| `SendQuota` | the token bucket of the send operations |
| `Handlers` | what each REST handler and MCP tool does, as a set of sequences of steps |
| `Operations` | requests that run those steps beside each other, on `Session` and `SendQuota` |
| `MCOperations` | which requests TLC offers |
| `OperationsProofs` | its six invariants, its place under `Session` and the lock it keeps, for any number of slots and any limits |
| `MessagePages`, `MCMessagePages` | the message table of a chat and a reader that walks through it |
| `MessagePagesProofs` | what such a walk shows, for any chat and limit |
| `ChatCache`, `MCChatCache` | answers about messages in Redis, and who deletes them |
| `Webhook` | the goroutine that delivers an event |
| `EventProofs` | why a cached answer may lack a message, and what a delivery may do |
| `Access`, `MCAccess` | users, roles, permissions, keys, and the requests they let in |
| `AccessProofs` | its invariants, for any number of all of them |
| `UserRows`, `MCUserRows` | passwords, reset tokens, plans and subscriptions, and the requests that write them |
| `UserRowsProofs` | its five invariants and that tokens stay shut, for any number of all of them |

### 2.1 AccountSession

One variable per field or table: `client`, `rejected`, `phone`, `mu` (the fields
of `Account`), `owner`, `dev`, `conn` (a `whatsmeow.Client` object: who made it,
`Store.ID`, its socket), `devices` (rows of the shared `whatsmeow_device`),
`linked` (companions the WhatsApp servers accept), `events` (callbacks started
and not yet run), `rejects` and `worker` (goroutines of `rejectMismatch` and
`autoReconnect`), `call` (the request in flight on the account).

| code | actions |
|---|---|
| `requireConnectedAccount` + `EnsureConnected`'s read | `requireConnectedAccount` |
| `Connect`: up to the dial / the dial, with `a.mu` held throughout | `Connect`, `ConnectDial` |
| `requireConnectedClient`, then the operation | `requireConnectedClient`, `SendMessage` |
| `Disconnect`, `GetQR`, `PairPhone`, `Logout` (connected or not) | `Disconnect`, `GetQR` + `GetQRDial`, `PairPhone`, `LogoutConnected`, `LogoutOffline` |
| `handleEvent`, a case each | `HandlePairSuccess`, `HandleConnected`, `HandleLoggedOut`, `HandleDisconnected` |
| goroutine of `rejectMismatch` | `SpawnReject` (start), `RejectMismatch` (body) |
| loop of `autoReconnect`: nil check and copy / dial without the lock | `AutoReconnectWake`, `AutoReconnectDial` |
| `manager.UpdatePhoneNumber`, memory half | `UpdatePhoneNumber` |
| library, servers, phones, host (external) | `NetLogin`, `NetLoginRefused`, `NetDrop`, `NetReconnect`, `CodeExpires`, `PhonePairs`, `PhoneUnlinks`, `Crash` |

A section under `a.mu` is one action unless it makes the network call
`client.Connect()`, during which other goroutines run: then `mu[a]` is
`"connect"` or `"qr"` and everybody who needs `a.mu` waits (`LockFree`). What the
code reads under the lock and uses after it (`requireConnectedClient`,
`autoReconnect`) is kept in `call` or `worker` between two actions.

Abstractions:

- A phone number stands for the companion device paired with it; `phoneMatches`
  (suffix matching of digits) is equality. An account always has a number.
- `events` is a set: two equal callbacks of one account waiting at the same time
  are one.
- Client identities are reused once nothing refers to the object (`Fresh`), so
  that `Clients` can be small.
- `HasStoredCredentials` and the check of `EnsureConnected` are one action;
  between them nothing is kept but that the account was linked.
- The library's `StreamReplaced` (the server replaces one of two connections of
  a companion) is left out, and so are failing DELETE statements in
  `rejectMismatch`, whose errors the code drops.
- Bounds: `Workers` goroutines of `autoReconnect` (a Disconnected callback waits
  for a slot), `MaxRejects` waiting goroutines of `rejectMismatch`, `Budget`
  for each upset of the environment (pairings, drops, unlinks, crashes, renames).

Properties that hold:

- `TypeOK`, with the retry counter of `autoReconnect` within its delays.
- `OwnClient`: what an account holds, uses and dials was made by its own
  `prepareClient`.
- `DialTarget`: `Connect` and `GetQR` dial a client that is there and closed.
- `MismatchCovered`: a session logged in with a wrong number has its `Connected`
  check due or a `rejectMismatch` waiting, unless the number was changed later.
- `DropCovered`: after a drop the callback or a goroutine is at work on that
  client, or recovery was given up (`abandoned`: five failures, or rejected).
- `OrphanNeedsDrop`: connections nobody holds come from drops only.
- `SessionStored` (one account): the session that is up is in the store.
- `ImplementsSession`: `Session`'s specification, under the mapping `SessionOf`.
- `MismatchDropped`, `RequestCompletes` under `FairSpec`.

Fairness. A goroutine, callback or request that can go on does (WF: the Go
scheduler). Steps that take `a.mu` get SF, because the lock may be taken and
released by others infinitely often and `sync.RWMutex` starves neither side.
Users, phones and failures have no fairness, except that a dial ends (its action
has a failing branch).

Not kept by the code: `NoRejectedRedial`, and other accounts' sessions (section 5).

`Session` is what is left when clients, store, callbacks and goroutines are hidden: an
account has no client, one that is down or one that is up, and credentials or not.
`After(s)` lists the moves. It allows much, because phones, servers and other
accounts on the shared store may do much; what it rules out is a client that is handed
out connected without having been prepared, and one that stays connected when its
credentials go. `SessionOf(a)` is the mapping, one step may move several accounts
(an unlinked companion, a store another account writes), and `Operations` relies on it.

### 2.2 AccountRegistry

`rows` is the account table (id to `phone_number`, which is UNIQUE), `accounts`
the keys of `m.accounts`, `phone` the field `PhoneNumber`, `session` the client the
account holds: none, not connected, its connection broken, connected, logged in.
`asleep`, `dialling`, `loose` and `stray` are the accounts with a sleeping
`autoReconnect` goroutine, with one that has copied `a.client`, with a client let go of
that such a goroutine or the library may still dial, and with such a client connected.
`req` holds the requests in flight: where each stands, with which account and number.
`main` and `todo` are the shutdown.

| code | actions |
|---|---|
| `manager.CreateAccount` | `CreateLookup`, `CreateInsert`, `CreatePublish` |
| `manager.DeleteAccount` | `DeleteLookup`, `DeleteCheck`, `DeleteUnmap`, `DeleteDrop`, `DeleteRow` |
| `manager.UpdatePhoneNumber` | `UpdateLookup`, `UpdateTaken`, `UpdateWrite`, `UpdateMemory` |
| a request that connects (`requireAccount`, then `EnsureConnected`, or `GetQR`) | `ConnectLookup`, `EnsureConnected`, `GetQR` |
| `ShutdownAll`, `srv.Shutdown`, end of `main` | `Stop`, `ShutdownNext`, `CloseServer`, `Goodbye` |
| `DiscoverAccounts` at the start, which may follow a crash at any moment | `Restart` |
| library and phones | `LogIn`, `LoggedOut`, `NetReconnect` |
| `handleEvent` of `Disconnected`; the loop of `autoReconnect`: copy / dial | `Dropped`, `StrayDropped`; `AutoReconnectWake`, `AutoReconnectDial`, `LooseDial` |

Each SQL statement and each section under `m.mu` is an action; requests
interleave between any two. A statement may fail, or (with `LostAnswers`) take
effect and be reported as failed. A restart may fail to read the table; `main`
then goes on with no account.

Three history variables say what excuses an exception: `torn` (the number was
written by two calls whose writes crossed, or by a statement whose answer was
lost), `stranded` (a failed statement left the row behind), `held` (the removed
account's `Disconnect` did not reach everything, `Escapes`: a request was about to
connect it, a goroutine had copied its client, or a client it had let go of was
connected or going to be). They are set where that happens and cleared by the next
undisturbed write or start.

Abstractions: the lookup of the handler and the one of the manager are one
action (`DeleteLookup`, `UpdateLookup`); a request refused at once is no step;
`UpdateAccountName` (the same two writes, without a constraint) and
`SetOnMessage` (nobody calls it) are left out; a UUID is reused once nothing
refers to it, and then its history starts afresh. Goroutines and clients let go of are
not counted: one set each says for which accounts there are any, and what is taken from
it may stay in it, so that there may always be another. The five attempts of
`autoReconnect` are not counted either. `AccountSession` has the session in detail.

- `LoadedHasRow`: an account in memory has its row, which foreign keys need.
- `UnloadedRow`: a row nobody can reach belongs to a call under way or to a
  failed statement.
- `PhoneSettled`: memory and row agree on the number but for the exceptions.
- `RemovedIsDown`: a removed account keeps no connection, of any client it has had,
  unless it is `held`. A goroutine that still sleeps finds no client and ends; one that
  has its copy dials it, and the connection stays until the process ends.

### 2.3 ProxySwitch

One account: the row (`row`), `a.Proxy` (`proxy`), `a.client` (`client`), and for each
client its connection and the proxy it was made with (`conn`, `via`). `SetProxy` and
`DeleteProxy` share the steps `StoreProxy`, `DropClient`, `AssignProxy`; a client may be
made (`prepareClient`, in `Connect` and `GetQR`) between any of them, connections break
(`NetDrop`), the library brings them back (`NetReconnect`), and so does `autoReconnect`:
`AutoReconnectWake` copies `a.client` into `copied`, `AutoReconnectDial` dials the copy,
whether the account still holds it or not. `Route` is what `prepareClient` does with a
configuration that is disabled. `escaped` marks clients made between the two lock
sections of a call and those its `Disconnect` did not reach (`Missed`), `torn` a row and
a field written by crossing calls. A client's slot is used again once the client is not
held, connected or about to be dialled; a client that nobody holds and that is closed
by the library is gone.

- `ProxySettled`: what a restart will use is what this process uses.
- `RouteCurrent`: every connection is on the configured route, also that of a client
  the account has let go of, unless the client has `escaped`.

Not kept: that the next connection uses the new proxy, because of that window and
because a goroutine that has copied the old client dials it at any time later.

### 2.4 SendQuota

`tokenBucket` in exact arithmetic: a tick of the clock refills one unit, a
message costs `Cost` ticks and the bucket holds `Minute` of them (2 s and 60 s
in the code). `allow` is one lock section: `Allow` or `Refuse`. An observer begins
to count at any moment (`since`); `spent` is what was granted from then on, whether
or not the operation then succeeds. The clock starts with the process, since a
restart fills the bucket again. `float64` rounding is left out.

- `WindowBound`: an interval carries at most a bucket and its refill, a minute
  at most twice the number per minute.

`Operations` extends it, and its run and its proofs are where this is checked.

### 2.5 MessagePages

The rows of one chat (`row`: JID and time in seconds of each message) under its
two JIDs, the phone number and the LID. `online` says whether a client is there
whose store maps one to the other. A reader walks: `cursor`, the last `page`, what
it has `seen`, what was `due` when it began. `ListMessages` is one answer: a query
for each JID (`Fetched`, each with `QueryLimit`), the merge, the cut; of several
equally old rows any may be cut. Which queries work is open, except that the first
has to. Cursors are times (REST) or message ids (MCP), whose place among the
times, as strings, is given by `HighIds`.

- `PagesDescend`: a walk goes back in time; nothing is shown twice.
- `LostOnlyTies`: it leaves out only messages of a second at which a page ended,
  provided that the limit is one the query takes, the JIDs are mapped and the
  queries work.

### 2.6 ChatCache

An answer is the set of messages it was computed from. `cache` holds one per key,
with a history flag `stale`: one of its queries or a deletion meant for it failed,
or it was cached after such a deletion. Writers insert, then delete
(`DelChats`, `KeysPages`, `DelPages`); a send deletes only `chats`, a history sync
nothing. Readers miss, query, set; a hit changes nothing and is not a step. With
`Faults` every statement and command may fail. Time to live and eviction are
`Expire`, which is fair; `Flush` is the administrator's request; a crash keeps
Redis and the table and ends everybody else.

- `OmissionExplained`: what an answer lacks will be deleted by its writer, but for
  the named cases.
- `StoredIsShown`: in the end every answer has it, because entries expire, provided
  that queries stop failing.

### 2.7 Webhook

One goroutine per event (`task`): it reads the row once, posts, sleeps. The
receiver may handle a post whose answer is lost (`lied`). `failures` counts what
the sender saw. A crash ends the goroutines and nothing is persisted.

- `GivenUpAfterAll`: an event is given up after all attempts and never after an
  answer below 500.
- `HandledOnce`: it is handled twice only if it was not acknowledged.
- `DispatchEnds`, under `HookFairSpec`: reads, posts (they have a timeout) and sleeps
  end.

The delay itself is not modelled. The switch `webhooks.enabled` of the configuration
file is read by no code.

### 2.8 Access

A variable per column that matters: `role` and `enabled` of `app_user`, `perms`
(`role_permission`, `None` where `role` has no row), `owner` of `api_key`. `admin`
holds requests that write and stand between two statements, `caller` requests on
their way through `Auth`.

| code | actions |
|---|---|
| `CreateUser`, `Register`, `DeleteUser` (keys go along) | one each |
| `UpdateUser`: the read / the write of both columns | `UpdateUser`, `UpdateUserWrite` |
| `CreateRole`, `UpdateRole`, then `SetRolePermissions` | `CreateRole`, `UpdateRole`, `SetRolePermissionsDelete`, `SetRolePermissionsCommit` |
| `DeleteRole`: look and count / delete | `DeleteRole`, `DeleteRoleRow` |
| `Auth`: token, or key and its user / permissions | `AuthToken`, `AuthKey`, `AuthKeyUser`, `AuthPermissions` |
| `CreateAPIKey`, `DeleteAPIKey` | one each |
| end of the process and `seedRoles` | `Restart` |

`SetRolePermissions` runs at read committed: its DELETE works on the rows of its
beginning (`target`); if another such transaction commits first, those rows are gone,
the new ones are not seen (`late`), and the inserts succeed if they meet none of them.
A first look whose answer the next statement gives again, by its WHERE clause or a
foreign key (the role in `CreateUser` and `UpdateUser`, the row in the DELETE handlers),
is no step of its own. A token is not stored: who is enabled can log in, and a token of
somebody who is not is refused, so that `AuthToken` needs none.

Histories: `ordered` and `given` are what was last asked for, or `None` where the code
cannot keep it; `since` is what the caller's user has been since the request began.

- `References`: rows refer to rows that exist, and the built-in roles stay.
- `EnabledSettled`: a flag is lost only to an `UpdateUser` that had read the old one.
- `PermissionsSettled`: a role has what it was given last, unless transactions crossed
  or a start seeded it.
- `FreshRights`: what was revoked before a request began does not let it in.

`PermissionsSettled` has no exception for built-in roles: an `UpdateRole` of one is
carried out like any other, which is not what the API's description says (section 5).

### 2.9 Handlers and Operations

The REST handlers of `handler/whatsapp.go` and the tools of
`mcpserver/server.go` are written once, in `Handlers`, as sets of sequences of steps:
one operator per function, or per group of functions that take the same steps, put
together with `**` as the code puts them together with calls. `Maybe` is what a
request may have or not. Contents are left out; what is kept is when a request looks
at the session, waits under `a.mu`, asks the limiter, changes something, reads back
and answers. `Compound` are the sequences with something that can fail behind a
change.

`Operations` runs them: each slot of `Requests` holds a program and how far it is.

| code | actions |
|---|---|
| `RateLimit` around the REST routes; net/http and `WithRecovery` | `Arrive`, `Shed`, `Leave`, `Panic`, `Succeed` |
| permission, account, arguments, queries | `Judge` (may refuse), `BestEffort` (cannot), `Look` |
| `HasStoredCredentials`; `EnsureConnected`, `Connect`; the dial under `a.mu` | `HasStoredCredentials`, `Connect`, `Dial` |
| `GetQR`, `PairPhone`, `Logout` | `PrepareQR` and `Dial`, `RequestCode`, `LogOut` |
| `requireConnectedClient`, `sendLimiter.allow` | `requireConnectedClient`, `AskLimiter` |
| the operation on the client that was handed out | `Tell` (made; the reply may be lost), `Refused` |
| callbacks, goroutines, phones, other accounts | `SessionMoves`, any step of `Session` |

`session` is the abstract session of the account. What a handler does to it is one of
the moves `Session` names (`Prepared`, `Opened`, `LetGo`), and between any two steps
of a request it may make any move at all, unless a dial holds the lock. That this
covers what the real session does is the refinement of section 2.1.

The run takes its requests from three mixes (`mix`): any one request alone with a
session that moves; the requests that link and unlink, two at a time; two messages at
a time while the clock runs. The proofs have no mixes in them.

- `SendBound`: the limiter grants, and what was granted goes out later: in any
  interval WhatsApp gets a bucket, its refill, and one message per request in flight.
- `AnswersTrue`: who is answered with an error may send the request again, unless
  WhatsApp's reply was lost or the request is `Compound`; a success has been made.
- `SlotsHeld`: the semaphore's count is the number of REST requests in flight, also
  after errors, shed requests and panics.
- `NoFirstCodeByRest`: REST gives no linking code to an account that never had
  credentials, which is not what the API's description says (section 5).

### 2.10 UserRows

What hangs on the row of a user: `password` (the call that set it), `token` (the reset
token a call inserted: whose, used, expired), `subscription`; and `plan`, whose columns
hold the call that wrote them. A call is a sequence of statements without a
transaction; each takes effect, fails, or (with `LostAnswers`) takes effect and ends
its call in an error because the answer is lost (`Lost`, remembered in `lost`). Foreign
keys are part of it.

| code | actions |
|---|---|
| `ForgotPassword`: the user / `CreateResetToken`: UPDATE, INSERT / the mail | `ForgotPassword`, `InvalidateTokens`, `InsertToken`, `SendToken` |
| `ResetPassword`: the token / the password / the mark | `ResetPassword`, `UpdateUserPassword`, `MarkResetTokenUsed` |
| `UpdateUser`: the user / password / email, role, flag | `UpdateUser`, `UpdateUserPassword`, `UpdateUserOthers` |
| `DeleteUser`, with ON DELETE CASCADE | `DeleteUser`, `DeleteUserRow` |
| `CreatePlan`, `AssignPlan`, `DeleteSubscription` | `CreatePlan` + `CreatePlanRow`, ... |
| `UpdatePlan`: the row / every column | `UpdatePlan`, `UpdatePlanRow` |
| `DeletePlan`: the count / the DELETE | `DeletePlan`, `CountSubscriptions`, `DeletePlanRow` |
| end of the process and `seedPlans` | `Restart` |
| an hour (external) | `Expire` |

Two statements have an error the code drops, the UPDATE of older tokens and the mark;
a third, the count, reads zero when it fails. Such a call carries `slip`. `met` is the
set of calls a call has run beside, `asked` what was last asked of a column.

- `References`: a subscription has its user and its plan, a token its user; the
  foreign key decides where `DeletePlan`'s count has become stale.
- `TokensSettled`: of a user's tokens one works, and of the resets answered "ok" no two
  had the same, unless the two calls met or one of them slipped. A reset that gets no such
  answer leaves its token usable for another, which is not excluded: a crash between the
  password (auth.go:287) and the mark (auth.go:293), or a lost answer of the former.
- `PlanSettled`: a column is as last asked for, unless an `UpdatePlan` of something
  else was under way then.
- `ErrorKeepsPassword`: an error means an unchanged password, unless the answer of that
  very UPDATE was lost, or an `UpdateUser` asks for more than a password.

### 2.11 Not modelled

- No execution reaches it: `agent/` (nothing makes an agent), `IncrementUsage`,
  `EnsureUserSubscription`, `GetUserPlanLimits`, `CountUserAccounts` (so that limits of
  plans are stored and not enforced), `Account.Reset`, `DownloadMedia`,
  `UpdateUserUsername`, `SetOnMessage`.
- Pure functions of one request, which tests reach: the order of authenticators,
  wildcards in `HasPermission`, `MCPScope`, CORS, `phoneMatches`, parsing of arguments.
- The lists that `ListChats` merges from groups, contacts and messages; reports on
  usage; contents of tokens and mails and the SMTP conversation.
- Read or run once: configuration, migrations. Data without behaviour: routes, the
  OpenAPI file, the JSON model.

## 3. Runs

| run | instance | shows |
|---|---|---|
| `faults` | 1 account, 2 numbers, 2 clients, 1 worker, 2 delays, one of each upset | the safety properties in all orders of every kind of upset |
| `two` | 2 accounts on one store, a pairing, an unlinking | accounts crossing each other's devices: their clients stay apart, their sessions move as `Session` says |
| `progress` | 1 account, FairSpec | rejection happens, requests end |
| `crossings` | 1 account, 2 numbers, 3 requests at a time, lost answers | the registry's invariants under any three crossing requests, failures, connections that break, `autoReconnect`, restarts and shutdown |
| `calls` | 3 calls, 1 enabled and 1 disabled proxy, 2 clients, lost answers | the proxy's invariants, with connections that break and `autoReconnect` |
| `requests` | 2 slots, 3 mixes of requests, 1 REST request at a time, `Cost` 2, `Minute` 3, 3 ticks | every handler and tool on a session that moves; limiter, slots and answers |
| `walk` | 3 messages, 3 seconds, 2 JIDs, pages of 2 | the two invariants of a walk, with ties, late rows and failing queries |
| `races` | an incoming and a sent message, 1 reader, 1 page, faults, FairSpec | the invariant of the cache, and that what is stored is shown |
| `deliveries` | 2 events, 2 retries, HookFairSpec | attempts, duplicates, termination |
| `overlaps` | 2 administrators, 1 caller, 1 user, 2 roles, 1 key, 1 permission, restarts | what overlapping changes do to rows and to who is let in |
| `rows` | 1 user, a built-in plan, 2 columns, 3 calls of any kind, lost answers, restarts | what overlapping calls, dropped errors and lost answers do to tokens, passwords, plans and subscriptions |
| `NoRejectedRedial` | the smallest instance with the counterexample | the finding of that name |

Why the bounds are enough: the properties relate one account's client to one
event, goroutine or request, so one account with two numbers (right and wrong)
shows each pairing of actors; two accounts show what the shared store adds.
In `crossings` there is one account: accounts meet only where a
number has to be unique, no property is about two of them, and the proofs are for any
number; a third request shows an update or a removal that comes between two others.
Two clients are the one held and the one left behind; two delays have a first
and a last attempt. In `races` the sent message stands for history too (nobody
deletes the page either leaves stale); more readers are left to the proof. In
`requests` one REST request at a time is enough to fill the semaphore and shed
another; a bucket of one message and a half runs empty and refills within the clock.
In `rows` three calls are two that race and one that comes before, between or after.
The theorems remove all these bounds.

`ProxySwitch` and `MessagePages` have their type invariant as the theorem `TypeCorrect` of
their proofs, `ChatCache` as `CacheTypeCorrect` of `EventProofs`, and `Webhook` as
`HookTypeOK` within its inductive invariant `HookInv`: none of the four is in a run.

## 4. Proofs

For any sets of accounts, numbers, clients and goroutines, any number of retries
and any budget, from the four assumptions on constants that the module states:

- `TypeCorrect`: `Spec => []TypeOK`.
- `ClientsStayApart`: `Spec => []OwnClient`.
- `DialTargetSafe`: `Spec => []DialTarget`.
- `MismatchNoticed`, `DropNoticed`, `OrphansNeedDrops`: the three covering
  invariants.
- `SessionsStored`: `SessionStored`, from the assumption that the store has one account,
  without which it is false. For any number of them, `RowsLostToOthers` says how an account
  that is up loses its row: by the step of another that deletes rows of the shared store.
- `RequestsShrink`, `GoroutinesShrink`: the steps a request or a goroutine of
  `autoReconnect` has left go down with each of its own and are never given back.

`TypeOK` and `OwnClient` are not inductive. `TInv` adds what ties the parts
together: `WorkerOK` (a sleeping goroutine has an account and no client, a
dialling one has both), `CallOK` (only a request in use holds a client),
`OwnerKnown` (a client with a socket, and an event, have an owner), `MuOK` (a
held lock belongs to a request that connects, or to GetQR, with a client in
place). `TInvStep` proves it step by step, one action at a time, with a lemma
for each helper that writes several variables (`PrepareTypes`,
`ServerUnlinkTypes`, ...). `DialInv` adds that the client being dialled under the
lock is dialled by nobody else and is closed; `DialExclusive` is the reason: no
request or goroutine refers to a client that `prepareClient` has just made.
`NoDropInv` says what the world looks like before the first drop, from which
`OrphanNeedsDrop` follows. Each of the covering invariants is then inductive
relative to `TInv`.

`SessionsStored` needs two facts: the servers accept the device of every client that is
online (`OnlineLinked`), and a client that is held and accepted has its row
(`SessionKept`), which an account deletes only as it lets the client go.
`RequestsShrink` needs that a lock held by `Connect` is the connecting request's
(`ConnectsUnderLock`).

`SessionImplemented` is the refinement, `Spec => Abs!Spec`: an account whose client is
not up asks nothing of a step (`UpRuleMoves`), so that all there is to prove of each
action is `UpRule`: a client that is up afterwards was the account's before, and has the
device it had, or was up and got one.

The registry's invariants hold for any accounts, numbers and requests in flight
(`AccountRegistryProofs`: `LoadedRows`, `UnloadedRows`, `PhonesSettle`,
`RemovedAreDown`). `IInv` adds to them what the requests promise each other:
`PublishAlone` (an account about to enter the map is referred to by nobody
else), `Removed` (a request past `DeleteUnmap` works on an account that has left
the map), `TornOK` (an account that is not torn has at most one call between its
writes, and its row holds what that call sets),
`Connecting` (a connecting request's account is in the map, being removed, or
`held`) and `Quiet`, which strengthens `RemovedIsDown`: an account that is removed and not
`held` has no client that is connected or that anybody is going to dial. Without the last
half the invariant is not inductive, since a goroutine with a copy makes the connection
later. The step that needs all of them is `CreateInsert`, where a fresh id must carry
nothing of its last use.

`ProxySwitchProofs` (`ProxySettles`, `RouteStaysCurrent`): `HalfwayOK` says that
while nothing is torn at most one call is between its writes, and the row holds
what it sets; `WindowOK` that while a call is about to assign, every client that is held,
connected or about to be dialled (`InUse`) has `escaped`; `RouteOK`, which strengthens
`RouteCurrent`, that a client in use has the configured route or has `escaped`, whether or
not it is connected yet.

`OperationsProofs` (`OpTypeCorrect`, `WindowsBounded`, `SendsBounded`,
`AnswersAreTrue`, `SlotsAreHeld`, `NoFirstCode`, `SessionRespected`, `DialsExclusive`),
for any number of slots, any limit, rate, capacity and horizon, and any mix. Its first
half is about `Handlers` alone.
`Programs` says what every sequence of `RestHandlers` and `Tools` is like: it sends at
most once and asks the limiter before (`Limited`), what `HasStoredCredentials` and
`EnsureConnected` may skip is neither a grant nor a change and ends with a network call,
a network call comes right behind the step that prepares it (`Whole`, `Fits`), and nothing
that can fail follows a change unless it is `Compound`. It is proved over the way the
sequences are put together: joining two that only read (`JoinReading`), that change
but do not send (`JoinChanging`), or one that reads and one that ends in a message or a
change (`JoinFinal`). The second half says what a step may do to one
slot (`RequestSteps`), and then:

- `RequestInv`: `Good(q)`, a request under way has changed something exactly if it has
  passed a change.
- `QuotaInv`: what was granted since the observer counts, plus what the bucket holds,
  never exceeds a full bucket plus the time passed.
- `SendInv`: what reached WhatsApp, plus a message for each request that holds a grant
  (`Holders`), was granted, or belongs to a request that was in flight when the
  observer began.
- `SlotsInv`: the semaphore counts the REST requests; cardinalities by way of
  `FiniteSetTheorems`.
- `CodeInv`: a REST `PairPhone` past its third step has seen stored credentials.
- `DialsAlone`, inductive with `RequestInv`: a network call under `a.mu` is made by one
  request at a time and about the client it has prepared. A request gets there through
  `Connect` or `PrepareQR` only (`DialBegins`, `DialPrepared`), both of which need the lock;
  while it is there no step moves the session but its own (`DialUndisturbed`). The lock is
  no variable of the model but read off the programs (`LockFree`), so that it excludes what
  it should only because no program reaches a network call by another way (`Fits`).

`SessionRespected` is the other side of `SessionImplemented`: each step of `Operations`
moves the session as `Session` lets it, `Spec` for `Spec` on an empty store
(`OperationsImplementSession`). So `AccountSession` keeps what `Operations` assumes of a
session, and `Operations` does nothing to one that the contract rules out.

`MessagePagesProofs` (`WalkDescends`, `WalkLosesTiesOnly`): for any number of
messages, JIDs and any limit. `CursorOK` ties the cursor to what was shown. The
heart is `PageComplete`: a row before the cursor that is not on the page is no
newer than anything on it. If it was fetched, the cut prefers newer rows; if not,
its JID returned a full page of rows at least as new, which the cut would have
kept together with the older one, one row too many.

`EventProofs` is about what happens to an event that has arrived. For `ChatCache`
(`OmissionsExplained`, `ShownForGood`), `OmissionExplained` is inductive with the types.
`DeletionStep` handles the three deletions at once: an entry that is still there
afterwards either was not meant, or is marked by the failure (`KeptFacts`).
`ShownForGood` is what `StoredIsShown` says without fairness: from a state in which every
answer about a key shows a message (`Settled`), only a query that fails leads back. For
`Webhook` (`GivenUpLast`, `HandledOnlyOnce`, `HandledBounded`, `DispatchShrinks`), any
number of events, configurations and retries: `HookInv` counts the failed posts of a
goroutine by where it stands (`AttemptsOK`) and what the receiver has handled by the
posts (`HandledOK`, `PostsOK`). `DispatchShrinks` is the variant of `DispatchEnds`: the
steps left, a number the configuration fixes, go down with each step of the goroutine and
never up.

`AccessProofs` (`ReferencesHold`, `EnabledSettles`, `PermissionsSettle`,
`RightsAreFresh`): the first three need what requests hold between two statements.
`HeldOK`: the role about to be deleted is not built in, an update that asks for a flag
holds it. `FlagOK`: one that asks for none holds the row's, unless one was asked for
meanwhile. `TargetOK`: a transaction nobody overtook deletes all its role has. Together
with the properties these are inductive (`IInv`). `ReadOK` says the same for a caller
whose user has been read; that `since` only grows (`SinceGrows`) does the rest.

`UserRowsProofs` (`TypeCorrect`, `ReferencesHold`, `ErrorsKeepPasswords`, `PlansSettle`,
`TokensSettle`). `Sound` is what a call holds at each of its steps; `RequestKept` and
`Meetings` say that what it asks for stays and who it met stays met. Then `PasswordInv`:
a call whose password stands has passed its statement (`Wrote`): it ended there because
the answer was lost, it is a reset, which can end in an error no more, or an `UpdateUser`
of several parts. `PlanInv`: what a running `UpdatePlan` will write back is what was asked for
last, or somebody asked in between and the two have met (`ReadCurrent`, `Witness`).
`TokenInv`: behind a successful UPDATE the user's working tokens are those of calls it
has met (`Watched`), so that its INSERT adds none to a stranger's (`Single`); a token
that a finished reset has marked does not open again (`Spent`), so that whoever else
holds it began before the mark (`Raced`). Two more follow from it: a token that does not
work stays so (`TokensStayShut`), and behind a reset that ended well it does not
(`DoneResetsShut`).

Model-checked only: the four liveness properties, because the proof system has no rule
for fairness here, and `NoRejectedRedial`, a single counterexample. What can be said of
them without fairness is proved: no step undoes the progress they are about
(`RequestsShrink`, `DispatchShrinks`; `ShownForGood`, but for a query that fails), and for
`MismatchDropped` there is always somebody left to act (`MismatchNoticed`). What TLC adds
is that the step is taken.

## 5. What the code does not keep

`findings` quotes three statements. A comment says that after a rejection
"autoReconnect will not retry" (account.go:1836), and TLC ends `NoRejectedRedial` with a
retry. The other two are the first rows of the table: there a property that holds
shows what the code does instead. The other rows have no finding of their own; the action
or history variable in brackets is where a model shows it.

| said | code |
|---|---|
| "Request a linking code to enter on the phone" (openapi.json:685) | an account that was never linked is answered 409 (whatsapp.go:96, health.go:62), and one that is linked gets no code (account.go:347): `NoFirstCodeByRest` |
| "Built-in roles (admin, user) cannot be modified" (openapi.json:1169) | `UpdateRole` does not look at `IsBuiltin` (roles.go:176): `PermissionsSettled` has no exception for them |
| "isolated sessions" (README.md:5) | `rejectMismatch` of one account deletes the stored sessions of all (account.go:1851) |
| "isolated sessions" (README.md:5) | a second account's `prepareClient` logs in as the companion the first one paired (account.go:197) |
| "the user linked the wrong device -- disconnect immediately" (account.go:1798) | requests send from the wrong number until `rejectMismatch` runs, and it logs out whatever client the account has by then (account.go:1842) |
| the rejected flag is reset "so the user can try pairing again" (account.go:167) | in `Connect`, not in `GetQR`, which pairs (account.go:284) |
| "disconnects after idle_timeout" (docs/architecture.md:76) | no such goroutine |
| "disconnects so the next connect uses it" (manager.go:240) | a connection made between the two lock sections of `SetProxy` keeps the old proxy, and `autoReconnect` dials an old client it has copied (`escaped` of `RouteCurrent`) |
| "replaces all permissions for a role" (database.go:758) | two calls that cross leave the permissions of both (`late` of `SetRolePermissionsCommit`) |
| "updates the phone number in memory and DB" (manager.go:212) | two calls that cross leave a number each (`torn` of `PhoneSettled`) |
| "still linked to WhatsApp -- unlink the session first" (manager.go:164) | an account that logs in between check and removal is deleted (`DeleteCheck`, `DeleteUnmap`) |
| "Graceful shutdown of all connections" (docs/architecture.md:69) | a request served after `ShutdownAll`'s snapshot connects (`EnsureConnected` after `Stop`) |
| "Token bucket (30 msg/min) for send operations" (docs/architecture.md:80) | `SendReaction` and `RevokeMessage` do not ask (account.go:724) |
| "RFC3339 cursor for pagination" (openapi.json:704) | the rest of the cursor's second is skipped (`cuts` of `LostOnlyTies`) |
| "message history is local -- no connection needed" (handler/messages.go:24) | without a client only one of the two JIDs is read (`offline`) |
| "Cursor: message ID to paginate before" (mcpserver/server.go:529) | it is compared with times |
| "retries with exponential back-off", "configurable" (docs/architecture.md:81) | the delay grows linearly, and 0 retries mean 3 |

## 6. Plan

In order:

1. `AccountSession`, `AccountRegistry`, `ProxySwitch`, `SendQuota`, `MessagePages`,
   `ChatCache`, `Webhook`, `Access`: done.
2. `Session`, and `AccountSession` shown to implement it: done.
3. `Handlers` and `Operations`, on top of `Session` and `SendQuota`: done.
4. `UserRows`, reset tokens, passwords, plans and subscriptions: done.
5. Left: `AccountRegistry` on top of `Session` instead of its own five states; keys
   bound to accounts with `MCPScope`; the order of authenticators and the wildcard
   match of permissions as operators against reference definitions.
6. When something calls them: the agent's histories, the usage counts and the default
   subscription.
