------------------------------- MODULE Access -------------------------------
(***************************************************************************)
(* Users, roles, permissions and API keys, and the requests that are let   *)
(* in by them: handler/users.go, roles.go, apikeys.go, Login and Register  *)
(* of handler/auth.go, Auth of middleware/middleware.go, and the tables    *)
(* they share in database/database.go.                                     *)
(*                                                                         *)
(* Handlers are sequences of statements without a transaction;             *)
(* SetRolePermissions is one, at PostgreSQL's default level (read          *)
(* committed).  A statement is a step, except a first look whose answer    *)
(* the next one's WHERE clause or constraint gives again.  The names of    *)
(* users and roles, whose UNIQUE constraints decide alone, passwords and   *)
(* emails are left out, and so are the secret key, which reads no table,   *)
(* the expiry of tokens and keys, and the accounts keys may be bound to.   *)
(***************************************************************************)
EXTENDS Naturals

CONSTANTS Users, Roles, Keys,   \* ids of rows (reused once nothing refers to them)
          Builtin,      \* the roles of seedRoles
          Default,      \* "builtin-user", the role of who registers
          Perms,        \* what hasPermission tells apart
          Seed,         \* the permissions seedRoles gives each built-in role
          Admins,       \* slots for requests that change users and roles
          Callers,      \* slots for requests with a session token or an API key
          None          \* no row, nothing asked

ASSUME BuiltinAssumption == Builtin \subseteq Roles /\ Default \in Builtin
ASSUME SeedAssumption == Seed \in [Builtin -> SUBSET Perms]
ASSUME NoneAssumption ==
    None \notin Users \cup Roles \cup BOOLEAN /\ \A S \in SUBSET Perms : None # S

VARIABLES
    role,       \* app_user: role_id
    enabled,    \* app_user: enabled
    perms,      \* role_permission of each row of role
    owner,      \* api_key: user_id
    admin,      \* requests that write: what comes next, and what they hold
    caller,     \* requests on their way through Auth
    ordered,    \* history: the last "enabled" somebody asked for, None if that was done
                \*   while another update, which asks for no such thing, was under way
    given,      \* history: the permissions the last SetRolePermissions gave, None if it
                \*   had begun before another one committed or seedRoles has added some
    since       \* history: what a caller's user was since the request began

tables == <<role, enabled, perms, owner>>
histories == <<ordered, given>>
vars == <<tables, admin, caller, histories, since>>

IdleAdmin == [pc |-> "idle", user |-> None, role |-> None, flag |-> None,
              asks |-> None, set |-> {}, target |-> {}, late |-> FALSE]
IdleCaller == [pc |-> "idle", user |-> None, role |-> None, granted |-> {}]
Nothing == [enabled |-> FALSE, roles |-> {}, rights |-> {}]

AdminState ==
    [pc : {"idle", "writeUser", "delete", "commit", "deleteRole"}, user : Users \cup {None},
     role : Roles \cup {None}, flag : BOOLEAN \cup {None}, asks : BOOLEAN \cup {None},
     set : SUBSET Perms, target : SUBSET Perms, late : BOOLEAN]
CallerState ==
    [pc : {"idle", "user", "perms", "admitted"}, user : Users \cup {None},
     role : Roles \cup {None}, granted : SUBSET Perms]
Since == [enabled : BOOLEAN, roles : SUBSET Roles, rights : SUBSET Perms]

At(a, pc) == admin[a].pc = pc

RowsOK ==
    /\ role \in [Users -> Roles \cup {None}]
    /\ enabled \in [Users -> BOOLEAN]
    /\ perms \in [Roles -> {None} \cup SUBSET Perms]
    /\ owner \in [Keys -> Users \cup {None}]
    /\ ordered \in [Users -> BOOLEAN \cup {None}]
    /\ given \in [Roles -> {None} \cup SUBSET Perms]

RequestsOK ==
    /\ admin \in [Admins -> AdminState]
    /\ caller \in [Callers -> CallerState]
    /\ \A a \in Admins :
         /\ At(a, "writeUser") => admin[a].user \in Users /\ admin[a].flag \in BOOLEAN
         /\ ~At(a, "idle") => admin[a].role \in Roles
    /\ \A c \in Callers :
         /\ caller[c].pc # "idle" => caller[c].user \in Users
         /\ caller[c].pc = "perms" => caller[c].role \in Roles

TypeOK == RowsOK /\ RequestsOK /\ since \in [Callers -> Since]

\* A new database: the built-in roles, whose permissions are seeded, and nobody.
Init ==
    /\ role = [u \in Users |-> None]
    /\ enabled = [u \in Users |-> FALSE]
    /\ perms = [r \in Roles |-> IF r \in Builtin THEN Seed[r] ELSE None]
    /\ owner = [k \in Keys |-> None]
    /\ admin = [a \in Admins |-> IdleAdmin]
    /\ caller = [c \in Callers |-> IdleCaller]
    /\ ordered = [u \in Users |-> FALSE]
    /\ given = [r \in Roles |-> IF r \in Builtin THEN Seed[r] ELSE {}]
    /\ since = [c \in Callers |-> Nothing]

-----------------------------------------------------------------------------
HasUser(u) == role[u] # None
HasRole(r) == perms[r] # None
FreshUser(u) ==
    /\ ~HasUser(u)
    /\ \A a \in Admins : admin[a].user # u
    /\ \A c \in Callers : caller[c].user # u
FreshRole(r) ==
    /\ ~HasRole(r)
    /\ \A a \in Admins : admin[a].role # r
    /\ \A c \in Callers : caller[c].role # r

Done(a) == admin' = [admin EXCEPT ![a] = IdleAdmin]
Begin(a, pc, u, r, f, asks, S) ==
    /\ At(a, "idle")
    /\ admin' = [admin EXCEPT ![a] = [IdleAdmin EXCEPT !.pc = pc, !.user = u, !.role = r,
                                        !.flag = f, !.asks = asks, !.set = S]]
    /\ UNCHANGED <<tables, caller, histories>>

\* A statement fails, or the request is refused: it is over.
Fail(a) ==
    /\ ~At(a, "idle")
    /\ Done(a)
    /\ UNCHANGED <<tables, caller, histories>>

-----------------------------------------------------------------------------
(* Users.                                                                  *)

\* INSERT INTO app_user, whose role_id refers to a row of role.
InsertUser(u, r) ==
    /\ HasRole(r)
    /\ role' = [role EXCEPT ![u] = r]
    /\ enabled' = [enabled EXCEPT ![u] = TRUE]
    /\ ordered' = [ordered EXCEPT ![u] = TRUE]
    /\ UNCHANGED <<perms, owner, given>>

\* CreateUser: any role.
CreateUser(u, r) ==
    /\ FreshUser(u)
    /\ InsertUser(u, r)
    /\ UNCHANGED <<admin, caller>>

\* Register: the default role, and no look.
Register(u) ==
    /\ FreshUser(u)
    /\ InsertUser(u, Default)
    /\ UNCHANGED <<admin, caller>>

\* (mutant: an update that asks for no "enabled" disables)
UpdateUser_NoFlag(a, u, r, f) ==
    /\ HasUser(u)
    /\ r # None \/ f # None
    /\ Begin(a, "writeUser", u, IF r = None THEN role[u] ELSE r, f = TRUE, f, {})

\* (mutant: what the request leaves out is written as it came)
UpdateUser_Raw(a, u, r, f) ==
    /\ HasUser(u)
    /\ r # None \/ f # None
    /\ Begin(a, "writeUser", u, IF r = None THEN role[u] ELSE r, f, f, {})

\* UpdateUser reads the row; what the request leaves out is taken from it.
UpdateUser(a, u, r, f) ==
    /\ HasUser(u)
    /\ r # None \/ f # None
    /\ Begin(a, "writeUser", u, IF r = None THEN role[u] ELSE r,
             IF f = None THEN enabled[u] ELSE f, f, {})

\* An update of u that asks for no "enabled" holds the one it read.
HoldsFlag(a, u) ==
    At(a, "writeUser") /\ admin[a].user = u /\ admin[a].asks = None

\* UPDATE app_user, both columns; of a row that is gone it changes nothing.
UpdateUserWrite(a) ==
    LET u == admin[a].user
        asks == admin[a].asks
    IN
    /\ At(a, "writeUser")
    /\ \/ /\ HasUser(u) /\ HasRole(admin[a].role)
          /\ role' = [role EXCEPT ![u] = admin[a].role]
          /\ enabled' = [enabled EXCEPT ![u] = admin[a].flag]
          /\ \/ asks = None /\ UNCHANGED ordered
             \/ /\ asks # None
                /\ ordered' = [ordered EXCEPT ![u] =
                                 IF \E b \in Admins : HoldsFlag(b, u) THEN None ELSE asks]
       \/ ~HasUser(u) /\ UNCHANGED <<role, enabled, ordered>>
    /\ Done(a)
    /\ UNCHANGED <<perms, owner, caller, given>>

\* DeleteUser, which takes the user's keys along (and fails while accounts refer to
\* the user).
DeleteUser(u) ==
    /\ HasUser(u)
    /\ role' = [role EXCEPT ![u] = None]
    /\ enabled' = [enabled EXCEPT ![u] = FALSE]
    /\ owner' = [k \in Keys |-> IF owner[k] = u THEN None ELSE owner[k]]
    /\ ordered' = [ordered EXCEPT ![u] = FALSE]
    /\ UNCHANGED <<perms, admin, caller, given>>

-----------------------------------------------------------------------------
(* Roles.                                                                  *)

\* CreateRole inserts the row, then gives it permissions, if any, in a transaction.
CreateRole(a, r, S) ==
    /\ FreshRole(r)
    /\ perms' = [perms EXCEPT ![r] = {}]
    /\ given' = [given EXCEPT ![r] = {}]
    /\ At(a, "idle")
    /\ admin' = [admin EXCEPT ![a] = IF S = {} THEN IdleAdmin ELSE
                   [IdleAdmin EXCEPT !.pc = "delete", !.role = r, !.set = S]]
    /\ UNCHANGED <<role, enabled, owner, caller, ordered>>

\* UpdateRole reads the row, updates name and description, and sets permissions.
UpdateRole(a, r, S) ==
    /\ HasRole(r)
    /\ Begin(a, "delete", None, r, None, None, S)

\* SetRolePermissions: the DELETE sees the rows of this moment.
SetRolePermissionsDelete(a) ==
    LET r == admin[a].role IN
    /\ At(a, "delete")
    /\ admin' = [admin EXCEPT ![a].pc = "commit",
                              ![a].target = IF HasRole(r) THEN perms[r] ELSE {}]
    /\ UNCHANGED <<tables, caller, histories>>

\* (mutant: the old permissions stay)
Replaced_Added(r, target, S) == [perms EXCEPT ![r] = @ \cup S]

\* The permissions of r once the transaction has deleted target and inserted S.
Replaced(r, target, S) == [perms EXCEPT ![r] = (@ \ target) \cup S]

\* Its INSERTs and COMMIT, when no row is there already.  A transaction that began
\* before and waits for these rows finds them gone and does not see the new ones.
SetRolePermissionsCommit(a) ==
    LET r == admin[a].role
        S == admin[a].set
        target == admin[a].target
        waits(b) == b # a /\ At(b, "commit") /\ admin[b].role = r
    IN
    /\ At(a, "commit")
    /\ HasRole(r)
    /\ S \cap (perms[r] \ target) = {}
    /\ perms' = Replaced(r, target, S)
    /\ admin' = [b \in Admins |->
                   IF b = a THEN IdleAdmin
                   ELSE IF waits(b) THEN [admin[b] EXCEPT !.target = @ \ target,
                                                          !.late = TRUE]
                   ELSE admin[b]]
    /\ given' = [given EXCEPT ![r] = IF admin[a].late THEN None ELSE S]
    /\ UNCHANGED <<role, enabled, owner, caller, ordered>>

\* (mutant: built-in roles can be deleted)
DeleteRole_Builtin(a, r) ==
    /\ HasRole(r)
    /\ \A u \in Users : role[u] # r
    /\ Begin(a, "deleteRole", None, r, None, None, {})

\* DeleteRole reads the row, refuses a built-in one, and counts the users.
DeleteRole(a, r) ==
    /\ HasRole(r)
    /\ r \notin Builtin
    /\ \A u \in Users : role[u] # r
    /\ Begin(a, "deleteRole", None, r, None, None, {})

\* DELETE FROM role, which takes the permissions along and which a user of the role
\* that has appeared since makes fail.
DeleteRoleRow(a) ==
    LET r == admin[a].role IN
    /\ At(a, "deleteRole")
    /\ \A u \in Users : role[u] # r
    /\ perms' = [perms EXCEPT ![r] = None]
    /\ given' = [given EXCEPT ![r] = {}]
    /\ Done(a)
    /\ UNCHANGED <<role, enabled, owner, caller, ordered>>

-----------------------------------------------------------------------------
(* Callers.                                                                *)

CallerTo(c, rec) == caller' = [caller EXCEPT ![c] = rec]
OnlyCaller == UNCHANGED <<tables, admin, histories>>

\* (mutant: who holds a token or a key is let in although disabled)
AuthUser_Disabled(c, u) ==
    /\ HasUser(u)
    /\ CallerTo(c, [IdleCaller EXCEPT !.pc = "perms", !.user = u, !.role = role[u]])
    /\ OnlyCaller

\* GetUser; without a row that is enabled the request is refused.
AuthUser(c, u) ==
    /\ HasUser(u) /\ enabled[u]
    /\ CallerTo(c, [IdleCaller EXCEPT !.pc = "perms", !.user = u, !.role = role[u]])
    /\ OnlyCaller

\* Auth, with a session token: Login gives one to who is enabled, and all it says is
\* who the user is.
AuthToken(c, u) ==
    /\ caller[c].pc = "idle"
    /\ AuthUser(c, u)

\* Auth, with an API key: the key is looked up, then its user.
AuthKey(c, k) ==
    /\ caller[c].pc = "idle"
    /\ owner[k] # None
    /\ CallerTo(c, [IdleCaller EXCEPT !.pc = "user", !.user = owner[k]])
    /\ OnlyCaller

AuthKeyUser(c) ==
    /\ caller[c].pc = "user"
    /\ AuthUser(c, caller[c].user)

\* GetRolePermissions of the role that was read.
AuthPermissions(c) ==
    LET r == caller[c].role IN
    /\ caller[c].pc = "perms"
    /\ CallerTo(c, [caller[c] EXCEPT !.pc = "admitted",
                                     !.granted = IF HasRole(r) THEN perms[r] ELSE {}])
    /\ OnlyCaller

\* The request is answered: refused, or served whatever RequirePermission said.
Answer(c) ==
    /\ caller[c].pc # "idle"
    /\ CallerTo(c, IdleCaller)
    /\ OnlyCaller

\* CreateAPIKey: a key of the caller's user, who has to have a row still.
CreateAPIKey(c, k) ==
    /\ caller[c].pc = "admitted" /\ caller[c].granted # {}
    /\ owner[k] = None
    /\ HasUser(caller[c].user)
    /\ owner' = [owner EXCEPT ![k] = caller[c].user]
    /\ CallerTo(c, IdleCaller)
    /\ UNCHANGED <<role, enabled, perms, admin, histories>>

\* DeleteAPIKey: the caller's own, or anybody's for who has every permission.
DeleteAPIKey(c, k) ==
    /\ caller[c].pc = "admitted" /\ caller[c].granted # {}
    /\ owner[k] = caller[c].user \/ caller[c].granted = Perms
    /\ owner' = [owner EXCEPT ![k] = None]
    /\ CallerTo(c, IdleCaller)
    /\ UNCHANGED <<role, enabled, perms, admin, histories>>

-----------------------------------------------------------------------------
\* Every start inserts the built-in roles and what is missing of their permissions.
Reseeded ==
    [r \in Roles |-> IF r \in Builtin THEN Seed[r] \cup (IF HasRole(r) THEN perms[r] ELSE {})
                                      ELSE perms[r]]

\* The process dies, the transaction under way with it, and starts again.
Restart ==
    /\ perms' = Reseeded
    /\ given' = [r \in Roles |-> IF Reseeded[r] = perms[r] THEN given[r] ELSE None]
    /\ admin' = [a \in Admins |-> IdleAdmin]
    /\ caller' = [c \in Callers |-> IdleCaller]
    /\ UNCHANGED <<role, enabled, owner, ordered>>

AdminStep(a) ==
    \/ \E u \in Users, r \in {None} \cup Roles, f \in {None} \cup BOOLEAN : UpdateUser(a, u, r, f)
    \/ \E r \in Roles, S \in SUBSET Perms : CreateRole(a, r, S) \/ UpdateRole(a, r, S)
    \/ \E r \in Roles : DeleteRole(a, r)
    \/ UpdateUserWrite(a) \/ SetRolePermissionsDelete(a) \/ SetRolePermissionsCommit(a)
    \/ DeleteRoleRow(a) \/ Fail(a)

CallerStep(c) ==
    \/ \E u \in Users : AuthToken(c, u)
    \/ \E k \in Keys : AuthKey(c, k) \/ CreateAPIKey(c, k) \/ DeleteAPIKey(c, k)
    \/ AuthKeyUser(c) \/ AuthPermissions(c) \/ Answer(c)

Step ==
    \/ \E a \in Admins : AdminStep(a)
    \/ \E c \in Callers : CallerStep(c)
    \/ \E u \in Users : Register(u) \/ DeleteUser(u) \/ \E r \in Roles : CreateUser(u, r)
    \/ Restart

\* What the user of caller c has been, with the state after the step.
Seen(c) ==
    LET u == caller'[c].user
        before == IF caller[c].pc = "idle" THEN Nothing ELSE since[c]
        roles == before.roles \cup ({role'[u]} \ {None})
    IN  [enabled |-> before.enabled \/ (role'[u] # None /\ enabled'[u]),
         roles |-> roles,
         rights |-> before.rights \cup UNION {perms'[r] : r \in {x \in roles : perms'[x] # None}}]

Observe == since' = [c \in Callers |-> IF caller'[c].pc = "idle" THEN Nothing ELSE Seen(c)]

Next == Step /\ Observe

Spec == Init /\ [][Next]_vars

-----------------------------------------------------------------------------
\* What a row refers to is there, and so are the built-in roles, which registration
\* and the administrators need, whatever calls overlap.
References ==
    /\ \A u \in Users : HasUser(u) => HasRole(role[u])
    /\ \A k \in Keys : owner[k] # None => HasUser(owner[k])
    /\ \A r \in Builtin : HasRole(r)

\* A user is enabled as was last asked for, unless that was done while an UpdateUser
\* which asks for no such thing was between its read and its write.
EnabledSettled ==
    \A u \in Users : HasUser(u) => ordered[u] \in {enabled[u], None}

\* A role has exactly the permissions it was given last, unless they were given by a
\* SetRolePermissions that had begun before another one committed, or the role is
\* built in and a start has given it back what it lacked.
PermissionsSettled ==
    \A r \in Roles : HasRole(r) => given[r] = perms[r] \/ given[r] = None

\* A request that is let in has a user who was enabled, and permissions that a role of
\* that user had, since the request began: what was revoked before is not used.
FreshRights ==
    \A c \in Callers : caller[c].pc = "admitted" =>
        since[c].enabled /\ caller[c].granted \subseteq since[c].rights
=============================================================================
