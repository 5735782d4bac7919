---------------------------- MODULE AccessProofs ----------------------------
(***************************************************************************)
(* Proofs about Access, for any users, roles, permissions, keys and        *)
(* requests in flight.                                                     *)
(***************************************************************************)
EXTENDS Access, TLAPS

USE BuiltinAssumption, SeedAssumption, NoneAssumption

LEMMA InitTypes == Init => TypeOK
  BY DEF Init, TypeOK, RowsOK, RequestsOK, At, AdminState, CallerState, Since,
         IdleAdmin, IdleCaller, Nothing

\* Starting a request that holds sound things, and ending one.
LEMMA BeginTypes ==
  ASSUME TypeOK, NEW a \in Admins, NEW u \in Users \cup {None}, NEW r \in Roles,
         NEW f \in BOOLEAN \cup {None}, NEW asks \in BOOLEAN \cup {None},
         NEW S \in SUBSET Perms, NEW pc \in {"writeUser", "delete", "deleteRole"},
         pc = "writeUser" => u \in Users /\ f \in BOOLEAN,
         Begin(a, pc, u, r, f, asks, S)
  PROVE  RowsOK' /\ RequestsOK'
<1>1. [IdleAdmin EXCEPT !.pc = pc, !.user = u, !.role = r, !.flag = f,
                        !.asks = asks, !.set = S] \in AdminState
  BY DEF IdleAdmin, AdminState
<1>2. RowsOK'
  BY DEF Begin, TypeOK, RowsOK, tables, histories
<1> QED
  BY <1>1, <1>2 DEF Begin, TypeOK, RequestsOK, At, IdleAdmin

LEMMA DoneTypes ==
  ASSUME TypeOK, NEW a \in Admins, Done(a), caller' = caller
  PROVE  RequestsOK'
  BY DEF TypeOK, RequestsOK, Done, At, AdminState, IdleAdmin

LEMMA CallerTypes ==
  ASSUME TypeOK, NEW c \in Callers, NEW x \in CallerState, CallerTo(c, x),
         x.pc # "idle" => x.user \in Users, x.pc = "perms" => x.role \in Roles,
         admin' = admin
  PROVE  RequestsOK'
  BY DEF TypeOK, RequestsOK, CallerTo, At

LEMMA InsertTypes ==
  ASSUME TypeOK, NEW u \in Users, NEW r \in Roles, InsertUser(u, r)
  PROVE  RowsOK'
  BY DEF TypeOK, RowsOK, InsertUser

LEMMA AdminTypes ==
  ASSUME TypeOK, NEW a \in Admins, AdminStep(a)
  PROVE  RowsOK' /\ RequestsOK'
<1> USE DEF TypeOK, RowsOK, RequestsOK, HasUser, HasRole
<1>0. admin[a] \in AdminState
  OBVIOUS
<1>1. ASSUME NEW u \in Users, NEW r \in {None} \cup Roles, NEW f \in {None} \cup BOOLEAN,
             UpdateUser(a, u, r, f)
      PROVE  RowsOK' /\ RequestsOK'
  <2> DEFINE R == IF r = None THEN role[u] ELSE r
             F == IF f = None THEN enabled[u] ELSE f
  <2>1. R \in Roles /\ F \in BOOLEAN
    BY <1>1 DEF UpdateUser
  <2>2. Begin(a, "writeUser", u, R, F, f, {})
    BY <1>1 DEF UpdateUser
  <2> HIDE DEF R, F
  <2> QED
    BY <2>1, <2>2, BeginTypes
<1>2. ASSUME NEW r \in Roles, NEW S \in SUBSET Perms, CreateRole(a, r, S)
      PROVE  RowsOK' /\ RequestsOK'
  <2>1. RowsOK'
    BY <1>2 DEF CreateRole
  <2>2. PICK x \in {IdleAdmin, [IdleAdmin EXCEPT !.pc = "delete", !.role = r, !.set = S]} :
          admin' = [admin EXCEPT ![a] = x]
    BY <1>2 DEF CreateRole
  <2>3. x \in AdminState /\ x.pc # "writeUser" /\ (x.pc # "idle" => x.role \in Roles)
    <3>1. IdleAdmin \in AdminState /\ IdleAdmin.pc = "idle"
      BY DEF AdminState, IdleAdmin
    <3> DEFINE y == [IdleAdmin EXCEPT !.pc = "delete", !.role = r, !.set = S]
    <3>2. y \in AdminState /\ y.pc = "delete" /\ y.role = r
      BY DEF IdleAdmin, AdminState
    <3> HIDE DEF y
    <3>3. CASE x = IdleAdmin
      BY <3>1, <3>3
    <3>4. CASE x = y
      BY <3>2, <3>4
    <3> QED
      BY <2>2, <3>3, <3>4 DEF y
  <2> QED
    BY <1>2, <2>1, <2>2, <2>3 DEF CreateRole, At
<1>3. ASSUME NEW r \in Roles, NEW S \in SUBSET Perms, UpdateRole(a, r, S)
      PROVE  RowsOK' /\ RequestsOK'
  BY <1>3, BeginTypes DEF UpdateRole
<1>4. ASSUME NEW r \in Roles, DeleteRole(a, r) PROVE RowsOK' /\ RequestsOK'
  BY <1>4, BeginTypes DEF DeleteRole
<1>5. ASSUME UpdateUserWrite(a) PROVE RowsOK' /\ RequestsOK'
  <2>1. /\ admin[a].user \in Users /\ admin[a].flag \in BOOLEAN /\ admin[a].role \in Roles
        /\ admin[a].asks \in BOOLEAN \cup {None}
    BY <1>0, <1>5 DEF UpdateUserWrite, At, AdminState
  <2>2. RowsOK'
    BY <1>5, <2>1 DEF UpdateUserWrite
  <2> QED
    BY <1>5, <2>2, DoneTypes DEF UpdateUserWrite
<1>6. ASSUME SetRolePermissionsDelete(a) PROVE RowsOK' /\ RequestsOK'
  <2> DEFINE r == admin[a].role
             T == IF HasRole(r) THEN perms[r] ELSE {}
  <2>1. r \in Roles /\ T \in SUBSET Perms
    BY <1>6 DEF SetRolePermissionsDelete, At
  <2>2. admin' = [admin EXCEPT ![a] = [admin[a] EXCEPT !.pc = "commit", !.target = T]]
    BY <1>0, <1>6 DEF SetRolePermissionsDelete, AdminState
  <2>3. [admin[a] EXCEPT !.pc = "commit", !.target = T] \in AdminState
    BY <1>0, <2>1 DEF AdminState
  <2> HIDE DEF T
  <2>4. RowsOK'
    BY <1>6 DEF SetRolePermissionsDelete, tables, histories
  <2>5. /\ [admin[a] EXCEPT !.pc = "commit", !.target = T].pc = "commit"
        /\ [admin[a] EXCEPT !.pc = "commit", !.target = T].role = r
    BY <1>0 DEF AdminState
  <2>6. caller' = caller
    BY <1>6 DEF SetRolePermissionsDelete
  <2> HIDE DEF r
  <2> QED
    BY <2>1, <2>2, <2>3, <2>4, <2>5, <2>6 DEF At
<1>7. ASSUME SetRolePermissionsCommit(a) PROVE RowsOK' /\ RequestsOK'
  <2>1. /\ admin[a].role \in Roles /\ admin[a].set \in SUBSET Perms
        /\ admin[a].target \in SUBSET Perms
    BY <1>0, <1>7 DEF SetRolePermissionsCommit, At, AdminState
  <2>2. RowsOK'
    BY <1>7, <2>1 DEF SetRolePermissionsCommit, Replaced
  <2>3. ASSUME NEW b \in Admins
        PROVE  /\ admin'[b] \in AdminState
               /\ admin'[b].pc = "writeUser" =>
                    admin'[b].user \in Users /\ admin'[b].flag \in BOOLEAN
               /\ admin'[b].pc # "idle" => admin'[b].role \in Roles
    <3>1. admin[b] \in AdminState
      OBVIOUS
    <3>2. [admin[b] EXCEPT !.target = @ \ admin[a].target, !.late = TRUE] \in AdminState
      BY <2>1, <3>1 DEF AdminState
    <3>3. CASE b = a
      BY <1>7, <3>3 DEF SetRolePermissionsCommit, IdleAdmin, AdminState
    <3>4. CASE b # a /\ At(b, "commit") /\ admin[b].role = admin[a].role
      <4>1. admin'[b] = [admin[b] EXCEPT !.target = @ \ admin[a].target, !.late = TRUE]
        BY <1>7, <3>4 DEF SetRolePermissionsCommit
      <4>2. admin'[b].pc = "commit" /\ admin'[b].role = admin[a].role
        BY <3>1, <3>4, <4>1 DEF AdminState, At
      <4> QED
        BY <2>1, <3>2, <4>1, <4>2
    <3>5. CASE b # a /\ ~(At(b, "commit") /\ admin[b].role = admin[a].role)
      BY <1>7, <3>5 DEF SetRolePermissionsCommit, At
    <3> QED
      BY <3>3, <3>4, <3>5
  <2>4. admin' = [b \in Admins |-> admin'[b]] /\ caller' = caller
    BY <1>7 DEF SetRolePermissionsCommit
  <2>5. admin' \in [Admins -> AdminState]
    BY <2>3, <2>4
  <2> QED
    BY <2>2, <2>3, <2>4, <2>5 DEF At
<1>8. ASSUME DeleteRoleRow(a) PROVE RowsOK' /\ RequestsOK'
  <2>1. admin[a].role \in Roles
    BY <1>8 DEF DeleteRoleRow, At
  <2>2. RowsOK'
    BY <1>8, <2>1 DEF DeleteRoleRow
  <2> QED
    BY <1>8, <2>2, DoneTypes DEF DeleteRoleRow
<1>9. ASSUME Fail(a) PROVE RowsOK' /\ RequestsOK'
  <2>1. RowsOK'
    BY <1>9 DEF Fail, tables, histories
  <2> QED
    BY <1>9, <2>1, DoneTypes DEF Fail
<1> QED
  BY <1>1, <1>2, <1>3, <1>4, <1>5, <1>6, <1>7, <1>8, <1>9 DEF AdminStep

LEMMA CallerStepTypes ==
  ASSUME TypeOK, NEW c \in Callers, CallerStep(c)
  PROVE  RowsOK' /\ RequestsOK'
<1>0. caller[c] \in CallerState
  BY DEF TypeOK, RequestsOK
<1>1. IdleCaller \in CallerState
  BY DEF IdleCaller, CallerState
<1>2. ASSUME NEW u \in Users, AuthUser(c, u) PROVE RowsOK' /\ RequestsOK'
  <2>1. role[u] \in Roles
    BY <1>2 DEF AuthUser, HasUser, TypeOK, RowsOK
  <2>2. [IdleCaller EXCEPT !.pc = "perms", !.user = u, !.role = role[u]] \in CallerState
    BY <2>1 DEF IdleCaller, CallerState
  <2>3. RowsOK' /\ admin' = admin
    BY <1>2 DEF AuthUser, OnlyCaller, TypeOK, RowsOK, tables, histories
  <2> QED
    BY <1>2, <2>1, <2>2, <2>3, CallerTypes DEF AuthUser, IdleCaller
<1>3. ASSUME NEW k \in Keys, AuthKey(c, k) PROVE RowsOK' /\ RequestsOK'
  <2>1. owner[k] \in Users
    BY <1>3 DEF AuthKey, TypeOK, RowsOK
  <2>2. [IdleCaller EXCEPT !.pc = "user", !.user = owner[k]] \in CallerState
    BY <2>1 DEF IdleCaller, CallerState
  <2>3. RowsOK' /\ admin' = admin
    BY <1>3 DEF AuthKey, OnlyCaller, TypeOK, RowsOK, tables, histories
  <2> QED
    BY <1>3, <2>1, <2>2, <2>3, CallerTypes DEF AuthKey, IdleCaller
<1>4. ASSUME AuthPermissions(c) PROVE RowsOK' /\ RequestsOK'
  <2> DEFINE r == caller[c].role
             G == IF HasRole(r) THEN perms[r] ELSE {}
  <2>1. r \in Roles /\ G \in SUBSET Perms
    BY <1>4 DEF AuthPermissions, TypeOK, RowsOK, RequestsOK, HasRole
  <2>2. CallerTo(c, [caller[c] EXCEPT !.pc = "admitted", !.granted = G])
    BY <1>4 DEF AuthPermissions
  <2> HIDE DEF G
  <2>3. caller[c].user \in Users
    BY <1>4 DEF AuthPermissions, TypeOK, RequestsOK
  <2>4. [caller[c] EXCEPT !.pc = "admitted", !.granted = G] \in CallerState
    BY <1>0, <2>1 DEF CallerState
  <2>5. RowsOK' /\ admin' = admin
    BY <1>4 DEF AuthPermissions, OnlyCaller, TypeOK, RowsOK, tables, histories
  <2>6. /\ [caller[c] EXCEPT !.pc = "admitted", !.granted = G].user = caller[c].user
        /\ [caller[c] EXCEPT !.pc = "admitted", !.granted = G].pc = "admitted"
    BY <1>0 DEF CallerState
  <2> QED
    BY <2>2, <2>3, <2>4, <2>5, <2>6, CallerTypes
<1>5. ASSUME CallerTo(c, IdleCaller), admin' = admin PROVE RequestsOK'
  BY <1>1, <1>5, CallerTypes DEF IdleCaller
<1>6. ASSUME Answer(c) PROVE RowsOK' /\ RequestsOK'
  BY <1>5, <1>6 DEF Answer, OnlyCaller, TypeOK, RowsOK, tables, histories
<1>7. ASSUME NEW k \in Keys, CreateAPIKey(c, k) PROVE RowsOK' /\ RequestsOK'
  <2>1. caller[c].user \in Users
    BY <1>7 DEF CreateAPIKey, TypeOK, RequestsOK
  <2>2. RowsOK'
    BY <1>7, <2>1 DEF CreateAPIKey, TypeOK, RowsOK, histories
  <2> QED
    BY <1>5, <1>7, <2>2 DEF CreateAPIKey
<1>8. ASSUME NEW k \in Keys, DeleteAPIKey(c, k) PROVE RowsOK' /\ RequestsOK'
  <2>1. RowsOK'
    BY <1>8 DEF DeleteAPIKey, TypeOK, RowsOK, histories
  <2> QED
    BY <1>5, <1>8, <2>1 DEF DeleteAPIKey
<1>9. ASSUME AuthKeyUser(c) PROVE RowsOK' /\ RequestsOK'
  <2>1. caller[c].user \in Users
    BY <1>9 DEF AuthKeyUser, TypeOK, RequestsOK
  <2> QED
    BY <1>2, <1>9, <2>1 DEF AuthKeyUser
<1> QED
  BY <1>2, <1>3, <1>4, <1>6, <1>7, <1>8, <1>9 DEF CallerStep, AuthToken

LEMMA RowTypes ==
  ASSUME TypeOK, NEW u \in Users, Register(u) \/ DeleteUser(u) \/ \E r \in Roles : CreateUser(u, r)
  PROVE  RowsOK' /\ RequestsOK'
<1>1. CASE DeleteUser(u)
  BY <1>1 DEF DeleteUser, TypeOK, RowsOK, RequestsOK, At
<1>2. CASE Register(u) \/ \E r \in Roles : CreateUser(u, r)
  <2>1. RowsOK'
    BY <1>2, InsertTypes DEF Register, CreateUser
  <2> QED
    BY <1>2, <2>1 DEF Register, CreateUser, TypeOK, RequestsOK, At
<1> QED
  BY <1>1, <1>2

LEMMA RestartTypes ==
  ASSUME TypeOK, Restart
  PROVE  RowsOK' /\ RequestsOK'
<1>1. RowsOK'
  BY DEF Restart, Reseeded, HasRole, TypeOK, RowsOK
<1>2. IdleAdmin \in AdminState /\ IdleAdmin.pc = "idle"
  BY DEF IdleAdmin, AdminState
<1>3. IdleCaller \in CallerState /\ IdleCaller.pc = "idle"
  BY DEF IdleCaller, CallerState
<1> QED
  BY <1>1, <1>2, <1>3 DEF Restart, RequestsOK, At

LEMMA StepTypes == TypeOK /\ Step => RowsOK' /\ RequestsOK'
  BY AdminTypes, CallerStepTypes, RowTypes, RestartTypes DEF Step

\* What is observed of a caller's user is sound when the rows are.
LEMMA ObserveTypes ==
  ASSUME TypeOK, RowsOK', RequestsOK', Observe
  PROVE  since' \in [Callers -> Since]
<1>1. Nothing \in Since
  BY DEF Nothing, Since
<1>2. ASSUME NEW c \in Callers, caller'[c].pc # "idle" PROVE Seen(c) \in Since
  <2> DEFINE u == caller'[c].user
             before == IF caller[c].pc = "idle" THEN Nothing ELSE since[c]
             roles == before.roles \cup ({role'[u]} \ {None})
             rights == before.rights
                         \cup UNION {perms'[r] : r \in {x \in roles : perms'[x] # None}}
             on == before.enabled \/ (role'[u] # None /\ enabled'[u])
  <2>1. u \in Users
    BY <1>2 DEF RequestsOK
  <2>2. before \in Since
    BY <1>1 DEF TypeOK
  <2> HIDE DEF before, u
  <2>3. /\ before.roles \subseteq Roles /\ before.rights \subseteq Perms
        /\ before.enabled \in BOOLEAN
    BY <2>2 DEF Since
  <2>4. roles \subseteq Roles
    BY <2>1, <2>3 DEF RowsOK
  <2> HIDE DEF roles
  <2>5. rights \subseteq Perms
    BY <2>3, <2>4 DEF RowsOK
  <2>6. on \in BOOLEAN
    OBVIOUS
  <2>7. Seen(c) = [enabled |-> on, roles |-> roles, rights |-> rights]
    BY DEF Seen, u, before, roles
  <2> HIDE DEF on, rights
  <2> QED
    BY <2>4, <2>5, <2>6, <2>7 DEF Since
<1> QED
  BY <1>1, <1>2 DEF Observe

LEMMA TypeStep == TypeOK /\ [Next]_vars => TypeOK'
<1>1. CASE UNCHANGED vars
  BY <1>1 DEF vars, tables, histories, TypeOK, RowsOK, RequestsOK, At
<1>2. ASSUME TypeOK, Next PROVE TypeOK'
  BY <1>2, StepTypes, ObserveTypes DEF Next, TypeOK
<1> QED
  BY <1>1, <1>2

\* Values stay in range, and a request that writes holds what its step needs.
THEOREM TypeCorrect == Spec => []TypeOK
  BY InitTypes, TypeStep, PTL DEF Spec

-----------------------------------------------------------------------------
(* What the requests hold while others run.                                *)

\* The role about to be deleted is not built in; an update that asks for a flag
\* holds that flag.
HeldOK ==
    \A a \in Admins :
        /\ At(a, "deleteRole") => admin[a].role \notin Builtin
        /\ At(a, "writeUser") /\ admin[a].asks # None => admin[a].flag = admin[a].asks

\* An update that asks for none holds the flag of the row, unless one was asked for
\* meanwhile.
FlagOK ==
    \A a \in Admins : \A u \in Users :
        HoldsFlag(a, u) /\ HasUser(u) => ordered[u] = None \/ admin[a].flag = enabled[u]

\* A transaction that no other has overtaken deletes all permissions of its role.
TargetOK ==
    \A a \in Admins : \A r \in Roles :
        At(a, "commit") /\ admin[a].role = r /\ HasRole(r) /\ ~admin[a].late =>
            admin[a].target = perms[r]

PendingInv == HeldOK /\ FlagOK /\ TargetOK
RowInv == References /\ EnabledSettled /\ PermissionsSettled

LEMMA PendingInit == Init => PendingInv
<1>1. Init => \A a \in Admins : admin[a].pc = "idle"
  BY DEF Init, IdleAdmin
<1> QED
  BY <1>1 DEF PendingInv, HeldOK, FlagOK, TargetOK, At, HoldsFlag

LEMMA RowInit == Init => RowInv
  BY DEF Init, RowInv, References, EnabledSettled, PermissionsSettled, HasUser, HasRole

\* A request that begins holds what it was given.
LEMMA BeginHolds ==
  ASSUME TypeOK, NEW a \in Admins, NEW pc, NEW u, NEW r, NEW f, NEW asks, NEW S,
         Begin(a, pc, u, r, f, asks, S)
  PROVE  /\ admin'[a].pc = pc /\ admin'[a].user = u /\ admin'[a].role = r
         /\ admin'[a].flag = f /\ admin'[a].asks = asks
         /\ \A b \in Admins \ {a} : admin'[b] = admin[b]
         /\ UNCHANGED <<role, enabled, perms, owner, ordered, given>>
<1> DEFINE y == [IdleAdmin EXCEPT !.pc = pc, !.user = u, !.role = r, !.flag = f,
                                  !.asks = asks, !.set = S]
<1>1. y.pc = pc /\ y.user = u /\ y.role = r /\ y.flag = f /\ y.asks = asks
  BY DEF IdleAdmin
<1>2. admin' = [admin EXCEPT ![a] = y]
  BY DEF Begin
<1> HIDE DEF y
<1> QED
  BY <1>1, <1>2 DEF Begin, TypeOK, RequestsOK, tables, histories

LEMMA DoneIdle ==
  ASSUME TypeOK, NEW a \in Admins, Done(a)
  PROVE  admin'[a].pc = "idle" /\ \A b \in Admins \ {a} : admin'[b] = admin[b]
  BY DEF TypeOK, RequestsOK, Done, IdleAdmin

\* A step of a request that neither writes users nor roles.
LEMMA QuietStep ==
  ASSUME TypeOK, PendingInv, RowInv, UNCHANGED <<role, enabled, perms, owner, ordered, given>>,
         \A a \in Admins : admin'[a] = admin[a] \/ admin'[a].pc \in {"idle", "delete"}
  PROVE  PendingInv' /\ RowInv'
<1>1. PendingInv'
  BY DEF PendingInv, HeldOK, FlagOK, TargetOK, At, HoldsFlag, HasUser, HasRole
<1> QED
  BY <1>1 DEF RowInv, References, EnabledSettled, PermissionsSettled, HasUser, HasRole

LEMMA UpdateUserInv ==
  ASSUME TypeOK, PendingInv, RowInv, NEW a \in Admins, NEW u \in Users,
         NEW r \in {None} \cup Roles, NEW f \in {None} \cup BOOLEAN, UpdateUser(a, u, r, f)
  PROVE  PendingInv' /\ RowInv'
<1> DEFINE R == IF r = None THEN role[u] ELSE r
           F == IF f = None THEN enabled[u] ELSE f
<1>1. Begin(a, "writeUser", u, R, F, f, {})
  BY DEF UpdateUser
<1>2. f # None => F = f
  OBVIOUS
<1>3. f = None => F = enabled[u]
  OBVIOUS
<1> HIDE DEF R, F
<1>4. /\ admin'[a].pc = "writeUser" /\ admin'[a].user = u /\ admin'[a].flag = F
      /\ admin'[a].asks = f
      /\ \A b \in Admins \ {a} : admin'[b] = admin[b]
      /\ UNCHANGED <<role, enabled, perms, owner, ordered, given>>
  BY <1>1, BeginHolds
<1>5. HeldOK'
  BY <1>2, <1>4 DEF PendingInv, HeldOK, At
<1>6. FlagOK'
  BY <1>3, <1>4 DEF PendingInv, FlagOK, HoldsFlag, At, HasUser
<1>7. TargetOK'
  BY <1>4 DEF PendingInv, TargetOK, At, HasRole
<1>8. RowInv'
  BY <1>4 DEF RowInv, References, EnabledSettled, PermissionsSettled, HasUser, HasRole
<1> QED
  BY <1>5, <1>6, <1>7, <1>8 DEF PendingInv

LEMMA DeleteRoleInv ==
  ASSUME TypeOK, PendingInv, RowInv, NEW a \in Admins, NEW r \in Roles, DeleteRole(a, r)
  PROVE  PendingInv' /\ RowInv'
<1>1. /\ admin'[a].pc = "deleteRole" /\ admin'[a].role = r
      /\ \A b \in Admins \ {a} : admin'[b] = admin[b]
      /\ UNCHANGED <<role, enabled, perms, owner, ordered, given>>
  BY BeginHolds DEF DeleteRole
<1>2. HeldOK'
  BY <1>1 DEF PendingInv, HeldOK, At, DeleteRole
<1>3. FlagOK' /\ TargetOK'
  BY <1>1 DEF PendingInv, FlagOK, TargetOK, HoldsFlag, At, HasUser, HasRole
<1>4. RowInv'
  BY <1>1 DEF RowInv, References, EnabledSettled, PermissionsSettled, HasUser, HasRole
<1> QED
  BY <1>2, <1>3, <1>4 DEF PendingInv

LEMMA UpdateUserWriteInv ==
  ASSUME TypeOK, PendingInv, RowInv, NEW a \in Admins, UpdateUserWrite(a)
  PROVE  PendingInv' /\ RowInv'
<1> DEFINE u == admin[a].user
           asks == admin[a].asks
<1>1. /\ u \in Users /\ admin[a].flag \in BOOLEAN /\ admin[a].role \in Roles
      /\ asks # None => admin[a].flag = asks
  BY DEF UpdateUserWrite, TypeOK, RequestsOK, At, PendingInv, HeldOK
<1>2. /\ admin'[a].pc = "idle" /\ \A b \in Admins \ {a} : admin'[b] = admin[b]
      /\ UNCHANGED <<perms, owner, given>>
  BY DoneIdle DEF UpdateUserWrite
<1>3. HeldOK' /\ TargetOK'
  BY <1>2 DEF PendingInv, HeldOK, TargetOK, At, HasRole
<1>4. References'
  BY <1>1, <1>2 DEF UpdateUserWrite, RowInv, References, HasUser, HasRole, TypeOK, RowsOK
<1>5. PermissionsSettled'
  BY <1>2 DEF RowInv, PermissionsSettled, HasRole
<1>6. CASE ~HasUser(u) /\ UNCHANGED <<role, enabled, ordered>>
  <2>1. FlagOK'
    BY <1>2, <1>6 DEF PendingInv, FlagOK, HoldsFlag, At, HasUser
  <2>2. EnabledSettled'
    BY <1>6 DEF RowInv, EnabledSettled, HasUser
  <2> QED
    BY <1>3, <1>4, <1>5, <2>1, <2>2 DEF PendingInv, RowInv
<1>7. CASE HasUser(u) /\ asks = None /\ UNCHANGED ordered
  <2>1. ordered[u] = None \/ admin[a].flag = enabled[u]
    BY <1>1, <1>7 DEF PendingInv, FlagOK, HoldsFlag, UpdateUserWrite
  <2>2. enabled' = [enabled EXCEPT ![u] = admin[a].flag]
        /\ \A v \in Users \ {u} : role'[v] = role[v]
    BY <1>7 DEF UpdateUserWrite, TypeOK, RowsOK
  <2>3. ordered[u] = None \/ enabled' = enabled
    BY <2>1, <2>2 DEF TypeOK, RowsOK
  <2>4. FlagOK'
    BY <1>1, <1>2, <1>7, <2>2, <2>3 DEF PendingInv, FlagOK, HoldsFlag, At, HasUser, TypeOK, RowsOK
  <2>5. EnabledSettled'
    BY <1>1, <1>7, <2>2, <2>3 DEF RowInv, EnabledSettled, HasUser, TypeOK, RowsOK
  <2> QED
    BY <1>3, <1>4, <1>5, <2>4, <2>5 DEF PendingInv, RowInv
<1>8. CASE HasUser(u) /\ asks # None
            /\ ordered' = [ordered EXCEPT ![u] =
                             IF \E b \in Admins : HoldsFlag(b, u) THEN None ELSE asks]
  <2>1. enabled' = [enabled EXCEPT ![u] = admin[a].flag]
        /\ \A v \in Users \ {u} : role'[v] = role[v]
    BY <1>8 DEF UpdateUserWrite, TypeOK, RowsOK
  <2>2. enabled'[u] = asks
    BY <1>1, <1>8, <2>1 DEF TypeOK, RowsOK
  <2>3. \A v \in Users \ {u} : enabled'[v] = enabled[v] /\ ordered'[v] = ordered[v]
    BY <1>8, <2>1 DEF TypeOK, RowsOK
  <2>4. /\ ordered'[u] \in {asks, None}
        /\ (\E b \in Admins : HoldsFlag(b, u)) => ordered'[u] = None
    BY <1>1, <1>8 DEF TypeOK, RowsOK
  <2>5. FlagOK'
    BY <1>2, <2>1, <2>3, <2>4 DEF PendingInv, FlagOK, HoldsFlag, At, HasUser
  <2>6. EnabledSettled'
    BY <2>1, <2>2, <2>3, <2>4 DEF RowInv, EnabledSettled, HasUser
  <2> QED
    BY <1>3, <1>4, <1>5, <2>5, <2>6 DEF PendingInv, RowInv
<1> QED
  BY <1>6, <1>7, <1>8 DEF UpdateUserWrite

LEMMA CreateRoleInv ==
  ASSUME TypeOK, PendingInv, RowInv, NEW a \in Admins, NEW r \in Roles, NEW S \in SUBSET Perms,
         CreateRole(a, r, S)
  PROVE  PendingInv' /\ RowInv'
<1>1. /\ admin'[a].pc \in {"idle", "delete"}
      /\ \A b \in Admins \ {a} : admin'[b] = admin[b]
      /\ UNCHANGED <<role, enabled, owner, ordered>>
  BY DEF CreateRole, TypeOK, RequestsOK, IdleAdmin
<1>2. /\ perms'[r] = {} /\ given'[r] = {}
      /\ \A s \in Roles \ {r} : perms'[s] = perms[s] /\ given'[s] = given[s]
  BY DEF CreateRole, TypeOK, RowsOK
<1>3. {} # None
  OBVIOUS
<1>4. HeldOK' /\ FlagOK'
  BY <1>1 DEF PendingInv, HeldOK, FlagOK, HoldsFlag, At, HasUser
<1>5. \A b \in Admins : admin[b].role # r
  BY DEF CreateRole, FreshRole
<1>6. TargetOK'
  BY <1>1, <1>2, <1>5 DEF PendingInv, TargetOK, At, HasRole
<1>7. References' /\ EnabledSettled'
  BY <1>1, <1>2, <1>3 DEF RowInv, References, EnabledSettled, HasUser, HasRole, TypeOK, RowsOK
<1>8. PermissionsSettled'
  BY <1>2 DEF RowInv, PermissionsSettled, HasRole
<1> QED
  BY <1>4, <1>6, <1>7, <1>8 DEF PendingInv, RowInv

LEMMA SetRolePermissionsDeleteInv ==
  ASSUME TypeOK, PendingInv, RowInv, NEW a \in Admins, SetRolePermissionsDelete(a)
  PROVE  PendingInv' /\ RowInv'
<1> DEFINE T == IF HasRole(admin[a].role) THEN perms[admin[a].role] ELSE {}
<1>0. admin[a] \in AdminState
  BY DEF TypeOK, RequestsOK
<1>1. /\ admin'[a].pc = "commit" /\ admin'[a].role = admin[a].role /\ admin'[a].target = T
      /\ \A b \in Admins \ {a} : admin'[b] = admin[b]
      /\ UNCHANGED <<role, enabled, perms, owner, ordered, given>>
  BY <1>0 DEF SetRolePermissionsDelete, TypeOK, RequestsOK, AdminState, tables, histories
<1>2. HeldOK' /\ FlagOK'
  BY <1>1 DEF PendingInv, HeldOK, FlagOK, HoldsFlag, At, HasUser
<1>3. TargetOK'
  BY <1>1 DEF PendingInv, TargetOK, At, HasRole
<1>4. RowInv'
  BY <1>1 DEF RowInv, References, EnabledSettled, PermissionsSettled, HasUser, HasRole
<1> QED
  BY <1>2, <1>3, <1>4 DEF PendingInv

LEMMA SetRolePermissionsCommitInv ==
  ASSUME TypeOK, PendingInv, RowInv, NEW a \in Admins, SetRolePermissionsCommit(a)
  PROVE  PendingInv' /\ RowInv'
<1> DEFINE r == admin[a].role
           S == admin[a].set
           target == admin[a].target
<1>0. /\ admin[a] \in AdminState /\ r \in Roles /\ S \in SUBSET Perms
      /\ target \in SUBSET Perms /\ HasRole(r) /\ At(a, "commit")
  BY DEF SetRolePermissionsCommit, TypeOK, RequestsOK, At, AdminState
<1>1. /\ perms' = [perms EXCEPT ![r] = (perms[r] \ target) \cup S]
      /\ given' = [given EXCEPT ![r] = IF admin[a].late THEN None ELSE S]
      /\ UNCHANGED <<role, enabled, owner, ordered>>
  BY DEF SetRolePermissionsCommit, Replaced
<1>2. /\ \A s \in Roles \ {r} : perms'[s] = perms[s] /\ given'[s] = given[s]
      /\ given'[r] = IF admin[a].late THEN None ELSE S
      /\ perms'[r] = (perms[r] \ target) \cup S
  BY <1>0, <1>1 DEF TypeOK, RowsOK
<1>3. perms[r] \in SUBSET Perms
  BY <1>0 DEF TypeOK, RowsOK, HasRole
<1>4. perms'[r] \in SUBSET Perms /\ perms'[r] # None
  BY <1>0, <1>2, <1>3
<1>5. ASSUME NEW b \in Admins
      PROVE  \/ admin'[b].pc = "idle"
             \/ admin[b].pc = "commit" /\ admin'[b].pc = "commit" /\ admin'[b].late
             \/ admin'[b] = admin[b] /\ ~(At(b, "commit") /\ admin[b].role = r)
  <2>1. admin[b] \in AdminState
    BY DEF TypeOK, RequestsOK
  <2>2. CASE b = a
    BY <2>2 DEF SetRolePermissionsCommit, IdleAdmin
  <2>3. CASE b # a /\ At(b, "commit") /\ admin[b].role = r
    <3>1. admin'[b] = [admin[b] EXCEPT !.target = @ \ target, !.late = TRUE]
      BY <2>3 DEF SetRolePermissionsCommit
    <3> QED
      BY <2>1, <2>3, <3>1 DEF AdminState, At
  <2>4. CASE b # a /\ ~(At(b, "commit") /\ admin[b].role = r)
    BY <2>4 DEF SetRolePermissionsCommit
  <2> QED
    BY <2>2, <2>3, <2>4
<1> HIDE DEF r, S, target
<1>6. HeldOK' /\ FlagOK'
  BY <1>1, <1>5 DEF PendingInv, HeldOK, FlagOK, HoldsFlag, At, HasUser
<1>7. TargetOK'
  BY <1>2, <1>5 DEF PendingInv, TargetOK, At, HasRole
<1>8. References' /\ EnabledSettled'
  BY <1>1, <1>2, <1>4 DEF RowInv, References, EnabledSettled, HasUser, HasRole, TypeOK, RowsOK
<1>9. ~admin[a].late => given'[r] = perms'[r]
  <2>1. ~admin[a].late => target = perms[r]
    BY <1>0 DEF PendingInv, TargetOK, r, target
  <2> QED
    BY <1>2, <2>1
<1>10. PermissionsSettled'
  BY <1>2, <1>9 DEF RowInv, PermissionsSettled, HasRole
<1> QED
  BY <1>6, <1>7, <1>8, <1>10 DEF PendingInv, RowInv

LEMMA DeleteRoleRowInv ==
  ASSUME TypeOK, PendingInv, RowInv, NEW a \in Admins, DeleteRoleRow(a)
  PROVE  PendingInv' /\ RowInv'
<1> DEFINE r == admin[a].role
<1>1. r \in Roles \ Builtin
  BY DEF DeleteRoleRow, TypeOK, RequestsOK, At, PendingInv, HeldOK
<1>2. /\ perms'[r] = None /\ \A s \in Roles \ {r} : perms'[s] = perms[s] /\ given'[s] = given[s]
      /\ UNCHANGED <<role, enabled, owner, ordered>>
      /\ \A u \in Users : role[u] # r
  BY <1>1 DEF DeleteRoleRow, TypeOK, RowsOK
<1>3. admin'[a].pc = "idle" /\ \A b \in Admins \ {a} : admin'[b] = admin[b]
  BY DoneIdle DEF DeleteRoleRow
<1> HIDE DEF r
<1>4. HeldOK' /\ FlagOK'
  BY <1>2, <1>3 DEF PendingInv, HeldOK, FlagOK, HoldsFlag, At, HasUser
<1>5. TargetOK'
  BY <1>2, <1>3 DEF PendingInv, TargetOK, At, HasRole
<1>6. References'
  BY <1>1, <1>2 DEF RowInv, References, HasUser, HasRole, TypeOK, RowsOK
<1>7. EnabledSettled' /\ PermissionsSettled'
  BY <1>2 DEF RowInv, EnabledSettled, PermissionsSettled, HasUser, HasRole
<1> QED
  BY <1>4, <1>5, <1>6, <1>7 DEF PendingInv, RowInv

LEMMA InsertInv ==
  ASSUME TypeOK, PendingInv, RowInv, NEW u \in Users, NEW r \in Roles, FreshUser(u),
         InsertUser(u, r), admin' = admin
  PROVE  PendingInv' /\ RowInv'
<1>1. /\ role'[u] = r /\ enabled'[u] = TRUE /\ ordered'[u] = TRUE
      /\ \A v \in Users \ {u} : role'[v] = role[v] /\ enabled'[v] = enabled[v]
                                  /\ ordered'[v] = ordered[v]
      /\ UNCHANGED <<perms, owner, given>>
  BY DEF InsertUser, TypeOK, RowsOK
<1>2. HeldOK' /\ TargetOK'
  BY <1>1 DEF PendingInv, HeldOK, TargetOK, At, HasRole
<1>3. FlagOK'
  BY <1>1 DEF PendingInv, FlagOK, HoldsFlag, At, HasUser, FreshUser
<1>4. References'
  BY <1>1 DEF RowInv, References, HasUser, HasRole, InsertUser, TypeOK, RowsOK
<1>5. EnabledSettled' /\ PermissionsSettled'
  BY <1>1 DEF RowInv, EnabledSettled, PermissionsSettled, HasUser, HasRole
<1> QED
  BY <1>2, <1>3, <1>4, <1>5 DEF PendingInv, RowInv

LEMMA DeleteUserInv ==
  ASSUME TypeOK, PendingInv, RowInv, NEW u \in Users, DeleteUser(u)
  PROVE  PendingInv' /\ RowInv'
<1>1. /\ role'[u] = None /\ UNCHANGED <<perms, admin, given>>
      /\ \A v \in Users \ {u} : role'[v] = role[v] /\ enabled'[v] = enabled[v]
                                  /\ ordered'[v] = ordered[v]
      /\ \A k \in Keys : owner'[k] = IF owner[k] = u THEN None ELSE owner[k]
  BY DEF DeleteUser, TypeOK, RowsOK
<1>2. HeldOK' /\ FlagOK' /\ TargetOK'
  BY <1>1 DEF PendingInv, HeldOK, FlagOK, TargetOK, HoldsFlag, At, HasUser, HasRole
<1>3. References'
  BY <1>1 DEF RowInv, References, HasUser, HasRole, TypeOK, RowsOK
<1>4. EnabledSettled' /\ PermissionsSettled'
  BY <1>1 DEF RowInv, EnabledSettled, PermissionsSettled, HasUser, HasRole
<1> QED
  BY <1>2, <1>3, <1>4 DEF PendingInv, RowInv

LEMMA KeyInv ==
  ASSUME TypeOK, PendingInv, RowInv, NEW k \in Keys, NEW u \in Users \cup {None},
         u # None => HasUser(u), owner' = [owner EXCEPT ![k] = u],
         UNCHANGED <<role, enabled, perms, admin, ordered, given>>
  PROVE  PendingInv' /\ RowInv'
<1>1. PendingInv'
  BY DEF PendingInv, HeldOK, FlagOK, TargetOK, HoldsFlag, At, HasUser, HasRole
<1>2. RowInv'
  BY DEF RowInv, References, EnabledSettled, PermissionsSettled, HasUser, HasRole, TypeOK, RowsOK
<1> QED
  BY <1>1, <1>2

LEMMA RestartInv ==
  ASSUME TypeOK, PendingInv, RowInv, Restart
  PROVE  PendingInv' /\ RowInv'
<1>1. \A a \in Admins : admin'[a].pc = "idle"
  BY DEF Restart, IdleAdmin
<1>2. PendingInv'
  BY <1>1 DEF PendingInv, HeldOK, FlagOK, TargetOK, HoldsFlag, At
<1>3. /\ UNCHANGED <<role, enabled, owner, ordered>>
      /\ \A r \in Roles : perms[r] # None => perms'[r] # None
      /\ \A r \in Builtin : perms'[r] # None
      /\ \A r \in Roles : given'[r] = None \/ (perms'[r] = perms[r] /\ given'[r] = given[r])
  BY DEF Restart, Reseeded, HasRole, TypeOK, RowsOK
<1>4. References' /\ EnabledSettled'
  BY <1>3 DEF RowInv, References, EnabledSettled, HasUser, HasRole, TypeOK, RowsOK
<1>5. PermissionsSettled'
  BY <1>3 DEF RowInv, PermissionsSettled, HasRole
<1> QED
  BY <1>2, <1>4, <1>5 DEF RowInv

IInv == TypeOK /\ PendingInv /\ RowInv

LEMMA AdminInv ==
  ASSUME TypeOK, PendingInv, RowInv, NEW a \in Admins, AdminStep(a)
  PROVE  PendingInv' /\ RowInv'
<1>1. ASSUME NEW r \in Roles, NEW S \in SUBSET Perms, UpdateRole(a, r, S)
      PROVE  PendingInv' /\ RowInv'
  <2>1. /\ admin'[a].pc = "delete" /\ \A b \in Admins \ {a} : admin'[b] = admin[b]
        /\ UNCHANGED <<role, enabled, perms, owner, ordered, given>>
    BY <1>1, BeginHolds DEF UpdateRole
  <2> QED
    BY <2>1, QuietStep
<1>2. ASSUME Fail(a) PROVE PendingInv' /\ RowInv'
  <2>1. UNCHANGED <<role, enabled, perms, owner, ordered, given>>
    BY <1>2 DEF Fail, tables, histories
  <2> QED
    BY <1>2, <2>1, DoneIdle, QuietStep DEF Fail
<1> QED
  BY <1>1, <1>2, UpdateUserInv, CreateRoleInv, DeleteRoleInv, UpdateUserWriteInv,
     SetRolePermissionsDeleteInv, SetRolePermissionsCommitInv, DeleteRoleRowInv DEF AdminStep

LEMMA CallerInv ==
  ASSUME TypeOK, PendingInv, RowInv, NEW c \in Callers, CallerStep(c)
  PROVE  PendingInv' /\ RowInv'
<1>1. ASSUME OnlyCaller PROVE PendingInv' /\ RowInv'
  <2>1. UNCHANGED <<role, enabled, perms, owner, ordered, given, admin>>
    BY <1>1 DEF OnlyCaller, tables, histories
  <2> QED
    BY <2>1, QuietStep
<1>2. ASSUME NEW k \in Keys, CreateAPIKey(c, k) PROVE PendingInv' /\ RowInv'
  <2>1. caller[c].user \in Users /\ HasUser(caller[c].user)
    BY <1>2 DEF CreateAPIKey, TypeOK, RequestsOK
  <2> QED
    BY <1>2, <2>1, KeyInv DEF CreateAPIKey, histories
<1>3. ASSUME NEW k \in Keys, DeleteAPIKey(c, k) PROVE PendingInv' /\ RowInv'
  BY <1>3, KeyInv DEF DeleteAPIKey, histories
<1> QED
  BY <1>1, <1>2, <1>3 DEF CallerStep, AuthToken, AuthKey, AuthUser, AuthKeyUser,
     AuthPermissions, Answer

LEMMA StepInv == TypeOK /\ PendingInv /\ RowInv /\ [Next]_vars => PendingInv' /\ RowInv'
<1> SUFFICES ASSUME TypeOK, PendingInv, RowInv, [Next]_vars PROVE PendingInv' /\ RowInv'
  OBVIOUS
<1>1. CASE UNCHANGED vars
  <2>1. UNCHANGED <<role, enabled, perms, owner, ordered, given, admin>>
    BY <1>1 DEF vars, tables, histories
  <2> QED
    BY <2>1, QuietStep
<1>2. ASSUME NEW u \in Users, Register(u) PROVE PendingInv' /\ RowInv'
  BY <1>2, InsertInv DEF Register
<1>3. ASSUME NEW u \in Users, NEW r \in Roles, CreateUser(u, r) PROVE PendingInv' /\ RowInv'
  BY <1>3, InsertInv DEF CreateUser
<1> QED
  BY <1>1, <1>2, <1>3, AdminInv, CallerInv, DeleteUserInv, RestartInv DEF Next, Step

LEMMA IInvStep == IInv /\ [Next]_vars => IInv'
  BY TypeStep, StepInv DEF IInv

LEMMA IInvHolds == Spec => []IInv
<1>1. Init => IInv
  BY InitTypes, PendingInit, RowInit DEF IInv
<1> QED
  BY <1>1, IInvStep, PTL DEF Spec

\* Foreign keys and the order of checks keep every reference, and the built-in roles.
THEOREM ReferencesHold == Spec => []References
<1>1. IInv => References
  BY DEF IInv, RowInv
<1> QED
  BY <1>1, IInvHolds, PTL

\* Only an update that crosses another one leaves a user enabled against the last call.
THEOREM EnabledSettles == Spec => []EnabledSettled
<1>1. IInv => EnabledSettled
  BY DEF IInv, RowInv
<1> QED
  BY <1>1, IInvHolds, PTL

\* Only transactions that cross leave a role with other permissions than the last ones.
THEOREM PermissionsSettle == Spec => []PermissionsSettled
<1>1. IInv => PermissionsSettled
  BY DEF IInv, RowInv
<1> QED
  BY <1>1, IInvHolds, PTL

-----------------------------------------------------------------------------
(* What a request is let in with.                                          *)

\* Once the user is read, it was enabled and had the role that was read.
ReadOK ==
    \A c \in Callers : caller[c].pc = "perms" =>
        since[c].enabled /\ caller[c].role \in since[c].roles

FreshInv == ReadOK /\ FreshRights

LEMMA FreshInit == Init => FreshInv
  BY DEF Init, FreshInv, ReadOK, FreshRights, IdleCaller

\* While a request lasts, what is observed of its user only grows.
LEMMA SinceGrows ==
  ASSUME TypeOK, Observe, NEW c \in Callers, caller[c].pc # "idle", caller'[c].pc # "idle"
  PROVE  /\ since[c].enabled => since'[c].enabled
         /\ since[c].roles \subseteq since'[c].roles
         /\ since[c].rights \subseteq since'[c].rights
<1>1. since'[c] = Seen(c)
  BY DEF Observe
<1>2. Seen(c).roles = since[c].roles \cup ({role'[caller'[c].user]} \ {None})
  BY DEF Seen
<1> DEFINE had == UNION {perms'[x] : x \in {y \in Seen(c).roles : perms'[y] # None}}
<1>3. Seen(c).rights = since[c].rights \cup had
  BY DEF Seen
<1>4. since[c].enabled => Seen(c).enabled
  BY DEF Seen
<1> HIDE DEF had
<1> QED
  BY <1>1, <1>2, <1>3, <1>4

\* The permissions of a role the user has had are among its rights.
LEMMA RightsSeen ==
  ASSUME TypeOK, Observe, NEW c \in Callers, caller[c].pc # "idle", caller'[c].pc # "idle",
         NEW r \in since[c].roles, perms'[r] # None
  PROVE  perms'[r] \subseteq since'[c].rights
<1>1. since'[c] = Seen(c)
  BY DEF Observe
<1> DEFINE roles == since[c].roles \cup ({role'[caller'[c].user]} \ {None})
           had == {perms'[x] : x \in {y \in roles : perms'[y] # None}}
<1>2. Seen(c).rights = since[c].rights \cup UNION had
  BY DEF Seen
<1>3. perms'[r] \in had
  OBVIOUS
<1> HIDE DEF had
<1> QED
  BY <1>1, <1>2, <1>3

\* A request at rest keeps what it has.
LEMMA FreshAtRest ==
  ASSUME TypeOK, FreshInv, Observe, NEW c \in Callers, caller'[c] = caller[c]
  PROVE  /\ caller'[c].pc = "perms" =>
              since'[c].enabled /\ caller'[c].role \in since'[c].roles
         /\ caller'[c].pc = "admitted" =>
              since'[c].enabled /\ caller'[c].granted \subseteq since'[c].rights
  BY SinceGrows DEF FreshInv, ReadOK, FreshRights

LEMMA FreshStep == TypeOK /\ FreshInv /\ [Next]_vars => FreshInv'
<1> SUFFICES ASSUME TypeOK, FreshInv, [Next]_vars PROVE FreshInv'
  OBVIOUS
<1>1. CASE UNCHANGED vars
  BY <1>1 DEF vars, FreshInv, ReadOK, FreshRights
<1>2. CASE Next
  <2> SUFFICES ASSUME NEW c \in Callers
               PROVE  /\ caller'[c].pc = "perms" =>
                           since'[c].enabled /\ caller'[c].role \in since'[c].roles
                      /\ caller'[c].pc = "admitted" =>
                           since'[c].enabled /\ caller'[c].granted \subseteq since'[c].rights
    BY DEF FreshInv, ReadOK, FreshRights
  <2>0. Observe /\ caller[c] \in CallerState
    BY <1>2 DEF Next, TypeOK, RequestsOK
  <2>1. CASE caller'[c] = caller[c]
    BY <2>0, <2>1, FreshAtRest
  <2>2. CASE caller'[c].pc \in {"idle", "user"}
    BY <2>2
  <2>3. ASSUME NEW u \in Users, AuthUser(c, u) PROVE
          caller'[c].pc = "perms" /\ since'[c].enabled /\ caller'[c].role \in since'[c].roles
    <3>1. caller'[c].pc = "perms" /\ caller'[c].user = u /\ caller'[c].role = role[u]
      BY <2>3 DEF AuthUser, CallerTo, IdleCaller, TypeOK, RequestsOK
    <3>2. role' = role /\ enabled' = enabled /\ role[u] # None /\ enabled[u]
      BY <2>3 DEF AuthUser, OnlyCaller, tables, HasUser
    <3>3. since'[c] = Seen(c)
      BY <2>0, <3>1 DEF Observe
    <3>4. Seen(c).enabled
      BY <3>1, <3>2 DEF Seen
    <3>5. role[u] \in Seen(c).roles
      BY <3>1, <3>2 DEF Seen
    <3> QED
      BY <3>1, <3>3, <3>4, <3>5
  <2>4. ASSUME AuthPermissions(c) PROVE
          /\ caller'[c].pc = "admitted" /\ since'[c].enabled
          /\ caller'[c].granted \subseteq since'[c].rights
    <3> DEFINE r == caller[c].role
    <3>1. /\ caller[c].pc = "perms" /\ caller'[c].pc = "admitted"
          /\ caller'[c].granted = IF HasRole(r) THEN perms[r] ELSE {}
      BY <2>0, <2>4 DEF AuthPermissions, CallerTo, CallerState, TypeOK, RequestsOK
    <3>2. since[c].enabled /\ r \in since[c].roles
      BY <3>1 DEF FreshInv, ReadOK
    <3>3. perms' = perms
      BY <2>4 DEF AuthPermissions, OnlyCaller, tables
    <3>4. since'[c].enabled
      BY <2>0, <3>1, <3>2, SinceGrows
    <3>5. perms[r] # None => perms[r] \subseteq since'[c].rights
      BY <2>0, <3>1, <3>2, <3>3, RightsSeen
    <3> QED
      BY <3>1, <3>4, <3>5 DEF HasRole
  <2>5. ASSUME NEW d \in Callers, CallerStep(d)
        PROVE  \/ caller'[c] = caller[c]
               \/ caller'[c].pc \in {"idle", "user"}
               \/ \E u \in Users : AuthUser(c, u)
               \/ AuthPermissions(c)
    <3>1. CASE d # c
      BY <2>5, <3>1 DEF CallerStep, AuthToken, AuthKey, AuthKeyUser, AuthUser, AuthPermissions,
         Answer, CreateAPIKey, DeleteAPIKey, CallerTo, TypeOK, RequestsOK
    <3>2. CASE d = c
      <4>1. ASSUME CallerTo(c, IdleCaller) PROVE caller'[c].pc = "idle"
        BY <4>1 DEF CallerTo, IdleCaller, TypeOK, RequestsOK
      <4>2. ASSUME NEW k \in Keys, AuthKey(c, k) PROVE caller'[c].pc = "user"
        BY <4>2 DEF AuthKey, CallerTo, IdleCaller, TypeOK, RequestsOK
      <4>3. ASSUME AuthKeyUser(c) PROVE \E u \in Users : AuthUser(c, u)
        BY <4>3 DEF AuthKeyUser, TypeOK, RequestsOK
      <4>4. ASSUME NEW k \in Keys, CreateAPIKey(c, k) \/ DeleteAPIKey(c, k)
            PROVE  CallerTo(c, IdleCaller)
        BY <4>4 DEF CreateAPIKey, DeleteAPIKey
      <4>5. ASSUME Answer(c) PROVE CallerTo(c, IdleCaller)
        BY <4>5 DEF Answer
      <4> QED
        BY <2>5, <3>2, <4>1, <4>2, <4>3, <4>4, <4>5 DEF CallerStep, AuthToken
    <3> QED
      BY <3>1, <3>2
  <2>6. ASSUME NEW a \in Admins, AdminStep(a) PROVE caller' = caller
    BY <2>6 DEF AdminStep, UpdateUser, CreateRole, UpdateRole, DeleteRole, UpdateUserWrite,
       SetRolePermissionsDelete, SetRolePermissionsCommit, DeleteRoleRow, Fail, Begin
  <2>7. ASSUME NEW u \in Users, Register(u) \/ DeleteUser(u) \/ \E r \in Roles : CreateUser(u, r)
        PROVE  caller' = caller
    BY <2>7 DEF Register, DeleteUser, CreateUser
  <2>8. ASSUME Restart PROVE caller'[c].pc = "idle"
    BY <2>8 DEF Restart, IdleCaller
  <2>9. \/ caller'[c] = caller[c]
        \/ caller'[c].pc \in {"idle", "user"}
        \/ \E u \in Users : AuthUser(c, u)
        \/ AuthPermissions(c)
    BY <1>2, <2>5, <2>6, <2>7, <2>8 DEF Next, Step
  <2> QED
    BY <2>1, <2>2, <2>3, <2>4, <2>9
<1> QED
  BY <1>1, <1>2

\* What was revoked before a request began lets nothing in, whatever changes meanwhile.
THEOREM RightsAreFresh == Spec => []FreshRights
<1>1. FreshInv => FreshRights
  BY DEF FreshInv
<1> QED
  BY <1>1, FreshInit, FreshStep, TypeCorrect, PTL DEF Spec
=============================================================================
