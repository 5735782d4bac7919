--------------------------- MODULE UserRowsProofs ---------------------------
(***************************************************************************)
(* Proofs about UserRows, for any users, plans, columns and calls.         *)
(***************************************************************************)
EXTENDS UserRows, TLAPS

USE BuiltinAssumption, FieldsAssumption, NoneAssumption, SeededAssumption

-----------------------------------------------------------------------------
(* Types, and what a call holds at each of its steps.                      *)

Sound(q) ==
    /\ q \in Call
    /\ q.pc \in {"invalidate", "insert", "password", "deleteUser", "upsert", "deleteSub"}
         => q.user \in Users
    /\ q.pc \in {"createPlan", "updatePlan", "count", "deletePlan", "upsert"} => q.plan \in Plans
    /\ q.pc = "updatePlan" => q.kind = "updatePlan" /\ \A f \in Fields : q.seen[f] # None
    /\ q.pc = "idle" => q.kind = "none" /\ ~q.slip
    /\ q.pc # "done" => q.answer = "none"
    /\ q.pc = "others" => q.kind = "update" /\ "others" \in q.asks
    /\ q.pc = "mark" => q.kind = "reset"
    /\ q.kind = "reset" => q.pc \in {"password", "mark", "done"} /\ q.token \in Calls
    /\ q.kind = "update" => q.pc \in {"password", "others", "done"}

CallsOK == \A c \in Calls : Sound(call[c])

TokenRow == [user : Users \cup {None}, used : BOOLEAN, expired : BOOLEAN]

RowsOK ==
    /\ password \in [Users -> Values]
    /\ token \in [Calls -> TokenRow]
    /\ subscription \in [Users -> Plans \cup {None}]
    /\ plan \in [Plans -> [Fields -> Values]]
    /\ \A p \in Plans : HasPlan(p) => \A f \in Fields : plan[p][f] # None
    /\ asked \in [Plans -> [Fields -> Values]]

TInv == TypeOK /\ CallsOK

LEMMA TokenFields ==
    \A x \in TokenRow, b \in BOOLEAN :
        [x EXCEPT !.used = b] \in TokenRow /\ [x EXCEPT !.expired = b] \in TokenRow
  BY DEF TokenRow

LEMMA TokenTypes == TInv => \A t \in Calls : token[t] \in TokenRow
  BY DEF TInv, TypeOK, TokenRow

LEMMA IdleSound == Sound(Idle)
  BY DEF Sound, Idle, Call, Kinds, Steps, NoPlan, Values

LEMMA InitTypes == Init => TInv
  BY IdleSound DEF Init, TInv, TypeOK, CallsOK, Sound, NoToken, NoPlan, Values, Seeded, HasPlan

LEMMA Parts == TInv <=> RowsOK /\ CallsOK /\ call \in [Calls -> Call]
                          /\ met \in [Calls -> SUBSET Calls]
  BY DEF TInv, TypeOK, RowsOK, CallsOK, Sound, TokenRow

\* One call changes.
LEMMA CallTypes ==
  ASSUME TInv, NEW c \in Calls, NEW q, Sound(q), call' = [call EXCEPT ![c] = q]
  PROVE  CallsOK' /\ call' \in [Calls -> Call]
<1>1. ASSUME NEW b \in Calls PROVE call'[b] = IF b = c THEN q ELSE call[b]
  BY DEF TInv, TypeOK
<1>2. ASSUME NEW b \in Calls PROVE Sound(call'[b])
  BY <1>1 DEF TInv, CallsOK
<1>3. CallsOK'
  BY <1>2 DEF CallsOK, Sound
<1> QED
  BY <1>3 DEF TInv, TypeOK, Sound

LEMMA GotoTypes ==
  ASSUME TInv, NEW c \in Calls, NEW pc \in Steps, Sound([call[c] EXCEPT !.pc = pc]), Goto(c, pc)
  PROVE  CallsOK' /\ call' \in [Calls -> Call]
<1>1. call' = [call EXCEPT ![c] = [call[c] EXCEPT !.pc = pc]]
  BY DEF Goto, TInv, TypeOK
<1> QED
  BY <1>1, CallTypes

LEMMA AnswerTypes ==
  ASSUME TInv, NEW c \in Calls, NEW a \in {"ok", "error"}, Running(c), Answer(c, a)
  PROVE  CallsOK' /\ call' \in [Calls -> Call]
<1> DEFINE q == [call[c] EXCEPT !.pc = "done", !.answer = a]
<1>1. call' = [call EXCEPT ![c] = q]
  BY DEF Answer, TInv, TypeOK
<1>0. call[c] \in Call
  BY DEF TInv, TypeOK
<1>2. q \in Call
  BY <1>0 DEF Call, Steps
<1>3. q.pc = "done" /\ q.kind = call[c].kind /\ q.token = call[c].token
  BY DEF TInv, TypeOK, Call
<1>4. call[c].kind = "reset" => call[c].token \in Calls
  BY DEF TInv, CallsOK, Sound
<1>5. Sound(q)
  BY <1>2, <1>3, <1>4 DEF Sound
<1> QED
  BY <1>1, <1>5, CallTypes

LEMMA LostTypes ==
  ASSUME TInv, NEW c \in Calls, Running(c), Lost(c)
  PROVE  CallsOK' /\ call' \in [Calls -> Call]
<1> DEFINE q == [call[c] EXCEPT !.pc = "done", !.lost = TRUE, !.answer = "error"]
<1>1. call' = [call EXCEPT ![c] = q]
  BY DEF Lost, TInv, TypeOK
<1>0. call[c] \in Call
  BY DEF TInv, TypeOK
<1>2. q \in Call
  BY <1>0 DEF Call, Steps
<1>3. q.pc = "done" /\ q.kind = call[c].kind /\ q.token = call[c].token
  BY DEF TInv, TypeOK, Call
<1>4. call[c].kind = "reset" => call[c].token \in Calls
  BY DEF TInv, CallsOK, Sound
<1>5. Sound(q)
  BY <1>2, <1>3, <1>4 DEF Sound
<1> QED
  BY <1>1, <1>5, CallTypes

LEMMA SlipTypes ==
  ASSUME TInv, NEW c \in Calls, NEW pc \in Steps,
         Sound([call[c] EXCEPT !.pc = pc, !.slip = TRUE]), Slip(c, pc)
  PROVE  CallsOK' /\ call' \in [Calls -> Call]
<1>1. call' = [call EXCEPT ![c] = [call[c] EXCEPT !.pc = pc, !.slip = TRUE]]
  BY DEF Slip, TInv, TypeOK
<1> QED
  BY <1>1, CallTypes

LEMMA BeginTypes ==
  ASSUME TInv, NEW c \in Calls, NEW q, Sound(q), Begin(c, q)
  PROVE  RowsOK' /\ CallsOK' /\ call' \in [Calls -> Call]
<1>1. RowsOK'
  BY DEF Begin, rows, TInv, TypeOK, RowsOK, HasPlan, TokenRow
<1> QED
  BY <1>1, CallTypes DEF Begin

LEMMA RequestTypes ==
  ASSUME TInv, NEW c \in Calls, Request(c)
  PROVE  RowsOK' /\ CallsOK' /\ call' \in [Calls -> Call]
<1> USE DEF Idle, Sound, Call, Kinds, Steps
<1> DEFINE Goal == RowsOK' /\ CallsOK' /\ call' \in [Calls -> Call]
<1>0. NoPlan \in [Fields -> Values]
  BY DEF NoPlan, Values
<1>1. ASSUME NEW u \in Users, ForgotPassword(c, u) PROVE Goal
  BY <1>0, <1>1, BeginTypes DEF ForgotPassword
<1>2. ASSUME NEW u \in Users, DeleteUser(c, u) PROVE Goal
  BY <1>0, <1>2, BeginTypes DEF DeleteUser
<1>3. ASSUME NEW u \in Users, DeleteSubscription(c, u) PROVE Goal
  BY <1>0, <1>3, BeginTypes DEF DeleteSubscription
<1>4. ASSUME NEW u \in Users, NEW A \in SUBSET {"password", "others"}, UpdateUser(c, u, A)
      PROVE  Goal
  <2> DEFINE q == [Idle EXCEPT !.kind = "update", !.user = u, !.asks = A,
                     !.pc = IF "password" \in A THEN "password" ELSE "others"]
  <2>1. Begin(c, q)
    BY <1>4 DEF UpdateUser
  <2>2. CASE "password" \in A
    <3>1. Sound([Idle EXCEPT !.kind = "update", !.user = u, !.asks = A, !.pc = "password"])
      BY <1>0
    <3> QED
      BY <2>1, <2>2, <3>1, BeginTypes
  <2>3. CASE "password" \notin A
    <3>1. "others" \in A
      BY <1>4, <2>3 DEF UpdateUser
    <3>2. Sound([Idle EXCEPT !.kind = "update", !.user = u, !.asks = A, !.pc = "others"])
      BY <1>0, <3>1
    <3> QED
      BY <2>1, <2>3, <3>2, BeginTypes
  <2> QED
    BY <2>2, <2>3
<1>5. ASSUME NEW u \in Users, NEW p \in Plans, AssignPlan(c, u, p) PROVE Goal
  BY <1>0, <1>5, BeginTypes DEF AssignPlan
<1>6. ASSUME NEW t \in Calls, ResetPassword(c, t) PROVE Goal
  <2>1. token[t].user \in Users
    BY <1>6 DEF ResetPassword, HasToken, TInv, TypeOK
  <2> QED
    BY <1>0, <1>6, <2>1, BeginTypes DEF ResetPassword
<1>7. ASSUME NEW p \in Plans, CreatePlan(c, p) PROVE Goal
  BY <1>0, <1>7, BeginTypes DEF CreatePlan
<1>8. ASSUME NEW p \in Plans, DeletePlan(c, p) PROVE Goal
  BY <1>0, <1>8, BeginTypes DEF DeletePlan
<1>9. ASSUME NEW p \in Plans, NEW F \in SUBSET Fields, UpdatePlan(c, p, F) PROVE Goal
  <2>1. plan[p] \in [Fields -> Values] /\ \A f \in Fields : plan[p][f] # None
    BY <1>9 DEF UpdatePlan, TInv, TypeOK
  <2> QED
    BY <1>9, <2>1, BeginTypes DEF UpdatePlan
<1> QED
  BY <1>1, <1>2, <1>3, <1>4, <1>5, <1>6, <1>7, <1>8, <1>9 DEF Request

LEMMA TokenStatementTypes ==
  ASSUME TInv, NEW c \in Calls,
         \/ InvalidateTokens(c) \/ InsertToken(c) \/ SendToken(c) \/ UpdateUserPassword(c)
         \/ MarkResetTokenUsed(c) \/ UpdateUserOthers(c) \/ DeleteUserRow(c)
  PROVE  RowsOK' /\ CallsOK' /\ call' \in [Calls -> Call]
<1> DEFINE Goal == CallsOK' /\ call' \in [Calls -> Call]
<1> USE DEF At, rows
<1>0. Sound(call[c]) /\ call[c] \in Call
  BY DEF TInv, CallsOK, Sound
<1>1. ASSUME InvalidateTokens(c) PROVE Goal
  <2>1. /\ Sound([call[c] EXCEPT !.pc = "insert"])
        /\ Sound([call[c] EXCEPT !.pc = "insert", !.slip = TRUE])
    BY <1>0, <1>1 DEF InvalidateTokens, Sound, Call, Steps
  <2> QED
    BY <1>1, <2>1, GotoTypes, SlipTypes DEF InvalidateTokens, Steps
<1>2. ASSUME InsertToken(c) PROVE Goal
  <2>1. Sound([call[c] EXCEPT !.pc = "mail"])
    BY <1>0, <1>2 DEF InsertToken, Sound, Call, Steps
  <2> QED
    BY <1>2, <2>1, GotoTypes, LostTypes DEF InsertToken, Proceed, Steps, Running
<1>3. ASSUME SendToken(c) \/ UpdateUserOthers(c) \/ DeleteUserRow(c) PROVE Goal
  BY <1>3, AnswerTypes, LostTypes DEF SendToken, UpdateUserOthers, DeleteUserRow, Succeed, Running
<1>4. ASSUME UpdateUserPassword(c) PROVE Goal
  <2>1. ASSUME call[c].kind = "reset" PROVE Sound([call[c] EXCEPT !.pc = "mark"])
    BY <1>0, <1>4, <2>1 DEF UpdateUserPassword, Sound, Call, Steps
  <2>2. ASSUME call[c].kind = "update", "others" \in call[c].asks
        PROVE  Sound([call[c] EXCEPT !.pc = "others"])
    BY <1>0, <1>4, <2>2 DEF UpdateUserPassword, Sound, Call, Steps
  <2> QED
    BY <1>4, <2>1, <2>2, GotoTypes, AnswerTypes, LostTypes
       DEF UpdateUserPassword, Proceed, Succeed, Steps, Running
<1>5. ASSUME MarkResetTokenUsed(c) PROVE Goal
  <2> DEFINE q == [call[c] EXCEPT !.pc = "done", !.slip = TRUE, !.answer = "ok"]
  <2>1. Sound(q)
    BY <1>0, <1>5 DEF MarkResetTokenUsed, Sound, Call, Steps
  <2>2. Answer(c, "ok") \/ call' = [call EXCEPT ![c] = q]
    BY <1>5 DEF MarkResetTokenUsed, TInv, TypeOK
  <2> QED
    BY <1>5, <2>1, <2>2, AnswerTypes, CallTypes DEF MarkResetTokenUsed, Running
<1>6. RowsOK'
  <2> USE DEF TInv, TypeOK, RowsOK, HasPlan, TokenRow
  <2>1. CASE InvalidateTokens(c)
    <3>1. ASSUME NEW t \in Calls PROVE [token[t] EXCEPT !.used = TRUE] \in TokenRow
      BY <3>1, TokenFields, TokenTypes
    <3>2. token' \in [Calls -> TokenRow]
      BY <2>1, <3>1 DEF InvalidateTokens, TokenRow
    <3> QED
      BY <2>1, <3>2 DEF InvalidateTokens, TokenRow
  <2>2. CASE InsertToken(c)
    BY <1>0, <2>2 DEF InsertToken, NoToken, Sound
  <2>3. CASE SendToken(c) \/ UpdateUserOthers(c)
    BY <2>3 DEF SendToken, UpdateUserOthers
  <2>4. CASE UpdateUserPassword(c)
    BY <2>4 DEF UpdateUserPassword, Values
  <2>5. CASE MarkResetTokenUsed(c)
    <3> DEFINE t == call[c].token
               b == HasToken(t)
    <3>1. t \in Calls /\ b \in BOOLEAN
      BY <1>0, <2>5 DEF MarkResetTokenUsed, Sound, HasToken
    <3>2. [token[t] EXCEPT !.used = b] \in TokenRow
      BY <3>1, TokenFields, TokenTypes
    <3>3. token' = [token EXCEPT ![t] = [token[t] EXCEPT !.used = b]] \/ token' = token
      BY <2>5, <3>1 DEF MarkResetTokenUsed
    <3>4. token' \in [Calls -> TokenRow]
      BY <3>1, <3>2, <3>3 DEF TokenRow
    <3> QED
      BY <2>5, <3>4 DEF MarkResetTokenUsed, TokenRow
  <2>6. CASE DeleteUserRow(c)
    BY <2>6 DEF DeleteUserRow, NoToken, Values
  <2> QED
    BY <2>1, <2>2, <2>3, <2>4, <2>5, <2>6
<1> QED
  BY <1>1, <1>2, <1>3, <1>4, <1>5, <1>6

LEMMA PlanStatementTypes ==
  ASSUME TInv, NEW c \in Calls,
         \/ CreatePlanRow(c) \/ UpdatePlanRow(c) \/ CountSubscriptions(c) \/ DeletePlanRow(c)
         \/ UpsertSubscription(c) \/ DeleteSubscriptionRow(c) \/ Fail(c)
  PROVE  RowsOK' /\ CallsOK' /\ call' \in [Calls -> Call]
<1> DEFINE Goal == CallsOK' /\ call' \in [Calls -> Call]
<1> USE DEF At, rows
<1>0. Sound(call[c]) /\ call[c] \in Call
  BY DEF TInv, CallsOK, Sound
<1>1. ASSUME CountSubscriptions(c) PROVE Goal
  <2>1. /\ Sound([call[c] EXCEPT !.pc = "deletePlan"])
        /\ Sound([call[c] EXCEPT !.pc = "deletePlan", !.slip = TRUE])
    BY <1>0, <1>1 DEF CountSubscriptions, Sound, Call, Steps
  <2> QED
    BY <1>1, <2>1, GotoTypes, SlipTypes DEF CountSubscriptions, Steps
<1>2. ASSUME ~CountSubscriptions(c) PROVE Goal
  <2>1. Running(c) /\ (Answer(c, "ok") \/ Answer(c, "error") \/ Lost(c))
    BY <1>2 DEF CreatePlanRow, UpdatePlanRow, DeletePlanRow, UpsertSubscription,
                DeleteSubscriptionRow, Fail, Succeed, Running
  <2> QED
    BY <2>1, AnswerTypes, LostTypes
<1>3. RowsOK'
  <2> USE DEF TInv, TypeOK, RowsOK, HasPlan, TokenRow
  <2>1. CASE CountSubscriptions(c) \/ Fail(c)
    BY <2>1 DEF CountSubscriptions, Fail
  <2>2. CASE CreatePlanRow(c)
    <3>1. c \in Values /\ c # None
      BY DEF Values
    <3> QED
      BY <1>0, <2>2, <3>1 DEF CreatePlanRow, Sound
  <2>3. CASE UpdatePlanRow(c)
    <3>1. c \in Values /\ c # None /\ call[c].plan \in Plans
          /\ call[c].seen \in [Fields -> Values] /\ \A f \in Fields : call[c].seen[f] # None
      BY <1>0, <2>3 DEF Values, UpdatePlanRow, Sound, Call
    <3> QED
      BY <2>3, <3>1 DEF UpdatePlanRow, Merged
  <2>4. CASE DeletePlanRow(c)
    BY <1>0, <2>4 DEF DeletePlanRow, NoPlan, Values, Sound
  <2>5. CASE UpsertSubscription(c)
    BY <1>0, <2>5 DEF UpsertSubscription, Sound
  <2>6. CASE DeleteSubscriptionRow(c)
    BY <1>0, <2>6 DEF DeleteSubscriptionRow, Sound
  <2> QED
    BY <2>1, <2>2, <2>3, <2>4, <2>5, <2>6
<1> QED
  BY <1>1, <1>2, <1>3

LEMMA RestartTypes ==
  ASSUME TInv, Restart
  PROVE  RowsOK' /\ CallsOK' /\ call' \in [Calls -> Call]
<1>1. ASSUME NEW p \in Plans
      PROVE  /\ Seeded(p, plan) \in [Fields -> Values]
             /\ Seeded(p, plan) # NoPlan => \A f \in Fields : Seeded(p, plan)[f] # None
  BY DEF TInv, TypeOK, Seeded, Values, HasPlan
<1>2. RowsOK'
  BY <1>1 DEF Restart, TInv, TypeOK, RowsOK, HasPlan, TokenRow
<1>3. ASSUME NEW c \in Calls PROVE Sound(call'[c])
  <2>1. Sound(call[c]) /\ call[c] \in Call
    BY DEF TInv, CallsOK, Sound
  <2>2. CASE Running(c)
    <3>1. Sound([call[c] EXCEPT !.pc = "done"])
      BY <2>1 DEF Sound, Call, Steps
    <3> QED
      BY <2>2, <3>1 DEF Restart
  <2>3. CASE ~Running(c)
    BY <2>1, <2>3 DEF Restart
  <2> QED
    BY <2>2, <2>3
<1>4. call' \in [Calls -> Call]
  BY <1>3 DEF Restart, Sound
<1> QED
  BY <1>2, <1>3, <1>4 DEF CallsOK, Sound

LEMMA ExpireTypes ==
  ASSUME TInv, NEW t \in Calls, Expire(t)
  PROVE  RowsOK' /\ CallsOK' /\ call' \in [Calls -> Call]
<1>1. [token[t] EXCEPT !.expired = TRUE] \in TokenRow
  BY TokenFields, TokenTypes
<1>2. token' = [token EXCEPT ![t] = [token[t] EXCEPT !.expired = TRUE]]
  BY DEF Expire, TInv, TypeOK
<1>3. token' \in [Calls -> TokenRow]
  BY <1>1, <1>2 DEF TInv, TypeOK, TokenRow
<1>4. RowsOK'
  BY <1>3 DEF Expire, TInv, TypeOK, RowsOK, HasPlan, TokenRow
<1>5. CallsOK' /\ call' \in [Calls -> Call]
  BY DEF Expire, TInv, TypeOK, CallsOK, Sound
<1> QED
  BY <1>4, <1>5

LEMMA ObserveTypes == met \in [Calls -> SUBSET Calls] /\ Observe => met' \in [Calls -> SUBSET Calls]
  BY DEF Observe

LEMMA TypeStep == TInv /\ [Next]_vars => TInv'
<1> SUFFICES ASSUME TInv, [Next]_vars PROVE TInv'
  OBVIOUS
<1>1. CASE UNCHANGED vars
  BY <1>1 DEF vars, rows, TInv, TypeOK, CallsOK, Sound, HasPlan
<1>2. CASE Next
  <2>1. RowsOK' /\ CallsOK' /\ call' \in [Calls -> Call]
    <3>1. CASE Restart
      BY <3>1, RestartTypes
    <3>2. ASSUME NEW c \in Calls, Request(c) \/ Statement(c) \/ Expire(c)
          PROVE  RowsOK' /\ CallsOK' /\ call' \in [Calls -> Call]
      BY <3>2, RequestTypes, TokenStatementTypes, PlanStatementTypes, ExpireTypes DEF Statement
    <3> QED
      BY <1>2, <3>1, <3>2 DEF Next, Step
  <2>2. met' \in [Calls -> SUBSET Calls]
    BY <1>2, ObserveTypes DEF Next, TInv, TypeOK
  <2> QED
    BY <2>1, <2>2 DEF TInv, TypeOK, RowsOK, TokenRow
<1> QED
  BY <1>1, <1>2

LEMMA TypesAlways == Spec => []TInv
  BY InitTypes, TypeStep, PTL DEF Spec

\* Rows and calls keep their types, and a plan that is there has every column.
THEOREM TypeCorrect == Spec => []TypeOK
  BY TypesAlways, PTL DEF TInv

-----------------------------------------------------------------------------
(* References.                                                             *)

RefInv == TInv /\ References

LEMMA ReferencesStatement ==
  ASSUME RefInv, NEW c \in Calls, Statement(c)
  PROVE  References'
<1> USE DEF RefInv, References, HasUser, HasToken, rows
<1>0. Sound(call[c])
  BY DEF TInv, CallsOK
<1>1. CASE InvalidateTokens(c)
  <2>1. \A t \in Calls : token'[t].user = token[t].user
    BY <1>1, TokenTypes DEF InvalidateTokens, TokenRow
  <2> QED
    BY <1>1, <2>1 DEF InvalidateTokens, HasPlan
<1>2. CASE InsertToken(c)
  <2>1. \A t \in Calls : token'[t].user \in {token[t].user, call[c].user}
    BY <1>2 DEF InsertToken, NoToken, TInv, TypeOK
  <2>2. call[c].user \in Users
    BY <1>0, <1>2 DEF InsertToken, Sound, At
  <2> QED
    BY <1>2, <2>1, <2>2 DEF InsertToken, HasPlan
<1>3. CASE SendToken(c) \/ UpdateUserOthers(c) \/ CountSubscriptions(c) \/ Fail(c)
  BY <1>3 DEF SendToken, UpdateUserOthers, CountSubscriptions, Fail, HasPlan
<1>4. CASE UpdateUserPassword(c)
  <2>1. \A u \in Users : HasUser(u)' <=> HasUser(u)
    BY <1>4 DEF UpdateUserPassword, TInv, TypeOK
  <2> QED
    BY <1>4, <2>1 DEF UpdateUserPassword, HasPlan, TInv, TypeOK
<1>5. CASE MarkResetTokenUsed(c)
  <2>1. \A t \in Calls : token'[t].user = token[t].user
    <3> DEFINE k == call[c].token
    <3>1. token' = token \/ token' = [token EXCEPT ![k] = [token[k] EXCEPT !.used = HasToken(k)]]
      BY <1>5 DEF MarkResetTokenUsed
    <3>2. \A t \in Calls : token[t] \in TokenRow
      BY TokenTypes
    <3> HIDE DEF k
    <3> QED
      BY <3>1, <3>2 DEF TokenRow, TInv, TypeOK
  <2> QED
    BY <1>5, <2>1 DEF MarkResetTokenUsed, HasPlan
<1>6. CASE DeleteUserRow(c)
  <2> DEFINE u == call[c].user
  <2>1. u \in Users
    BY <1>0, <1>6 DEF DeleteUserRow, Sound, At
  <2>2. \A t \in Calls : HasToken(t)' => token'[t].user = token[t].user /\ token[t].user # u
    BY <1>6 DEF DeleteUserRow, NoToken
  <2>3. \A v \in Users : v # u => password'[v] = password[v] /\ subscription'[v] = subscription[v]
    BY <1>6, <2>1 DEF DeleteUserRow, TInv, TypeOK
  <2>4. subscription'[u] = None
    BY <1>6, <2>1 DEF DeleteUserRow, TInv, TypeOK
  <2>5. plan' = plan
    BY <1>6 DEF DeleteUserRow
  <2> QED
    BY <2>1, <2>2, <2>3, <2>4, <2>5, TokenTypes DEF HasPlan, TokenRow
<1>7. CASE CreatePlanRow(c) \/ UpdatePlanRow(c)
  <2>1. /\ c # None
        /\ UpdatePlanRow(c) => \A f \in Fields : call[c].seen[f] # None
    BY <1>0 DEF UpdatePlanRow, Sound, At
  <2>2. PICK f \in Fields : TRUE
    OBVIOUS
  <2>3. \A p \in Plans : HasPlan(p) => HasPlan(p)'
    <3>1. CASE CreatePlanRow(c)
      BY <2>1, <2>2, <3>1 DEF CreatePlanRow, HasPlan, NoPlan, TInv, TypeOK
    <3>2. CASE UpdatePlanRow(c)
      <4>1. Merged(c)[f] # None
        BY <2>1, <2>2, <3>2 DEF Merged
      <4>2. Merged(c) # NoPlan
        BY <2>2, <4>1 DEF NoPlan
      <4> QED
        BY <3>2, <4>2 DEF UpdatePlanRow, HasPlan, TInv, TypeOK
    <3> QED
      BY <1>7, <3>1, <3>2
  <2> QED
    BY <1>7, <2>3 DEF CreatePlanRow, UpdatePlanRow, TInv, TypeOK
<1>8. CASE DeletePlanRow(c)
  <2>1. \A p \in Plans : Subscribed(p) /\ HasPlan(p) => HasPlan(p)'
    BY <1>8 DEF DeletePlanRow, HasPlan, TInv, TypeOK
  <2> QED
    BY <1>8, <2>1 DEF DeletePlanRow, Subscribed, TInv, TypeOK
<1>9. CASE UpsertSubscription(c)
  BY <1>0, <1>9 DEF UpsertSubscription, HasPlan, Sound, At, TInv, TypeOK
<1>10. CASE DeleteSubscriptionRow(c)
  BY <1>0, <1>10 DEF DeleteSubscriptionRow, HasPlan, Sound, At, TInv, TypeOK
<1> QED
  BY <1>1, <1>2, <1>3, <1>4, <1>5, <1>6, <1>7, <1>8, <1>9, <1>10 DEF Statement

\* A call that begins changes no row.
LEMMA BeginsQuietly ==
  ASSUME NEW c \in Calls, Request(c)
  PROVE  \E q : Begin(c, q)
  BY DEF Request, ForgotPassword, DeleteUser, DeleteSubscription, UpdateUser, AssignPlan,
         ResetPassword, CreatePlan, DeletePlan, UpdatePlan

LEMMA ReferencesStep == RefInv /\ [Next]_vars => RefInv'
<1> SUFFICES ASSUME RefInv, [Next]_vars PROVE References'
  BY TypeStep DEF RefInv
<1> USE DEF RefInv, References, HasUser, HasToken, rows
<1>1. CASE UNCHANGED vars
  BY <1>1 DEF vars, HasPlan
<1>2. CASE Restart
  <2>1. \A p \in Plans : HasPlan(p) => HasPlan(p)'
    BY <1>2 DEF Restart, Seeded, HasPlan
  <2> QED
    BY <1>2, <2>1 DEF Restart, TInv, TypeOK
<1>3. ASSUME NEW c \in Calls, Request(c) PROVE References'
  BY <1>3, BeginsQuietly DEF Begin, HasPlan
<1>4. ASSUME NEW t \in Calls, Expire(t) PROVE References'
  <2>1. \A b \in Calls : token'[b].user = token[b].user
    BY <1>4, TokenTypes DEF Expire, TokenRow, TInv, TypeOK
  <2> QED
    BY <1>4, <2>1 DEF Expire, HasPlan
<1> QED
  BY <1>1, <1>2, <1>3, <1>4, ReferencesStatement DEF Next, Step

LEMMA ReferencesInit == Init => References
  BY DEF Init, References, HasToken, NoToken

\* What a row refers to is there, whatever calls cross each other and fail.
THEOREM ReferencesHold == Spec => []References
<1>1. Init => RefInv
  BY InitTypes, ReferencesInit DEF RefInv
<1> QED
  BY <1>1, ReferencesStep, PTL DEF Spec, RefInv

-----------------------------------------------------------------------------
(* Passwords.                                                              *)

\* A call that may have written a password, and can still end as it may.
Wrote(q) ==
    \/ q.lost /\ q.pc = "done"
    \/ q.kind = "reset" /\ q.pc \in {"mark", "done"} /\ q.answer # "error"
    \/ /\ q.kind = "update" /\ q.pc \in {"others", "done"}
       /\ q.pc = "others" \/ q.answer = "error" => "others" \in q.asks

PasswordInv ==
    /\ TInv
    /\ \A u \in Users, c \in Calls : password[u] = c => Wrote(call[c])

\* A statement changes its own call.
LEMMA OthersKept ==
  ASSUME TInv, NEW b \in Calls, Statement(b), NEW c \in Calls, c # b
  PROVE  call'[c] = call[c]
<1>1. \A pc : Goto(b, pc) => call'[c] = call[c]
  BY DEF Goto, TInv, TypeOK
<1>2. \A pc : Slip(b, pc) => call'[c] = call[c]
  BY DEF Slip, TInv, TypeOK
<1>3. \A a : Answer(b, a) \/ Lost(b) => call'[c] = call[c]
  BY DEF Answer, Lost, TInv, TypeOK
<1>4. MarkResetTokenUsed(b) => call'[c] = call[c]
  BY <1>3 DEF MarkResetTokenUsed, TInv, TypeOK
<1>5. ASSUME InvalidateTokens(b) \/ InsertToken(b) \/ UpdateUserPassword(b)
             \/ CountSubscriptions(b) \/ SendToken(b)
      PROVE  call'[c] = call[c]
  BY <1>1, <1>2, <1>3, <1>5 DEF InvalidateTokens, InsertToken, UpdateUserPassword,
                                CountSubscriptions, SendToken, Proceed, Succeed
<1>6. ASSUME UpdateUserOthers(b) \/ DeleteUserRow(b) \/ CreatePlanRow(b) \/ UpdatePlanRow(b)
             \/ DeletePlanRow(b) \/ UpsertSubscription(b) \/ DeleteSubscriptionRow(b) \/ Fail(b)
      PROVE  call'[c] = call[c]
  BY <1>3, <1>6 DEF UpdateUserOthers, DeleteUserRow, CreatePlanRow, UpdatePlanRow, DeletePlanRow,
                    UpsertSubscription, DeleteSubscriptionRow, Fail, Succeed
<1> QED
  BY <1>4, <1>5, <1>6 DEF Statement

LEMMA WroteKept ==
  ASSUME TInv, NEW c \in Calls, Wrote(call[c]), [Next]_vars
  PROVE  Wrote(call'[c])
<1> USE DEF Wrote, Goto, Slip, Answer, At, Running
<1>0. Sound(call[c]) /\ call[c] \in Call
  BY DEF TInv, CallsOK, Sound
<1>1. CASE call' = call
  BY <1>1
<1>2. CASE Restart
  BY <1>0, <1>2 DEF Restart, Call
<1>3. ASSUME NEW b \in Calls, NEW q, Begin(b, q) PROVE Wrote(call'[c])
  BY <1>0, <1>3 DEF Begin, TInv, TypeOK
<1>4. ASSUME NEW b \in Calls, Statement(b), b # c PROVE Wrote(call'[c])
  BY <1>4, OthersKept
<1>5. CASE Statement(c)
  <2>1. call[c].pc \in {"mark", "others", "done"}
    OBVIOUS
  <2>2. MarkResetTokenUsed(c) \/ UpdateUserOthers(c) \/ (Fail(c) /\ call[c].pc = "others")
    BY <1>5, <2>1
       DEF Statement, InvalidateTokens, InsertToken, SendToken, UpdateUserPassword,
           DeleteUserRow, CreatePlanRow, UpdatePlanRow, CountSubscriptions, DeletePlanRow,
           UpsertSubscription, DeleteSubscriptionRow, Fail
  <2>3. CASE MarkResetTokenUsed(c)
    BY <1>0, <2>3 DEF MarkResetTokenUsed, TInv, TypeOK, Call
  <2>4. CASE UpdateUserOthers(c)
    BY <1>0, <2>4 DEF UpdateUserOthers, TInv, TypeOK, Call
  <2>5. CASE Fail(c) /\ call[c].pc = "others"
    BY <1>0, <2>5 DEF Fail, TInv, TypeOK, Call
  <2> QED
    BY <2>2, <2>3, <2>4, <2>5
<1> QED
  BY <1>1, <1>2, <1>3, <1>4, <1>5, BeginsQuietly DEF Next, Step, Expire, vars

LEMMA PasswordStep == PasswordInv /\ [Next]_vars => PasswordInv'
<1> SUFFICES ASSUME PasswordInv, [Next]_vars, NEW u \in Users, NEW c \in Calls, password'[u] = c
             PROVE  Wrote(call'[c])
  BY TypeStep DEF PasswordInv
<1>0. TInv /\ Sound(call[c]) /\ call[c] \in Call /\ c # None
  BY DEF PasswordInv, TInv, CallsOK, Sound
<1>1. CASE password[u] = c
  BY <1>1, WroteKept DEF PasswordInv
<1>2. CASE password[u] # c
  <2>1. ~UNCHANGED password
    BY <1>2
  <2>2. PICK b \in Calls : UpdateUserPassword(b) \/ DeleteUserRow(b)
    <3>1. ASSUME NEW b \in Calls, Request(b) PROVE UNCHANGED password
      BY <3>1, BeginsQuietly DEF Begin, rows
    <3>2. ASSUME NEW b \in Calls, Statement(b), ~UpdateUserPassword(b), ~DeleteUserRow(b)
          PROVE  UNCHANGED password
      BY <3>2 DEF Statement, InvalidateTokens, InsertToken, SendToken, MarkResetTokenUsed,
              UpdateUserOthers, CreatePlanRow, UpdatePlanRow, CountSubscriptions, DeletePlanRow,
              UpsertSubscription, DeleteSubscriptionRow, Fail, rows
    <3> QED
      BY <2>1, <3>1, <3>2 DEF Next, Step, Restart, Expire, vars, rows
  <2>3. UpdateUserPassword(b) /\ b = c
    BY <1>0, <1>2, <2>2 DEF UpdateUserPassword, DeleteUserRow, TInv, TypeOK
  <2>4. call[c].pc = "password" /\ call[c].answer = "none"
    BY <1>0, <2>3 DEF UpdateUserPassword, At, Sound
  <2>8. CASE Lost(c)
    BY <1>0, <2>8 DEF Wrote, Lost, TInv, TypeOK, Call
  <2>5. CASE call[c].kind = "reset" /\ Goto(c, "mark")
    BY <1>0, <2>4, <2>5 DEF Wrote, Goto, TInv, TypeOK, Call
  <2>6. CASE call[c].kind = "update" /\ "others" \in call[c].asks /\ Goto(c, "others")
    BY <1>0, <2>4, <2>6 DEF Wrote, Goto, TInv, TypeOK, Call
  <2>7. CASE call[c].kind = "update" /\ Answer(c, "ok")
    BY <1>0, <2>4, <2>7 DEF Wrote, Answer, TInv, TypeOK, Call
  <2> QED
    BY <2>3, <2>5, <2>6, <2>7, <2>8 DEF UpdateUserPassword, Proceed, Succeed
<1> QED
  BY <1>1, <1>2

\* A request that ends in an error has left the password alone, unless the answer of
\* its UPDATE was lost, or it is an UpdateUser that asks for more than a password.
THEOREM ErrorsKeepPasswords == Spec => []ErrorKeepsPassword
<1>1. Init => PasswordInv
  BY InitTypes DEF Init, PasswordInv
<1>2. PasswordInv => ErrorKeepsPassword
  BY DEF PasswordInv, ErrorKeepsPassword, Wrote
<1> QED
  BY <1>1, <1>2, PasswordStep, PTL DEF Spec

-----------------------------------------------------------------------------
(* Plans.                                                                  *)

\* A token that works.
Open(t) == HasToken(t) /\ ~token[t].used

\* What a call knows when it begins.
Fresh(q) ==
    /\ q.pc \in {"invalidate", "password", "others", "deleteUser", "createPlan", "updatePlan",
                 "count", "upsert", "deleteSub"}
    /\ q.pc = "updatePlan" => q.seen = plan[q.plan]
    /\ q.kind = "reset" => Open(q.token)
    /\ ~q.slip /\ q.answer = "none"

LEMMA BeginsFresh ==
  ASSUME NEW c \in Calls, Request(c)
  PROVE  \E q : Begin(c, q) /\ Fresh(q)
<1> DEFINE Goal == \E q : Begin(c, q) /\ Fresh(q)
<1> USE DEF Fresh
<1>1. ASSUME NEW q, Begin(c, q), Fresh(q) PROVE Goal
  BY <1>1
<1> HIDE DEF Goal
<1>2. ASSUME NEW u \in Users, ForgotPassword(c, u) PROVE Goal
  <2> DEFINE q == [Idle EXCEPT !.kind = "forgot", !.pc = "invalidate", !.user = u]
  <2>1. Begin(c, q)
    BY <1>2 DEF ForgotPassword
  <2>2. q.pc = "invalidate" /\ q.kind = "forgot" /\ ~q.slip /\ q.answer = "none"
    BY DEF Idle
  <2> QED
    BY <1>1, <2>1, <2>2
<1>3. ASSUME NEW u \in Users, DeleteUser(c, u) PROVE Goal
  <2> DEFINE q == [Idle EXCEPT !.kind = "deleteUser", !.pc = "deleteUser", !.user = u]
  <2>1. Begin(c, q)
    BY <1>3 DEF DeleteUser
  <2>2. q.pc = "deleteUser" /\ q.kind = "deleteUser" /\ ~q.slip /\ q.answer = "none"
    BY DEF Idle
  <2> QED
    BY <1>1, <2>1, <2>2
<1>4. ASSUME NEW u \in Users, DeleteSubscription(c, u) PROVE Goal
  <2> DEFINE q == [Idle EXCEPT !.kind = "deleteSub", !.pc = "deleteSub", !.user = u]
  <2>1. Begin(c, q)
    BY <1>4 DEF DeleteSubscription
  <2>2. q.pc = "deleteSub" /\ q.kind = "deleteSub" /\ ~q.slip /\ q.answer = "none"
    BY DEF Idle
  <2> QED
    BY <1>1, <2>1, <2>2
<1>5. ASSUME NEW u \in Users, NEW A, UpdateUser(c, u, A) PROVE Goal
  <2> DEFINE q == [Idle EXCEPT !.kind = "update", !.user = u, !.asks = A,
                     !.pc = IF "password" \in A THEN "password" ELSE "others"]
  <2>1. Begin(c, q)
    BY <1>5 DEF UpdateUser
  <2>2. q.pc \in {"password", "others"} /\ q.kind = "update" /\ ~q.slip /\ q.answer = "none"
    BY DEF Idle
  <2> QED
    BY <1>1, <2>1, <2>2
<1>6. ASSUME NEW u \in Users, NEW p \in Plans, AssignPlan(c, u, p) PROVE Goal
  <2> DEFINE q == [Idle EXCEPT !.kind = "assign", !.pc = "upsert", !.user = u, !.plan = p]
  <2>1. Begin(c, q)
    BY <1>6 DEF AssignPlan
  <2>2. q.pc = "upsert" /\ q.kind = "assign" /\ ~q.slip /\ q.answer = "none"
    BY DEF Idle
  <2> QED
    BY <1>1, <2>1, <2>2
<1>7. ASSUME NEW t \in Calls, ResetPassword(c, t) PROVE Goal
  <2> DEFINE q == [Idle EXCEPT !.kind = "reset", !.pc = "password",
                               !.user = token[t].user, !.token = t]
  <2>1. Begin(c, q)
    BY <1>7 DEF ResetPassword
  <2>2. q.pc = "password" /\ q.kind = "reset" /\ q.token = t /\ ~q.slip /\ q.answer = "none"
    BY DEF Idle
  <2>3. Open(t)
    BY <1>7 DEF ResetPassword, Open
  <2> QED
    BY <1>1, <2>1, <2>2, <2>3
<1>8. ASSUME NEW p \in Plans, CreatePlan(c, p) PROVE Goal
  <2> DEFINE q == [Idle EXCEPT !.kind = "createPlan", !.pc = "createPlan", !.plan = p,
                               !.asks = Fields]
  <2>1. Begin(c, q)
    BY <1>8 DEF CreatePlan
  <2>2. q.pc = "createPlan" /\ q.kind = "createPlan" /\ ~q.slip /\ q.answer = "none"
    BY DEF Idle
  <2> QED
    BY <1>1, <2>1, <2>2
<1>9. ASSUME NEW p \in Plans, DeletePlan(c, p) PROVE Goal
  <2> DEFINE q == [Idle EXCEPT !.kind = "deletePlan", !.pc = "count", !.plan = p]
  <2>1. Begin(c, q)
    BY <1>9 DEF DeletePlan
  <2>2. q.pc = "count" /\ q.kind = "deletePlan" /\ ~q.slip /\ q.answer = "none"
    BY DEF Idle
  <2> QED
    BY <1>1, <2>1, <2>2
<1>10. ASSUME NEW p \in Plans, NEW F \in SUBSET Fields, UpdatePlan(c, p, F) PROVE Goal
  <2> DEFINE q == [Idle EXCEPT !.kind = "updatePlan", !.pc = "updatePlan", !.plan = p,
                               !.asks = F, !.seen = plan[p]]
  <2>1. Begin(c, q)
    BY <1>10 DEF UpdatePlan
  <2>2. /\ q.pc = "updatePlan" /\ q.kind = "updatePlan" /\ q.plan = p /\ q.seen = plan[p]
        /\ ~q.slip /\ q.answer = "none"
    BY DEF Idle
  <2> QED
    BY <1>1, <2>1, <2>2
<1> QED
  BY <1>2, <1>3, <1>4, <1>5, <1>6, <1>7, <1>8, <1>9, <1>10 DEF Request, Goal

\* r is a later state of request q.
Later(q, r) ==
    /\ r.kind = q.kind /\ r.user = q.user /\ r.plan = q.plan /\ r.token = q.token
    /\ r.asks = q.asks /\ r.seen = q.seen
    /\ r.pc # "idle"
    /\ q.slip => r.slip

LEMMA RequestKept ==
  ASSUME TInv, [Next]_vars, NEW c \in Calls, call[c].pc # "idle"
  PROVE  Later(call[c], call'[c])
<1> USE DEF Later
<1>0. call[c] \in Call
  BY DEF TInv, TypeOK
<1>1. CASE call' = call
  BY <1>1
<1>2. CASE Restart
  BY <1>0, <1>2 DEF Restart, Call
<1>3. ASSUME NEW b \in Calls, NEW q, Begin(b, q) PROVE Later(call[c], call'[c])
  BY <1>3 DEF Begin, At, TInv, TypeOK
<1>4. ASSUME Statement(c) PROVE Later(call[c], call'[c])
  <2>1. ASSUME NEW pc, pc # "idle", Goto(c, pc) \/ Slip(c, pc) PROVE Later(call[c], call'[c])
    <3>1. CASE Goto(c, pc)
      BY <1>0, <2>1, <3>1 DEF Goto, TInv, TypeOK, Call
    <3>2. CASE Slip(c, pc)
      BY <1>0, <2>1, <3>2 DEF Slip, TInv, TypeOK, Call
    <3> QED
      BY <2>1, <3>1, <3>2
  <2>2. ASSUME NEW a, Answer(c, a) PROVE Later(call[c], call'[c])
    BY <1>0, <2>2 DEF Answer, TInv, TypeOK, Call
  <2>6. ASSUME Lost(c) PROVE Later(call[c], call'[c])
    BY <1>0, <2>6 DEF Lost, TInv, TypeOK, Call
  <2>3. CASE MarkResetTokenUsed(c)
    BY <1>0, <2>2, <2>3 DEF MarkResetTokenUsed, TInv, TypeOK, Call
  <2>4. CASE InvalidateTokens(c) \/ InsertToken(c) \/ UpdateUserPassword(c)
             \/ CountSubscriptions(c) \/ SendToken(c)
    BY <2>1, <2>2, <2>4, <2>6 DEF InvalidateTokens, InsertToken, UpdateUserPassword,
                                  CountSubscriptions, SendToken, Proceed, Succeed
  <2>5. CASE UpdateUserOthers(c) \/ DeleteUserRow(c) \/ CreatePlanRow(c) \/ UpdatePlanRow(c)
             \/ DeletePlanRow(c) \/ UpsertSubscription(c) \/ DeleteSubscriptionRow(c) \/ Fail(c)
    BY <2>2, <2>5, <2>6 DEF UpdateUserOthers, DeleteUserRow, CreatePlanRow, UpdatePlanRow,
                            DeletePlanRow, UpsertSubscription, DeleteSubscriptionRow, Fail, Succeed
  <2> QED
    BY <1>4, <2>3, <2>4, <2>5 DEF Statement
<1>5. ASSUME NEW b \in Calls, Statement(b) PROVE Later(call[c], call'[c])
  BY <1>4, <1>5, OthersKept
<1> QED
  BY <1>1, <1>2, <1>3, <1>5, BeginsQuietly DEF Next, Step, Expire, vars

\* Who has met stays met, and two calls that run have met after the step.
LEMMA Meetings ==
  ASSUME TInv, [Next]_vars, NEW a \in Calls
  PROVE  /\ met[a] \subseteq met'[a]
         /\ \A b \in Calls : Next /\ Running(a) /\ Running(b) => b \in met'[a]
  BY DEF Next, Observe, vars, TInv, TypeOK

\* An UpdatePlan of p that asks for something else than column f was under way when f
\* was asked for last.
Witness(p, f) ==
    \E c \in Calls : /\ call[c].kind = "updatePlan" /\ call[c].plan = p
                     /\ f \notin call[c].asks
                     /\ asked[p][f] \in met[c]

\* What a running UpdatePlan will write back is what was asked for last, or there is a
\* witness.
ReadCurrent(a) ==
    \A p \in Plans, f \in Fields :
        (/\ call[a].pc = "updatePlan" /\ call[a].plan = p /\ f \notin call[a].asks
         /\ HasPlan(p)) => call[a].seen[f] = asked[p][f] \/ Witness(p, f)

Settled(p) ==
    HasPlan(p) => \A f \in Fields : plan[p][f] = asked[p][f] \/ Witness(p, f)

PlanInv == TInv /\ (\A p \in Plans : Settled(p)) /\ (\A a \in Calls : ReadCurrent(a))

LEMMA WitnessKept ==
  ASSUME TInv, [Next]_vars, NEW p \in Plans, NEW f \in Fields, Witness(p, f),
         asked'[p][f] = asked[p][f]
  PROVE  Witness(p, f)'
<1>1. PICK c \in Calls : /\ call[c].kind = "updatePlan" /\ call[c].plan = p
                         /\ f \notin call[c].asks /\ asked[p][f] \in met[c]
  BY DEF Witness
<1>2. call[c].pc # "idle"
  BY <1>1 DEF TInv, CallsOK, Sound
<1>3. Later(call[c], call'[c]) /\ met[c] \subseteq met'[c]
  BY <1>2, RequestKept, Meetings
<1> QED
  BY <1>1, <1>3 DEF Witness, Later

\* Of two requests that run, one asks for column f of p and the other, an UpdatePlan of
\* p, does not.
LEMMA WitnessFound ==
  ASSUME TInv, Next, NEW p \in Plans, NEW f \in Fields, NEW a \in Calls, NEW b \in Calls,
         Running(b), asked'[p][f] = b,
         call[a].pc = "updatePlan", call[a].plan = p, f \notin call[a].asks
  PROVE  Witness(p, f)'
<1>1. Running(a) /\ call[a].kind = "updatePlan"
  BY DEF Running, TInv, CallsOK, Sound
<1>2. Later(call[a], call'[a]) /\ b \in met'[a]
  BY <1>1, RequestKept, Meetings DEF Running
<1> QED
  BY <1>1, <1>2 DEF Witness, Later

\* Steps that leave the plans alone; an UpdatePlan that begins reads its row.
LEMMA PlanQuiet ==
  ASSUME PlanInv, [Next]_vars, plan' = plan, asked' = asked,
         \A a \in Calls : call'[a].pc = "updatePlan" =>
             call[a].pc = "updatePlan" \/ call'[a].seen = plan[call'[a].plan]
  PROVE  (\A p \in Plans : Settled(p)') /\ (\A a \in Calls : ReadCurrent(a)')
<1>1. ASSUME NEW p \in Plans PROVE Settled(p)'
  BY WitnessKept DEF PlanInv, Settled, HasPlan
<1>2. ASSUME NEW a \in Calls PROVE ReadCurrent(a)'
  <2>1. SUFFICES ASSUME NEW p \in Plans, NEW f \in Fields, call'[a].pc = "updatePlan",
                        call'[a].plan = p, f \notin call'[a].asks, HasPlan(p)'
                 PROVE  call'[a].seen[f] = asked'[p][f] \/ Witness(p, f)'
    BY DEF ReadCurrent
  <2>2. HasPlan(p)
    BY <2>1 DEF HasPlan
  <2>3. CASE call[a].pc = "updatePlan"
    <3>1. Later(call[a], call'[a])
      BY <2>3, RequestKept DEF PlanInv
    <3> QED
      BY <2>1, <2>2, <2>3, <3>1, WitnessKept DEF PlanInv, ReadCurrent, Later
  <2>4. CASE call'[a].seen = plan[p]
    BY <2>1, <2>2, <2>4, WitnessKept DEF PlanInv, Settled
  <2> QED
    BY <2>1, <2>3, <2>4
<1> QED
  BY <1>1, <1>2

\* The row of plan p changes; what running requests know of the others stays.
LEMMA PlanWritten ==
  ASSUME PlanInv, Next, NEW p \in Plans,
         \A q \in Plans : q # p => plan'[q] = plan[q] /\ asked'[q] = asked[q],
         \A a \in Calls : call'[a].pc = "updatePlan" => call[a].pc = "updatePlan",
         Settled(p)',
         \A a \in Calls, f \in Fields :
             (/\ call[a].pc = "updatePlan" /\ call[a].plan = p /\ f \notin call[a].asks
              /\ HasPlan(p)') => call[a].seen[f] = asked'[p][f] \/ Witness(p, f)'
  PROVE  (\A q \in Plans : Settled(q)') /\ (\A a \in Calls : ReadCurrent(a)')
<1>1. ASSUME NEW q \in Plans, q # p PROVE Settled(q)'
  BY <1>1, WitnessKept DEF PlanInv, Settled, HasPlan
<1>2. ASSUME NEW a \in Calls PROVE ReadCurrent(a)'
  <2>1. SUFFICES ASSUME NEW q \in Plans, NEW f \in Fields, call'[a].pc = "updatePlan",
                        call'[a].plan = q, f \notin call'[a].asks, HasPlan(q)'
                 PROVE  call'[a].seen[f] = asked'[q][f] \/ Witness(q, f)'
    BY DEF ReadCurrent
  <2>2. call[a].pc = "updatePlan" /\ Later(call[a], call'[a])
    BY <2>1, RequestKept DEF PlanInv
  <2>3. CASE q = p
    BY <2>1, <2>2, <2>3 DEF Later
  <2>4. CASE q # p
    <3>1. HasPlan(q) /\ asked'[q] = asked[q]
      BY <2>1, <2>4 DEF HasPlan
    <3> QED
      BY <2>1, <2>2, <3>1, WitnessKept DEF PlanInv, ReadCurrent, Later
  <2> QED
    BY <2>3, <2>4
<1> QED
  BY <1>1, <1>2

\* A statement that ends its call.
LEMMA SucceedMoves ==
  ASSUME TInv, NEW c \in Calls, Succeed(c)
  PROVE  \A a \in Calls : call'[a].pc = "updatePlan" => call[a].pc = "updatePlan"
<1>0. call[c] \in Call
  BY DEF TInv, TypeOK
<1>1. CASE Answer(c, "ok")
  BY <1>0, <1>1 DEF Answer, TInv, TypeOK, Call
<1>2. CASE Lost(c)
  BY <1>0, <1>2 DEF Lost, TInv, TypeOK, Call
<1> QED
  BY <1>1, <1>2 DEF Succeed

LEMMA CreatePlanInv ==
  ASSUME PlanInv, Next, NEW c \in Calls, CreatePlanRow(c)
  PROVE  (\A q \in Plans : Settled(q)') /\ (\A a \in Calls : ReadCurrent(a)')
<1>0. PICK p \in Plans : p = call[c].plan
  BY DEF CreatePlanRow, At, PlanInv, TInv, CallsOK, Sound
<1>1. Running(c)
  BY DEF CreatePlanRow, At, Running
<1>2. /\ plan' = [plan EXCEPT ![p] = [f \in Fields |-> c]]
      /\ asked' = [asked EXCEPT ![p] = [f \in Fields |-> c]]
  BY <1>0 DEF CreatePlanRow
<1>6. \A a \in Calls : call'[a].pc = "updatePlan" => call[a].pc = "updatePlan"
  BY SucceedMoves DEF CreatePlanRow, PlanInv
<1>3. /\ plan'[p] = [f \in Fields |-> c] /\ asked'[p] = [f \in Fields |-> c]
      /\ \A q \in Plans : q # p => plan'[q] = plan[q] /\ asked'[q] = asked[q]
  BY <1>1, <1>2 DEF PlanInv, TInv, TypeOK
<1>4. Settled(p)'
  BY <1>3 DEF Settled
<1>5. ASSUME NEW a \in Calls, NEW f \in Fields, call[a].pc = "updatePlan", call[a].plan = p,
             f \notin call[a].asks
      PROVE  Witness(p, f)'
  BY <1>1, <1>3, <1>5, WitnessFound DEF PlanInv
<1> QED
  BY <1>1, <1>3, <1>4, <1>5, <1>6, PlanWritten

LEMMA UpdatePlanInv ==
  ASSUME PlanInv, Next, NEW c \in Calls, UpdatePlanRow(c)
  PROVE  (\A q \in Plans : Settled(q)') /\ (\A a \in Calls : ReadCurrent(a)')
<1>0. PICK p \in Plans : p = call[c].plan
  BY DEF UpdatePlanRow, At, PlanInv, TInv, CallsOK, Sound
<1>1. Running(c) /\ call[c].pc = "updatePlan" /\ HasPlan(p)
  BY <1>0 DEF UpdatePlanRow, At, Running
<1>2. /\ plan' = [plan EXCEPT ![p] = Merged(c)]
      /\ asked' = [asked EXCEPT ![p] =
                      [f \in Fields |-> IF f \in call[c].asks THEN c ELSE asked[p][f]]]
  BY <1>0 DEF UpdatePlanRow
<1>6. \A a \in Calls : call'[a].pc = "updatePlan" => call[a].pc = "updatePlan"
  BY SucceedMoves DEF UpdatePlanRow, PlanInv
<1>3. /\ plan'[p] = Merged(c)
      /\ \A f \in Fields : asked'[p][f] = IF f \in call[c].asks THEN c ELSE asked[p][f]
      /\ \A q \in Plans : q # p => plan'[q] = plan[q] /\ asked'[q] = asked[q]
  BY <1>1, <1>2 DEF PlanInv, TInv, TypeOK
<1>4. Settled(p)'
  <2>1. ASSUME NEW f \in Fields, f \notin call[c].asks
        PROVE  plan'[p][f] = asked'[p][f] \/ Witness(p, f)'
    <3>1. plan'[p][f] = call[c].seen[f] /\ asked'[p][f] = asked[p][f]
      BY <1>3, <2>1 DEF Merged
    <3>2. call[c].seen[f] = asked[p][f] \/ Witness(p, f)
      BY <1>0, <1>1, <2>1 DEF PlanInv, ReadCurrent
    <3> QED
      BY <1>1, <3>1, <3>2, WitnessKept DEF PlanInv
  <2>2. \A f \in Fields : f \in call[c].asks => plan'[p][f] = asked'[p][f]
    BY <1>3 DEF Merged
  <2> QED
    BY <2>1, <2>2 DEF Settled
<1>5. ASSUME NEW a \in Calls, NEW f \in Fields, call[a].pc = "updatePlan", call[a].plan = p,
             f \notin call[a].asks
      PROVE  call[a].seen[f] = asked'[p][f] \/ Witness(p, f)'
  <2>1. CASE f \in call[c].asks
    BY <1>1, <1>3, <1>5, <2>1, WitnessFound DEF PlanInv
  <2>2. CASE f \notin call[c].asks
    BY <1>1, <1>3, <1>5, <2>2, WitnessKept DEF PlanInv, ReadCurrent
  <2> QED
    BY <2>1, <2>2
<1> QED
  BY <1>1, <1>3, <1>4, <1>5, <1>6, PlanWritten

LEMMA DeletePlanInv ==
  ASSUME PlanInv, Next, NEW c \in Calls, DeletePlanRow(c)
  PROVE  (\A q \in Plans : Settled(q)') /\ (\A a \in Calls : ReadCurrent(a)')
<1>1. PICK p \in Plans : p = call[c].plan
  BY DEF DeletePlanRow, At, PlanInv, TInv, CallsOK, Sound
<1>2. /\ plan' = [plan EXCEPT ![p] = NoPlan] /\ asked' = asked
  BY <1>1 DEF DeletePlanRow
<1>6. \A a \in Calls : call'[a].pc = "updatePlan" => call[a].pc = "updatePlan"
  BY SucceedMoves DEF DeletePlanRow, PlanInv
<1>3. ~HasPlan(p)' /\ \A q \in Plans : q # p => plan'[q] = plan[q]
  BY <1>1, <1>2 DEF HasPlan, NoPlan, PlanInv, TInv, TypeOK
<1>4. Settled(p)'
  BY <1>3 DEF Settled
<1> QED
  BY <1>1, <1>2, <1>3, <1>4, <1>6, PlanWritten

LEMMA RestartPlanInv ==
  ASSUME PlanInv, Next, Restart
  PROVE  (\A q \in Plans : Settled(q)') /\ (\A a \in Calls : ReadCurrent(a)')
<1>1. ASSUME NEW p \in Plans PROVE Settled(p)'
  <2>1. CASE HasPlan(p)
    <3>1. plan'[p] = plan[p] /\ asked'[p] = asked[p]
      BY <2>1 DEF Restart, Seeded, HasPlan
    <3> QED
      BY <2>1, <3>1, WitnessKept DEF PlanInv, Settled
  <2>2. CASE ~HasPlan(p)
    <3>1. plan'[p] = asked'[p]
      BY <2>2 DEF Restart
    <3> QED
      BY <3>1 DEF Settled
  <2> QED
    BY <2>1, <2>2
<1>2. ASSUME NEW a \in Calls PROVE call'[a].pc # "updatePlan"
  BY DEF Restart, Running, PlanInv, TInv, TypeOK, Call
<1>3. ASSUME NEW a \in Calls PROVE ReadCurrent(a)'
  BY <1>2 DEF ReadCurrent
<1> QED
  BY <1>1, <1>3

LEMMA PlanStep == PlanInv /\ [Next]_vars => PlanInv'
<1> DEFINE Goal == (\A q \in Plans : Settled(q)') /\ (\A a \in Calls : ReadCurrent(a)')
           Quiet == /\ plan' = plan /\ asked' = asked
                    /\ \A a \in Calls : call'[a].pc = "updatePlan" =>
                          call[a].pc = "updatePlan" \/ call'[a].seen = plan[call'[a].plan]
<1> SUFFICES ASSUME PlanInv, [Next]_vars PROVE Goal
  BY TypeStep DEF PlanInv
<1>1. CASE UNCHANGED vars
  BY <1>1, PlanQuiet DEF vars, rows
<1>2. ASSUME NEW c \in Calls, Request(c) PROVE Quiet
  <2>1. PICK q : Begin(c, q) /\ Fresh(q)
    BY <1>2, BeginsFresh
  <2> QED
    BY <2>1 DEF Begin, rows, Fresh, PlanInv, TInv, TypeOK
<1>3. ASSUME NEW c \in Calls, Statement(c), ~CreatePlanRow(c), ~UpdatePlanRow(c),
             ~DeletePlanRow(c)
      PROVE  Quiet
  <2>1. plan' = plan /\ asked' = asked
    BY <1>3 DEF Statement, InvalidateTokens, InsertToken, SendToken, UpdateUserPassword,
            MarkResetTokenUsed, UpdateUserOthers, DeleteUserRow, CountSubscriptions,
            UpsertSubscription, DeleteSubscriptionRow, Fail, rows
  <2>2. call'[c].pc # "updatePlan"
    <3>1. /\ \A pc : Goto(c, pc) \/ Slip(c, pc) => call'[c].pc = pc
          /\ \A a : Answer(c, a) \/ Lost(c) => call'[c].pc = "done"
      BY DEF Goto, Slip, Answer, Lost, PlanInv, TInv, TypeOK, Call
    <3>2. MarkResetTokenUsed(c) => call'[c].pc = "done"
      BY DEF MarkResetTokenUsed, Answer, PlanInv, TInv, TypeOK, Call
    <3> QED
      BY <1>3, <3>1, <3>2
         DEF Statement, InvalidateTokens, InsertToken, SendToken, UpdateUserPassword,
             UpdateUserOthers, DeleteUserRow, CountSubscriptions, UpsertSubscription,
             DeleteSubscriptionRow, Fail, Proceed, Succeed
  <2> QED
    BY <1>3, <2>1, <2>2, OthersKept DEF PlanInv
<1>4. ASSUME NEW t \in Calls, Expire(t) PROVE Quiet
  BY <1>4 DEF Expire
<1>5. ASSUME Quiet PROVE Goal
  BY <1>5, PlanQuiet
<1> HIDE DEF Goal, Quiet
<1>6. CASE Next
  <2>1. CASE Restart
    BY <1>6, <2>1, RestartPlanInv DEF Goal
  <2>2. ASSUME NEW c \in Calls, Request(c) \/ Statement(c) \/ Expire(c) PROVE Goal
    <3>1. ASSUME CreatePlanRow(c) \/ UpdatePlanRow(c) \/ DeletePlanRow(c) PROVE Goal
      BY <1>6, <3>1, CreatePlanInv, UpdatePlanInv, DeletePlanInv DEF Goal
    <3> QED
      BY <1>2, <1>3, <1>4, <1>5, <2>2, <3>1
  <2> QED
    BY <1>6, <2>1, <2>2 DEF Next, Step
<1> QED
  BY <1>1, <1>6

\* A column of a plan has the value asked for last, unless an UpdatePlan that does not ask
\* for it had read the row before.
THEOREM PlansSettle == Spec => []PlanSettled
<1>1. Init => PlanInv
  BY InitTypes DEF Init, PlanInv, Settled, ReadCurrent, Idle
<1>2. PlanInv => PlanSettled
  BY DEF PlanInv, PlanSettled, Settled, Witness
<1> QED
  BY <1>1, <1>2, PlanStep, PTL DEF Spec
-----------------------------------------------------------------------------
(* Reset tokens.                                                           *)

\* t is not before its INSERT.
Past(t) == call[t].pc \notin {"idle", "invalidate", "insert"}

\* A reset that is done and has marked its token.
Won(a) == call[a].kind = "reset" /\ call[a].answer = "ok" /\ ~call[a].slip

Symmetric == \A a, b \in Calls : a \in met[b] <=> b \in met[a]
Inserted == \A t \in Calls : HasToken(t) => Past(t)
Aimed == \A a \in Calls : call[a].kind = "reset" => Past(call[a].token)

\* Behind the UPDATE, what works of the user's tokens came while the call was running.
Watched ==
    \A c, b \in Calls :
        (/\ At(c, "insert") /\ ~call[c].slip
         /\ Open(b) /\ token[b].user = call[c].user) => b \in met[c]

Single ==
    \A a, b \in Calls :
        (/\ a # b /\ ~call[a].slip /\ ~call[b].slip
         /\ Open(a) /\ Open(b) /\ token[a].user = token[b].user) => a \in met[b]

Spent == \A a \in Calls : Won(a) => ~Open(call[a].token)

\* Who holds the token of a reset that is done has met it.
Raced ==
    \A a, b \in Calls :
        (/\ a # b /\ Won(a) /\ call[b].kind = "reset" /\ call[b].token = call[a].token
         /\ Running(b) \/ Won(b)) => b \in met[a]

TokenInv == /\ TInv /\ Symmetric /\ Inserted /\ Aimed /\ Watched /\ Single /\ Spent /\ Raced

LEMMA StatementMoves ==
  ASSUME TInv, NEW c \in Calls, Statement(c)
  PROVE  /\ Running(c)
         /\ call'[c].pc \notin {"idle", "invalidate"}
         /\ call'[c].pc = "insert" => InvalidateTokens(c)
         /\ call[c].kind = "reset" /\ call'[c].answer = "ok" => MarkResetTokenUsed(c)
<1>0. call[c] \in Call /\ Sound(call[c])
  BY DEF TInv, TypeOK, CallsOK
<1>1. ASSUME NEW pc, Goto(c, pc) \/ Slip(c, pc)
      PROVE  call'[c].pc = pc /\ call'[c].answer = call[c].answer
  BY <1>0, <1>1 DEF Goto, Slip, TInv, TypeOK, Call
<1>2. ASSUME NEW a, Answer(c, a) PROVE call'[c].pc = "done" /\ call'[c].answer = a
  BY <1>0, <1>2 DEF Answer, TInv, TypeOK, Call
<1>9. Lost(c) => call'[c].pc = "done" /\ call'[c].answer = "error"
  BY <1>0 DEF Lost, TInv, TypeOK, Call
<1>3. CASE MarkResetTokenUsed(c)
  <2>1. call'[c].pc = "done" /\ Running(c)
    BY <1>0, <1>3 DEF MarkResetTokenUsed, Answer, TInv, TypeOK, Call, At, Running
  <2> QED
    BY <1>3, <2>1
<1>4. CASE InvalidateTokens(c)
  <2>1. call'[c].pc = "insert" /\ call'[c].answer = call[c].answer /\ At(c, "invalidate")
    BY <1>1, <1>4 DEF InvalidateTokens
  <2> QED
    BY <1>0, <1>4, <2>1 DEF Sound, At, Running
<1>5. CASE InsertToken(c) \/ CountSubscriptions(c) \/ SendToken(c)
  BY <1>0, <1>1, <1>2, <1>5, <1>9
     DEF InsertToken, CountSubscriptions, SendToken, Proceed, Sound, At, Running
<1>6. CASE UpdateUserPassword(c)
  BY <1>0, <1>1, <1>2, <1>6, <1>9
     DEF UpdateUserPassword, Proceed, Succeed, Sound, At, Running
<1>7. CASE Fail(c)
  BY <1>2, <1>7 DEF Fail
<1>8. CASE UpdateUserOthers(c) \/ DeleteUserRow(c) \/ CreatePlanRow(c) \/ UpdatePlanRow(c)
           \/ DeletePlanRow(c) \/ UpsertSubscription(c) \/ DeleteSubscriptionRow(c)
  BY <1>0, <1>2, <1>8, <1>9
     DEF UpdateUserOthers, DeleteUserRow, CreatePlanRow, UpdatePlanRow, DeletePlanRow,
         UpsertSubscription, DeleteSubscriptionRow, Succeed, Sound, At, Running
<1> QED
  BY <1>3, <1>4, <1>5, <1>6, <1>7, <1>8 DEF Statement

\* What a step does to one call.
LEMMA Moves ==
  ASSUME TInv, [Next]_vars, NEW c \in Calls
  PROVE  \/ call'[c] = call[c]
         \/ call[c].pc = "idle" /\ Fresh(call'[c])
         \/ Statement(c)
         \/ /\ Running(c) /\ call'[c].pc = "done" /\ call'[c].answer = "none"
            /\ call'[c].slip = call[c].slip
<1>0. call[c] \in Call /\ Sound(call[c])
  BY DEF TInv, TypeOK, CallsOK
<1>1. CASE Restart
  BY <1>0, <1>1 DEF Restart, Running, Sound, Call
<1>2. ASSUME NEW b \in Calls, Request(b)
      PROVE  call'[c] = call[c] \/ (call[c].pc = "idle" /\ Fresh(call'[c]))
  <2>1. PICK q : Begin(b, q) /\ Fresh(q)
    BY <1>2, BeginsFresh
  <2> QED
    BY <2>1 DEF Begin, At, TInv, TypeOK
<1>3. ASSUME NEW b \in Calls, Statement(b) PROVE call'[c] = call[c] \/ Statement(c)
  BY <1>3, OthersKept
<1> QED
  BY <1>1, <1>2, <1>3 DEF Next, Step, Expire, vars

LEMMA PastKept ==
  ASSUME TInv, [Next]_vars, NEW c \in Calls, Past(c)
  PROVE  Past(c)'
<1>1. CASE Statement(c)
  BY <1>1, StatementMoves DEF Past, InvalidateTokens, At
<1> QED
  BY <1>1, Moves DEF Past

\* What a step does to one token.
LEMMA TokenMoves ==
  ASSUME TInv, [Next]_vars, NEW t \in Calls, HasToken(t)', ~InsertToken(t)
  PROVE  HasToken(t) /\ token'[t].user = token[t].user /\ (token[t].used => token'[t].used)
<1> DEFINE Goal ==
      HasToken(t) /\ token'[t].user = token[t].user /\ (token[t].used => token'[t].used)
<1>0. token[t] \in TokenRow /\ token \in [Calls -> TokenRow]
  BY DEF TInv, TypeOK, TokenRow
<1>1. token' = token => Goal
  BY DEF HasToken
<1>2. ASSUME NEW c \in Calls, Request(c) PROVE token' = token
  BY <1>2, BeginsFresh DEF Begin, rows
<1>3. ASSUME NEW c \in Calls, Expire(c) PROVE Goal
  BY <1>0, <1>3 DEF Expire, HasToken, TokenRow
<1>4. ASSUME NEW c \in Calls, InvalidateTokens(c) PROVE Goal
  BY <1>0, <1>1, <1>4 DEF InvalidateTokens, HasToken, TokenRow
<1>5. ASSUME NEW c \in Calls, InsertToken(c) PROVE Goal
  BY <1>0, <1>5 DEF InsertToken, HasToken
<1>6. ASSUME NEW c \in Calls, MarkResetTokenUsed(c) PROVE Goal
  BY <1>0, <1>1, <1>6 DEF MarkResetTokenUsed, HasToken, TokenRow
<1>7. ASSUME NEW c \in Calls, DeleteUserRow(c) PROVE Goal
  BY <1>0, <1>7 DEF DeleteUserRow, HasToken, NoToken
<1>8. ASSUME NEW c \in Calls, Statement(c), ~InvalidateTokens(c), ~InsertToken(c),
             ~MarkResetTokenUsed(c), ~DeleteUserRow(c)
      PROVE  token' = token
  BY <1>8 DEF Statement, SendToken, UpdateUserPassword, UpdateUserOthers, CreatePlanRow,
          UpdatePlanRow, CountSubscriptions, DeletePlanRow, UpsertSubscription,
          DeleteSubscriptionRow, Fail, rows
<1>9. ASSUME Restart \/ UNCHANGED vars PROVE token' = token
  BY <1>9 DEF Restart, vars, rows
<1> QED
  BY <1>1, <1>2, <1>3, <1>4, <1>5, <1>6, <1>7, <1>8, <1>9 DEF Next, Step

\* The INSERT ends the call or leads to the mail.
LEMMA InsertMoves ==
  ASSUME TInv, NEW c \in Calls, InsertToken(c)
  PROVE  /\ At(c, "insert") /\ call'[c].pc \in {"mail", "done"}
         /\ \A b \in Calls : b # c => call'[b] = call[b]
<1>1. CASE Goto(c, "mail")
  BY <1>1 DEF InsertToken, Goto, TInv, TypeOK, Call
<1>2. CASE Lost(c)
  BY <1>2 DEF InsertToken, Lost, TInv, TypeOK, Call
<1> QED
  BY <1>1, <1>2 DEF InsertToken, Proceed

LEMMA SymmetricStep == TokenInv /\ [Next]_vars => Symmetric'
  BY DEF TokenInv, TInv, TypeOK, Symmetric, Next, Observe, vars

LEMMA InsertedStep == TokenInv /\ [Next]_vars => Inserted'
<1> SUFFICES ASSUME TokenInv, [Next]_vars, NEW t \in Calls, HasToken(t)'
             PROVE  Past(t)'
  BY DEF Inserted
<1>1. CASE InsertToken(t)
  BY <1>1 DEF InsertToken, Proceed, Goto, Lost, Past, TokenInv, TInv, TypeOK, Call
<1>2. CASE ~InsertToken(t)
  BY <1>2, TokenMoves, PastKept DEF TokenInv, Inserted
<1> QED
  BY <1>1, <1>2

\* A token does not open again.
LEMMA OpenMoves ==
  ASSUME TokenInv, [Next]_vars, NEW t \in Calls, Open(t)'
  PROVE  \/ InsertToken(t)
         \/ Open(t) /\ token'[t].user = token[t].user
<1>1. HasToken(t)' /\ ~token'[t].used
  BY DEF Open
<1> QED
  BY <1>1, TokenMoves DEF Open, TokenInv

LEMMA OpensNever ==
  ASSUME TokenInv, [Next]_vars, NEW t \in Calls, Past(t), ~Open(t)
  PROVE  ~Open(t)'
  BY OpenMoves DEF InsertToken, At, Past

\* The request that a call makes, and what it leaves behind.
LEMMA KindMoves ==
  ASSUME TokenInv, [Next]_vars, NEW a \in Calls, call'[a].kind = "reset"
  PROVE  /\ call'[a].token \in Calls
         /\ \/ /\ call[a].pc = "idle" /\ Running(a)' /\ ~Won(a)'
               /\ Open(call'[a].token)
            \/ /\ call[a].kind = "reset" /\ call[a].token = call'[a].token
               /\ Running(a)' => Running(a)
               /\ Won(a)' => Won(a) \/ MarkResetTokenUsed(a)
<1>0. TInv /\ TInv'
  BY TypeStep DEF TokenInv
<1>1. call'[a].token \in Calls
  BY <1>0 DEF TInv, CallsOK, Sound
<1>2. CASE call[a].pc = "idle" /\ Fresh(call'[a])
  BY <1>1, <1>2 DEF Fresh, Running, Won
<1>3. CASE call[a].pc # "idle" /\ ~(call[a].pc = "idle" /\ Fresh(call'[a]))
  <2>1. Later(call[a], call'[a])
    BY <1>0, <1>3, RequestKept
  <2>2. CASE Statement(a)
    <3>1. Running(a) /\ (call'[a].answer = "ok" => MarkResetTokenUsed(a))
      BY <1>0, <2>1, <2>2, StatementMoves DEF Later
    <3> QED
      BY <1>1, <2>1, <3>1 DEF Later, Won
  <2> QED
    BY <1>0, <1>1, <1>3, <2>1, <2>2, Moves DEF Later, Won, Running
<1>4. CASE call[a].pc = "idle" /\ ~Fresh(call'[a])
  BY <1>0, <1>4, Moves, StatementMoves DEF Running, TInv, CallsOK, Sound
<1> QED
  BY <1>2, <1>3, <1>4

LEMMA AimedStep == TokenInv /\ [Next]_vars => Aimed'
<1> SUFFICES ASSUME TokenInv, [Next]_vars, NEW a \in Calls, call'[a].kind = "reset"
             PROVE  Past(call[a].token)'
  BY DEF Aimed
<1>1. call'[a].token \in Calls /\ Past(call'[a].token)
  BY KindMoves DEF TokenInv, Inserted, Aimed, Open
<1> QED
  BY <1>1, PastKept DEF TokenInv

\* The token that a call inserts is not there before.
LEMMA WatchedStep == TokenInv /\ [Next]_vars => Watched'
<1> SUFFICES ASSUME TokenInv, [Next]_vars, NEW c \in Calls, NEW b \in Calls,
                    call'[c].pc = "insert", ~call'[c].slip,
                    Open(b)', token'[b].user = call'[c].user
             PROVE  b \in met'[c]
  BY DEF Watched, At
<1>0. TInv
  BY DEF TokenInv
<1>1. CASE InvalidateTokens(c)
  <2>1. call[c].user = call'[c].user /\ call[c] \in Call
    BY <1>0, <1>1, RequestKept DEF InvalidateTokens, At, Later, TInv, TypeOK
  <2>2. ~Slip(c, "insert")
    BY <1>0, <2>1 DEF Slip, TInv, TypeOK, Call
  <2>3. token' = [t \in Calls |-> IF token[t].user = call[c].user
                                  THEN [token[t] EXCEPT !.used = TRUE] ELSE token[t]]
    BY <1>1, <2>2 DEF InvalidateTokens
  <2>4. token[b] \in TokenRow
    BY <1>0, TokenTypes
  <2> QED
    BY <2>1, <2>3, <2>4 DEF Open, TokenRow
<1>2. CASE ~InvalidateTokens(c)
  <2>1. call[c].pc = "insert"
    BY <1>0, <1>2, Moves, StatementMoves DEF Fresh
  <2>2. Later(call[c], call'[c]) /\ ~call[c].slip
    BY <1>0, <2>1, RequestKept DEF Later
  <2>3. CASE InsertToken(b)
    <3>1. Running(b) /\ Running(c)
      BY <2>1, <2>3 DEF InsertToken, At, Running
    <3>2. Next
      BY <2>3, InsertMoves DEF At, TokenInv, vars
    <3> QED
      BY <1>0, <3>1, <3>2, Meetings
  <2>4. CASE Open(b) /\ token'[b].user = token[b].user
    BY <1>0, <2>1, <2>2, <2>4, Meetings DEF TokenInv, Watched, At, Later
  <2> QED
    BY <2>3, <2>4, OpenMoves
<1> QED
  BY <1>1, <1>2

LEMMA SlipKept ==
  ASSUME TInv, [Next]_vars, NEW c \in Calls, ~call'[c].slip
  PROVE  ~call[c].slip
<1>1. CASE call[c].pc = "idle"
  BY <1>1 DEF TInv, CallsOK, Sound
<1>2. CASE call[c].pc # "idle"
  BY <1>2, RequestKept DEF Later
<1> QED
  BY <1>1, <1>2

LEMMA SingleStep == TokenInv /\ [Next]_vars => Single'
<1> SUFFICES ASSUME TokenInv, [Next]_vars
             PROVE  Single'
  OBVIOUS
<1>0. TInv
  BY DEF TokenInv
\* b has inserted its token, a has one.
<1>1. ASSUME NEW a \in Calls, NEW b \in Calls, a # b, ~call'[b].slip,
             InsertToken(b), Open(a)', token'[a].user = token'[b].user
      PROVE  a \in met'[b]
  <2>1. ~InsertToken(a)
    <3>1. ASSUME InsertToken(a) PROVE FALSE
      BY <1>0, <1>1, <3>1, InsertMoves DEF At
    <3> QED
      BY <3>1
  <2>2. Open(a) /\ token'[a].user = token[a].user
    BY <1>1, <2>1, OpenMoves
  <2>3. token'[b].user = call[b].user
    BY <1>0, <1>1 DEF InsertToken, NoToken, TInv, TypeOK
  <2>4. At(b, "insert") /\ ~call[b].slip
    BY <1>0, <1>1, SlipKept DEF InsertToken
  <2>5. a \in met[b]
    BY <1>1, <2>2, <2>3, <2>4 DEF TokenInv, Watched
  <2> QED
    BY <1>0, <2>5, Meetings
<1>2. SUFFICES ASSUME NEW a \in Calls, NEW b \in Calls, a # b, ~call'[a].slip, ~call'[b].slip,
                      Open(a)', Open(b)', token'[a].user = token'[b].user
               PROVE  a \in met'[b]
  BY DEF Single
<1>3. CASE InsertToken(b)
  BY <1>1, <1>2, <1>3
<1>4. CASE InsertToken(a)
  BY <1>1, <1>2, <1>4, SymmetricStep DEF Symmetric
<1>5. CASE ~InsertToken(a) /\ ~InsertToken(b)
  <2>1. a \in met[b]
    BY <1>0, <1>2, <1>5, OpenMoves, SlipKept DEF TokenInv, Single
  <2> QED
    BY <1>0, <2>1, Meetings
<1> QED
  BY <1>3, <1>4, <1>5

\* A reset that has marked its token has closed it.
LEMMA MarkCloses ==
  ASSUME TInv, NEW a \in Calls, MarkResetTokenUsed(a), ~call'[a].slip
  PROVE  /\ ~Open(call[a].token)'
         /\ Running(a)
         /\ \A b \in Calls : b # a => call'[b] = call[b]
<1>0. call[a].token \in Calls /\ token \in [Calls -> TokenRow] /\ call[a] \in Call
  BY DEF MarkResetTokenUsed, At, TInv, TypeOK, TokenRow, CallsOK, Sound
<1>1. PICK t \in Calls : t = call[a].token
  BY <1>0
<1>2. token' = [token EXCEPT ![t].used = HasToken(t)]
  BY <1>0, <1>1 DEF MarkResetTokenUsed, TInv, TypeOK, Call
<1>3. ~ (HasToken(t)' /\ ~token'[t].used)
  BY <1>0, <1>2 DEF HasToken, TokenRow
<1>4. \A b \in Calls : b # a => call'[b] = call[b]
  BY DEF MarkResetTokenUsed, Answer, TInv, TypeOK
<1>5. Running(a)
  BY DEF MarkResetTokenUsed, At, Running
<1>6. ~Open(call[a].token)'
  <2>1. call'[a].token = t
    BY <1>1 DEF MarkResetTokenUsed, Answer, TInv, TypeOK, Call
  <2> QED
    BY <1>3, <2>1 DEF Open, HasToken
<1> QED
  BY <1>4, <1>5, <1>6

LEMMA SpentStep == TokenInv /\ [Next]_vars => Spent'
<1> SUFFICES ASSUME TokenInv, [Next]_vars, NEW a \in Calls, Won(a)'
             PROVE  ~Open(call[a].token)'
  BY DEF Spent
<1>0. TInv
  BY DEF TokenInv
<1>1. CASE MarkResetTokenUsed(a)
  BY <1>0, <1>1, MarkCloses DEF Won
<1>2. CASE ~MarkResetTokenUsed(a)
  <2>1. /\ call'[a].token \in Calls /\ Won(a) /\ call[a].token = call'[a].token
    BY <1>2, KindMoves DEF Won
  <2>2. PICK t \in Calls : t = call[a].token
    BY <2>1
  <2>3. ~Open(t) /\ Past(t)
    BY <2>1, <2>2 DEF TokenInv, Spent, Aimed, Won
  <2>4. ~Open(t)'
    BY <2>3, OpensNever
  <2> QED
    BY <2>1, <2>2, <2>4 DEF Open, HasToken
<1> QED
  BY <1>1, <1>2

LEMMA RacedStep == TokenInv /\ [Next]_vars => Raced'
<1> SUFFICES ASSUME TokenInv, [Next]_vars, NEW a \in Calls, NEW b \in Calls, a # b, Won(a)',
                    call'[b].kind = "reset", call'[b].token = call'[a].token,
                    Running(b)' \/ Won(b)'
             PROVE  b \in met'[a]
  BY DEF Raced
<1>0. TInv
  BY DEF TokenInv
<1>1. /\ call[a].kind = "reset" /\ call[a].token = call'[a].token /\ call[a].token \in Calls
      /\ Won(a) \/ MarkResetTokenUsed(a)
  BY KindMoves DEF Won
<1>2. CASE MarkResetTokenUsed(a) /\ ~Won(a)
  <2>1. Next
    BY <1>0, <1>2 DEF Won, MarkResetTokenUsed, vars, At, TInv, CallsOK, Sound
  <2>2. call'[b] = call[b] /\ Running(a)
    BY <1>0, <1>2, MarkCloses DEF Won, MarkResetTokenUsed, At, TInv, TypeOK
  <2>3. CASE Running(b)
    BY <1>0, <2>1, <2>2, <2>3, Meetings
  <2>4. CASE Won(b)
    <3>1. a \in met[b]
      BY <1>1, <2>2, <2>4 DEF TokenInv, Raced
    <3> QED
      BY <1>0, <3>1, Meetings DEF TokenInv, Symmetric
  <2> QED
    BY <2>2, <2>3, <2>4 DEF Running, Won
<1>3. CASE Won(a)
  <2>1. ~Open(call'[b].token)
    BY <1>1, <1>3 DEF TokenInv, Spent
  <2>2. /\ call[b].kind = "reset" /\ call[b].token = call'[b].token
        /\ Running(b) \/ Won(b)
    BY <2>1, KindMoves DEF MarkResetTokenUsed, At, Running
  <2> QED
    BY <1>0, <1>1, <1>3, <2>2, Meetings DEF TokenInv, Raced
<1> QED
  BY <1>1, <1>2, <1>3

LEMMA TokenInvAlways == Spec => []TokenInv
<1>1. Init => TokenInv
  BY InitTypes DEF Init, TokenInv, Symmetric, Inserted, Aimed, Watched, Single, Spent, Raced,
          HasToken, NoToken, Open, Won, At, Idle
<1>2. TokenInv /\ [Next]_vars => TokenInv'
  BY TypeStep, SymmetricStep, InsertedStep, AimedStep, WatchedStep, SingleStep, SpentStep,
     RacedStep DEF TokenInv
<1> QED
  BY <1>1, <1>2, PTL DEF Spec

\* Of a user's tokens one works, and a token resets one password, unless the calls met or
\* one of them dropped an error.
THEOREM TokensSettle == Spec => []TokensSettled
<1>1. TokenInv => TokensSettled
  <2> SUFFICES ASSUME TokenInv, NEW a \in Calls, NEW b \in Calls, a # b, a \notin met[b],
                      ~call[a].slip, ~call[b].slip
               PROVE  /\ (HasToken(a) /\ token[a].user = token[b].user) =>
                             token[a].used \/ token[b].used
                      /\ ~ /\ call[a].kind = "reset" /\ call[b].kind = "reset"
                           /\ call[a].token = call[b].token
                           /\ call[a].answer = "ok" /\ call[b].answer = "ok"
    BY DEF TokensSettled
  <2>1. (HasToken(a) /\ token[a].user = token[b].user) => token[a].used \/ token[b].used
    BY DEF TokenInv, Single, Open, HasToken
  <2>2. ~ (Won(a) /\ Won(b) /\ call[a].token = call[b].token)
    BY DEF TokenInv, Raced, Symmetric, Won
  <2> QED
    BY <2>1, <2>2 DEF Won
<1> QED
  BY <1>1, TokenInvAlways, PTL

\* ResetPassword would take the token.
Works(t) == Open(t) /\ ~token[t].expired

LEMMA WorksNever ==
  ASSUME TokenInv, [Next]_vars, NEW t \in Calls, Past(t), ~Works(t)
  PROVE  ~Works(t)'
<1>0. TInv /\ token[t] \in TokenRow /\ token \in [Calls -> TokenRow]
  BY DEF TokenInv, TInv, TypeOK, TokenRow
<1>1. CASE ~Open(t)
  BY <1>1, OpensNever DEF Works
<1>2. CASE HasToken(t) /\ token[t].expired
  <2>1. \A c \in Calls : Request(c) => token' = token
    BY BeginsFresh DEF Begin, rows
  <2>2. token'[t].expired \/ ~HasToken(t)'
    <3>1. ASSUME NEW c \in Calls, Statement(c) PROVE token'[t].expired \/ ~HasToken(t)'
      <4>1. CASE InvalidateTokens(c) \/ MarkResetTokenUsed(c)
        BY <1>0, <1>2, <4>1 DEF InvalidateTokens, MarkResetTokenUsed, TokenRow
      <4>2. CASE InsertToken(c)
        BY <1>0, <1>2, <4>2 DEF InsertToken, At, Past
      <4>3. CASE DeleteUserRow(c)
        BY <1>0, <1>2, <4>3 DEF DeleteUserRow, HasToken, NoToken
      <4>4. CASE ~(InvalidateTokens(c) \/ MarkResetTokenUsed(c) \/ InsertToken(c)
                   \/ DeleteUserRow(c))
        BY <1>2, <3>1, <4>4 DEF Statement, SendToken, UpdateUserPassword, UpdateUserOthers,
            CreatePlanRow, UpdatePlanRow, CountSubscriptions, DeletePlanRow,
            UpsertSubscription, DeleteSubscriptionRow, Fail, rows
      <4> QED
        BY <4>1, <4>2, <4>3, <4>4
    <3>2. ASSUME NEW c \in Calls, Expire(c) PROVE token'[t].expired
      BY <1>0, <1>2, <3>2 DEF Expire, TokenRow
    <3>3. ASSUME Restart \/ UNCHANGED vars PROVE token' = token
      BY <3>3 DEF Restart, vars, rows
    <3> QED
      BY <1>2, <2>1, <3>1, <3>2, <3>3 DEF Next, Step
  <2> QED
    BY <2>2 DEF Works, Open
<1> QED
  BY <1>1, <1>2 DEF Works, Open

\* A reset token that once did not work any more never works again: none of the calls that
\* mark it, expire it, replace it or delete its user can be undone by another, whatever
\* overlaps, fails or restarts.
THEOREM TokensStayShut ==
  Spec => [][\A t \in Calls : Past(t) /\ ~Works(t) => ~Works(t)']_vars
<1>1. TokenInv /\ [Next]_vars => [\A t \in Calls : Past(t) /\ ~Works(t) => ~Works(t)']_vars
  BY WorksNever
<1> QED
  BY <1>1, TokenInvAlways, PTL DEF Spec

\* A token does not work any more once a ResetPassword that used it has been answered with
\* ok, unless the error of marking it was dropped.
THEOREM DoneResetsShut ==
  Spec => [](\A a \in Calls : Won(a) => ~Works(call[a].token))
<1>1. TokenInv => \A a \in Calls : Won(a) => ~Works(call[a].token)
  BY DEF TokenInv, Spent, Works
<1> QED
  BY <1>1, TokenInvAlways, PTL
=============================================================================
