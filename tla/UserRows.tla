------------------------------ MODULE UserRows -------------------------------
(***************************************************************************)
(* What hangs on the row of a user, and the plans: ForgotPassword and      *)
(* ResetPassword of handler/auth.go, the password in UpdateUser of         *)
(* handler/users.go, handler/billing.go, and their statements in           *)
(* database/database.go and database/billing.go.                           *)
(*                                                                         *)
(* A call is a sequence of statements without a transaction; a statement   *)
(* takes effect, fails, or takes effect and ends in an error because its   *)
(* answer is lost.  Its constraints are part of it.  Each call is made     *)
(* once and its id stands for what it writes: a password, a token, the     *)
(* columns of a plan.  Emails, periods and Stripe ids are left out, and so *)
(* are refusals before the first statement, which change nothing.          *)
(***************************************************************************)
EXTENDS Naturals

CONSTANTS Users,        \* rows of app_user at the beginning
          Plans,        \* ids of plans
          Builtin,      \* the plans of seedPlans
          Fields,       \* columns of a plan
          Calls,        \* requests, each made at most once
          LostAnswers,  \* may a statement take effect and its answer be lost?
          None

ASSUME BuiltinAssumption == Builtin \subseteq Plans
ASSUME FieldsAssumption == Fields # {} /\ Fields \cap {"password", "others"} = {}
ASSUME LostAnswersAssumption == LostAnswers \in BOOLEAN
ASSUME NoneAssumption == None \notin Users \cup Calls \cup {"seeded"}
ASSUME SeededAssumption == "seeded" \notin Calls

VARIABLES
    password,       \* app_user: who set password_hash, None without a row
    token,          \* password_reset_token: the row a call inserted
    subscription,   \* subscription: plan_id of each user
    plan,           \* plan: who wrote each column, None without a row
    call,           \* requests: what they hold and what comes next
    asked,          \* history: whose value of a column was asked for last
    met             \* history: the calls under way together with a call

rows == <<password, token, subscription, plan>>
vars == <<rows, call, asked, met>>

Values == Calls \cup {"seeded", None}
NoPlan == [f \in Fields |-> None]
NoToken == [user |-> None, used |-> FALSE, expired |-> FALSE]

Idle == [kind |-> "none", pc |-> "idle", user |-> None, plan |-> None, token |-> None,
         asks |-> {}, seen |-> NoPlan, slip |-> FALSE, lost |-> FALSE, answer |-> "none"]

Kinds == {"none", "forgot", "reset", "update", "deleteUser", "createPlan", "updatePlan",
          "deletePlan", "assign", "deleteSub"}

Steps == {"idle", "invalidate", "insert", "mail", "password", "mark", "others", "deleteUser",
          "createPlan", "updatePlan", "count", "deletePlan", "upsert", "deleteSub", "done"}

Call == [kind : Kinds, pc : Steps, user : Users \cup {None}, plan : Plans \cup {None},
         token : Calls \cup {None}, asks : SUBSET (Fields \cup {"password", "others"}),
         seen : [Fields -> Values], slip : BOOLEAN, lost : BOOLEAN, answer : {"none", "ok", "error"}]

HasUser(u) == password[u] # None
HasPlan(p) == plan[p] # NoPlan
HasToken(t) == token[t].user # None
Subscribed(p) == \E u \in Users : subscription[u] = p
At(c, pc) == call[c].pc = pc
Running(c) == call[c].pc \notin {"idle", "done"}

TypeOK ==
    /\ password \in [Users -> Values]
    /\ token \in [Calls -> [user : Users \cup {None}, used : BOOLEAN, expired : BOOLEAN]]
    /\ subscription \in [Users -> Plans \cup {None}]
    /\ plan \in [Plans -> [Fields -> Values]]
    /\ \A p \in Plans : HasPlan(p) => \A f \in Fields : plan[p][f] # None
    /\ call \in [Calls -> Call]
    /\ asked \in [Plans -> [Fields -> Values]]
    /\ met \in [Calls -> SUBSET Calls]

\* seedPlans: a built-in plan that is not there is inserted.
Seeded(p, columns) ==
    IF p \in Builtin /\ columns[p] = NoPlan THEN [f \in Fields |-> "seeded"] ELSE columns[p]

Init ==
    /\ password = [u \in Users |-> "seeded"]
    /\ token = [c \in Calls |-> NoToken]
    /\ subscription = [u \in Users |-> None]
    /\ plan = [p \in Plans |-> Seeded(p, [q \in Plans |-> NoPlan])]
    /\ call = [c \in Calls |-> Idle]
    /\ asked = plan
    /\ met = [c \in Calls |-> {}]

-----------------------------------------------------------------------------
Begin(c, rec) ==
    /\ At(c, "idle")
    /\ call' = [call EXCEPT ![c] = rec]
    /\ UNCHANGED <<rows, asked>>

Goto(c, pc) == call' = [call EXCEPT ![c].pc = pc]

\* A failure the handler does not look at.
Slip(c, pc) == call' = [call EXCEPT ![c].pc = pc, ![c].slip = TRUE]

Answer(c, answer) == call' = [call EXCEPT ![c].pc = "done", ![c].answer = answer]

\* The statement took effect, but the call learns of an error.
Lost(c) ==
    /\ LostAnswers
    /\ call' = [call EXCEPT ![c].pc = "done", ![c].lost = TRUE, ![c].answer = "error"]

\* A statement that took effect: its call goes on, or is answered.
Proceed(c, pc) == Goto(c, pc) \/ Lost(c)
Succeed(c) == Answer(c, "ok") \/ Lost(c)

\* A statement fails, or what a call looks for is not there; DeletePlan is refused.
\* The errors of two statements are dropped.
Fail(c) ==
    /\ Running(c)
    /\ ~At(c, "mark")
    /\ At(c, "count") => Subscribed(call[c].plan)
    /\ Answer(c, "error")
    /\ UNCHANGED <<rows, asked>>

-----------------------------------------------------------------------------
(* Passwords and reset tokens.                                             *)

\* The user of the email is looked up.
ForgotPassword(c, u) ==
    /\ HasUser(u)
    /\ Begin(c, [Idle EXCEPT !.kind = "forgot", !.pc = "invalidate", !.user = u])

\* (mutant: the older tokens stay)
InvalidateTokens_Not(c) ==
    /\ At(c, "invalidate")
    /\ Goto(c, "insert")
    /\ UNCHANGED <<rows, asked>>

\* CreateResetToken: the UPDATE, whose error is dropped.
InvalidateTokens(c) ==
    /\ At(c, "invalidate")
    /\ \/ /\ token' = [t \in Calls |-> IF token[t].user = call[c].user
                                       THEN [token[t] EXCEPT !.used = TRUE] ELSE token[t]]
          /\ Goto(c, "insert") \/ (LostAnswers /\ Slip(c, "insert"))
       \/ Slip(c, "insert") /\ UNCHANGED token
    /\ UNCHANGED <<password, subscription, plan, asked>>

\* Its INSERT, which refers to the user.
InsertToken(c) ==
    /\ At(c, "insert")
    /\ HasUser(call[c].user)
    /\ token' = [token EXCEPT ![c] = [NoToken EXCEPT !.user = call[c].user]]
    /\ Proceed(c, "mail")
    /\ UNCHANGED <<password, subscription, plan, asked>>

\* By mail, or to the log.
SendToken(c) ==
    /\ At(c, "mail")
    /\ Answer(c, "ok")
    /\ UNCHANGED <<rows, asked>>

\* GetResetTokenByHash, which skips used tokens, and the look at its expiry.
ResetPassword(c, t) ==
    /\ HasToken(t) /\ ~token[t].used /\ ~token[t].expired
    /\ Begin(c, [Idle EXCEPT !.kind = "reset", !.pc = "password",
                             !.user = token[t].user, !.token = t])

\* UpdateUser: "others" stands for the email, the role and the flag.
UpdateUser(c, u, A) ==
    /\ HasUser(u)
    /\ A \subseteq {"password", "others"} /\ A # {}
    /\ Begin(c, [Idle EXCEPT !.kind = "update", !.user = u, !.asks = A,
                   !.pc = IF "password" \in A THEN "password" ELSE "others"])

\* The UPDATE of both; of a row that is gone it changes nothing.
UpdateUserPassword(c) ==
    LET u == call[c].user IN
    /\ At(c, "password")
    /\ password' = IF HasUser(u) THEN [password EXCEPT ![u] = c] ELSE password
    /\ \/ call[c].kind = "reset" /\ Proceed(c, "mark")
       \/ call[c].kind = "update" /\ "others" \in call[c].asks /\ Proceed(c, "others")
       \/ call[c].kind = "update" /\ "others" \notin call[c].asks /\ Succeed(c)
    /\ UNCHANGED <<token, subscription, plan, asked>>

\* (mutant: a token that cannot be marked is an error of the reset)
MarkResetTokenUsed_Returned(c) ==
    LET t == call[c].token IN
    /\ At(c, "mark")
    /\ \/ token' = [token EXCEPT ![t].used = HasToken(t)] /\ Answer(c, "ok")
       \/ UNCHANGED token /\ Answer(c, "error")
    /\ UNCHANGED <<password, subscription, plan, asked>>

\* The error is dropped.
MarkResetTokenUsed(c) ==
    LET t == call[c].token
        Dropped == call' = [call EXCEPT ![c].pc = "done", ![c].slip = TRUE, ![c].answer = "ok"] IN
    /\ At(c, "mark")
    /\ \/ /\ token' = [token EXCEPT ![t].used = HasToken(t)]
          /\ Answer(c, "ok") \/ (LostAnswers /\ Dropped)
       \/ Dropped /\ UNCHANGED token
    /\ UNCHANGED <<password, subscription, plan, asked>>

\* Email, role and flag are written (the last two in Access); an unknown role is a
\* Fail.
UpdateUserOthers(c) ==
    /\ At(c, "others")
    /\ Answer(c, "ok")
    /\ UNCHANGED <<rows, asked>>

DeleteUser(c, u) ==
    /\ HasUser(u)
    /\ Begin(c, [Idle EXCEPT !.kind = "deleteUser", !.pc = "deleteUser", !.user = u])

\* The user's tokens and subscription go along (a user with accounts is a Fail).
DeleteUserRow(c) ==
    LET u == call[c].user IN
    /\ At(c, "deleteUser")
    /\ password' = [password EXCEPT ![u] = None]
    /\ token' = [t \in Calls |-> IF token[t].user = u THEN NoToken ELSE token[t]]
    /\ subscription' = [subscription EXCEPT ![u] = None]
    /\ Succeed(c)
    /\ UNCHANGED <<plan, asked>>

\* An hour has passed.
Expire(t) ==
    /\ HasToken(t)
    /\ token' = [token EXCEPT ![t].expired = TRUE]
    /\ UNCHANGED <<password, subscription, plan, call, asked>>

-----------------------------------------------------------------------------
(* Plans and subscriptions.                                                *)

CreatePlan(c, p) ==
    Begin(c, [Idle EXCEPT !.kind = "createPlan", !.pc = "createPlan", !.plan = p,
                          !.asks = Fields])

CreatePlanRow(c) ==
    LET p == call[c].plan IN
    /\ At(c, "createPlan")
    /\ ~HasPlan(p)
    /\ plan' = [plan EXCEPT ![p] = [f \in Fields |-> c]]
    /\ asked' = [asked EXCEPT ![p] = [f \in Fields |-> c]]
    /\ Succeed(c)
    /\ UNCHANGED <<password, token, subscription>>

\* UpdatePlan reads the row.
UpdatePlan(c, p, F) ==
    /\ HasPlan(p)
    /\ Begin(c, [Idle EXCEPT !.kind = "updatePlan", !.pc = "updatePlan", !.plan = p,
                             !.asks = F, !.seen = plan[p]])

\* (mutant: what the request leaves out is written as it came)
Merged_Raw(c) == [f \in Fields |-> IF f \in call[c].asks THEN c ELSE None]

\* (mutant: the row is written back as it was read)
Merged_Not(c) == call[c].seen

\* What the request leaves out is taken from the row that was read.
Merged(c) == [f \in Fields |-> IF f \in call[c].asks THEN c ELSE call[c].seen[f]]

\* Its UPDATE of every column, and no row is an error.
UpdatePlanRow(c) ==
    LET p == call[c].plan IN
    /\ At(c, "updatePlan")
    /\ HasPlan(p)
    /\ plan' = [plan EXCEPT ![p] = Merged(c)]
    /\ asked' = [asked EXCEPT ![p] = [f \in Fields |-> IF f \in call[c].asks THEN c ELSE @[f]]]
    /\ Succeed(c)
    /\ UNCHANGED <<password, token, subscription>>

DeletePlan(c, p) ==
    Begin(c, [Idle EXCEPT !.kind = "deletePlan", !.pc = "count", !.plan = p])

\* No subscription counts; nor does an error, whose count stays zero.
CountSubscriptions(c) ==
    /\ At(c, "count")
    /\ \/ ~Subscribed(call[c].plan) /\ Goto(c, "deletePlan")
       \/ Slip(c, "deletePlan")
    /\ UNCHANGED <<rows, asked>>

\* (mutant: subscriptions do not refer to plans, the count decides alone)
DeletePlanRow_Counted(c) ==
    LET p == call[c].plan IN
    /\ At(c, "deletePlan")
    /\ HasPlan(p)
    /\ plan' = [plan EXCEPT ![p] = NoPlan]
    /\ Succeed(c)
    /\ UNCHANGED <<password, token, subscription, asked>>

\* The DELETE, which a subscription that refers to the plan makes fail.
DeletePlanRow(c) ==
    LET p == call[c].plan IN
    /\ At(c, "deletePlan")
    /\ HasPlan(p)
    /\ ~Subscribed(p)
    /\ plan' = [plan EXCEPT ![p] = NoPlan]
    /\ Succeed(c)
    /\ UNCHANGED <<password, token, subscription, asked>>

AssignPlan(c, u, p) ==
    Begin(c, [Idle EXCEPT !.kind = "assign", !.pc = "upsert", !.user = u, !.plan = p])

\* A row per user; it refers to the user and the plan.
UpsertSubscription(c) ==
    /\ At(c, "upsert")
    /\ HasUser(call[c].user) /\ HasPlan(call[c].plan)
    /\ subscription' = [subscription EXCEPT ![call[c].user] = call[c].plan]
    /\ Succeed(c)
    /\ UNCHANGED <<password, token, plan, asked>>

DeleteSubscription(c, u) ==
    Begin(c, [Idle EXCEPT !.kind = "deleteSub", !.pc = "deleteSub", !.user = u])

DeleteSubscriptionRow(c) ==
    /\ At(c, "deleteSub")
    /\ subscription[call[c].user] # None
    /\ subscription' = [subscription EXCEPT ![call[c].user] = None]
    /\ Succeed(c)
    /\ UNCHANGED <<password, token, plan, asked>>

-----------------------------------------------------------------------------
\* The process dies and starts again: calls get no answer, seedPlans runs.
Restart ==
    /\ plan' = [p \in Plans |-> Seeded(p, plan)]
    /\ asked' = [p \in Plans |-> IF HasPlan(p) THEN asked[p] ELSE Seeded(p, plan)]
    /\ call' = [c \in Calls |-> IF Running(c) THEN [call[c] EXCEPT !.pc = "done"] ELSE call[c]]
    /\ UNCHANGED <<password, token, subscription>>

Request(c) ==
    \/ \E u \in Users :
         \/ ForgotPassword(c, u) \/ DeleteUser(c, u) \/ DeleteSubscription(c, u)
         \/ \E A \in SUBSET {"password", "others"} : UpdateUser(c, u, A)
         \/ \E p \in Plans : AssignPlan(c, u, p)
    \/ \E t \in Calls : ResetPassword(c, t)
    \/ \E p \in Plans :
         \/ CreatePlan(c, p) \/ DeletePlan(c, p)
         \/ \E F \in SUBSET Fields : UpdatePlan(c, p, F)

Statement(c) ==
    \/ InvalidateTokens(c) \/ InsertToken(c) \/ SendToken(c)
    \/ UpdateUserPassword(c) \/ MarkResetTokenUsed(c) \/ UpdateUserOthers(c) \/ DeleteUserRow(c)
    \/ CreatePlanRow(c) \/ UpdatePlanRow(c) \/ CountSubscriptions(c) \/ DeletePlanRow(c)
    \/ UpsertSubscription(c) \/ DeleteSubscriptionRow(c) \/ Fail(c)

Step ==
    \/ \E c \in Calls : Request(c) \/ Statement(c) \/ Expire(c)
    \/ Restart

Observe ==
    met' = [c \in Calls |-> IF Running(c) THEN met[c] \cup {b \in Calls : Running(b)} ELSE met[c]]

Next == Step /\ Observe

Spec == Init /\ [][Next]_vars

-----------------------------------------------------------------------------
\* What a row refers to is there: DeletePlan's count and its DELETE are two
\* statements, and a count that fails counts as none.
References ==
    /\ \A u \in Users : subscription[u] # None => HasUser(u) /\ HasPlan(subscription[u])
    /\ \A t \in Calls : HasToken(t) => HasUser(token[t].user)

\* A user has one token that works, and of the resets answered "ok" no two had the
\* same token, unless the calls overlapped or an error that was dropped left the
\* older token as it was.  A reset that gets no such answer says nothing: after a
\* crash between the password and the mark, or a lost answer of the password's
\* UPDATE, the token works for another reset.
TokensSettled ==
    \A a, b \in Calls :
        \/ a = b \/ a \in met[b] \/ call[a].slip \/ call[b].slip
        \/ /\ (HasToken(a) /\ token[a].user = token[b].user) => token[a].used \/ token[b].used
           /\ ~ /\ call[a].kind = "reset" /\ call[b].kind = "reset"
                /\ call[a].token = call[b].token
                /\ call[a].answer = "ok" /\ call[b].answer = "ok"

\* A column of a plan is as was last asked for, unless an UpdatePlan that asks for
\* something else was under way then.
PlanSettled ==
    \A p \in Plans, f \in Fields :
        (HasPlan(p) /\ plan[p][f] # asked[p][f]) =>
            \E c \in Calls : /\ call[c].kind = "updatePlan" /\ call[c].plan = p
                             /\ f \notin call[c].asks
                             /\ asked[p][f] \in met[c]

\* Who is answered with an error keeps the password, unless that very UPDATE took
\* effect and its answer was lost, or an UpdateUser asks for an email, a role or a
\* flag as well: the password is written first.
ErrorKeepsPassword ==
    \A u \in Users, c \in Calls :
        (password[u] = c /\ call[c].answer = "error") =>
            \/ call[c].lost
            \/ call[c].kind = "update" /\ "others" \in call[c].asks
=============================================================================
