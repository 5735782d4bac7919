----------------------------- MODULE Operations ------------------------------
(***************************************************************************)
(* Requests about one account, from the REST API and from MCP, running     *)
(* side by side: the steps of Handlers on the session of Session and the   *)
(* send limiter of SendQuota.                                              *)
(*                                                                         *)
(* A request outlives what it looked at: between any two of its steps the  *)
(* session may be dropped, unlinked, replaced or let go of, time passes,   *)
(* and other requests take their steps.  A client handed out by            *)
(* requireConnectedClient is used whatever becomes of it, so an operation  *)
(* may succeed, be refused, or succeed with its reply lost.                *)
(***************************************************************************)
EXTENDS SendQuota, Handlers, FiniteSets

CONSTANTS Requests,         \* slots for requests in flight
          MaxConcurrent,    \* the limit of RateLimit, when there is one
          Mixes             \* bound: what the slots may be asked for, and until when

ASSUME RequestsAssumption == IsFiniteSet(Requests)
ASSUME MaxConcurrentAssumption == MaxConcurrent \in Nat \ {0}
ASSUME MixesAssumption ==
    \A m \in Mixes : m.offer \in [Requests -> SUBSET (RestHandlers \cup Tools)] /\ m.until \in Times

VARIABLES
    mix,        \* bound: the mix of this run
    session,    \* of the account
    request,    \* what is in each slot
    slots,      \* len(sem) of RateLimit
    reached,    \* history: units that reached WhatsApp since the observer counts
    everLinked  \* history: the account had credentials at some time

opVars == <<mix, session, request, slots, reached, everLinked>>
allVars == <<vars, opVars>>

S == INSTANCE Session WITH Accounts <- {"account"}, session <- [a \in {"account"} |-> session]

Fronts == {"none", "rest", "mcp", "shed"}

Request == [front : Fronts, prog : Seq(Steps), at : Nat \ {0},
            changed : BOOLEAN, lost : BOOLEAN, answer : {"none", "ok", "error"}]

Begin(f, p) == [front |-> f, prog |-> p, at |-> 1,
                changed |-> FALSE, lost |-> FALSE, answer |-> "none"]

Idle == Begin("none", <<>>)

OpTypeOK ==
    /\ TypeOK
    /\ mix \in Mixes
    /\ session \in S!SessionState
    /\ request \in [Requests -> Request]
    /\ slots \in 0 .. MaxConcurrent
    /\ reached \in Nat
    /\ everLinked \in BOOLEAN

\* Linked or not: the store outlives the process.
OpInit ==
    /\ Init
    /\ mix \in Mixes
    /\ since <= mix.until
    /\ session \in S!LetGo(S!NoSession)
    /\ request = [r \in Requests |-> Idle]
    /\ slots = 0
    /\ reached = 0
    /\ everLinked = session.linked

Running(r) == request[r].front # "none"

\* The next step of r.
At(r, step) ==
    LET q == request[r] IN q.answer = "none" /\ q.at <= Len(q.prog) /\ q.prog[q.at] = step

Goto(r, n) == request' = [request EXCEPT ![r].at = @ + n]
Pass(r) == Goto(r, 1)
Fail(r) == request' = [request EXCEPT ![r].answer = "error"]

\* No request keeps a.mu across its network call.
LockFree == \A r \in Requests, step \in DialSteps : ~At(r, step)

Become(sessions) ==
    /\ session' \in sessions
    /\ everLinked' = (everLinked \/ session'.linked)

quiet == <<vars, mix, reached>>
still == <<quiet, session, everLinked>>

-----------------------------------------------------------------------------
(* How requests come and go.                                               *)

\* (mutant: the slots are counted after the request is let in)
Arrive_OneTooMany(r) ==
    /\ ~Running(r)
    /\ \/ \E p \in RestHandlers \cap mix.offer[r] :
            /\ slots <= MaxConcurrent
            /\ slots' = slots + 1
            /\ request' = [request EXCEPT ![r] = Begin("rest", p)]
       \/ \E p \in Tools \cap mix.offer[r] :
            /\ request' = [request EXCEPT ![r] = Begin("mcp", p)]
            /\ UNCHANGED slots
    /\ UNCHANGED still

\* RateLimit guards the REST API only.
Arrive(r) ==
    /\ ~Running(r)
    /\ \/ \E p \in RestHandlers \cap mix.offer[r] :
            /\ slots < MaxConcurrent
            /\ slots' = slots + 1
            /\ request' = [request EXCEPT ![r] = Begin("rest", p)]
       \/ \E p \in Tools \cap mix.offer[r] :
            /\ request' = [request EXCEPT ![r] = Begin("mcp", p)]
            /\ UNCHANGED slots
    /\ UNCHANGED still

\* 429 Too Many Requests.
Shed(r) ==
    /\ ~Running(r)
    /\ RestHandlers \cap mix.offer[r] # {}
    /\ slots = MaxConcurrent
    /\ request' = [request EXCEPT ![r] = [Begin("shed", <<>>) EXCEPT !.answer = "error"]]
    /\ UNCHANGED <<still, slots>>

Succeed(r) ==
    /\ Running(r)
    /\ request[r].answer = "none"
    /\ request[r].at > Len(request[r].prog)
    /\ request' = [request EXCEPT ![r].answer = "ok"]
    /\ UNCHANGED <<still, slots>>

GiveBack(r) == slots' = IF request[r].front = "rest" THEN slots - 1 ELSE slots

\* The deferred receive of RateLimit, after the handler has answered.
Leave(r) ==
    /\ request[r].answer # "none"
    /\ request' = [request EXCEPT ![r] = Idle]
    /\ GiveBack(r)
    /\ UNCHANGED still

\* (mutant: the slot is given back on a normal return only)
Panic_Leak(r) ==
    /\ Running(r)
    /\ request[r].answer = "none"
    /\ request' = [request EXCEPT ![r] = Idle]
    /\ UNCHANGED <<still, slots>>

\* A handler panics: the deferred unlocks and the deferred receive are run, the
\* connection is closed by net/http, a tool's caller told by WithRecovery.
Panic(r) ==
    /\ Running(r)
    /\ request[r].answer = "none"
    /\ request' = [request EXCEPT ![r] = Idle]
    /\ GiveBack(r)
    /\ UNCHANGED still

-----------------------------------------------------------------------------
(* Steps.                                                                  *)

\* Permission, ownership and arguments; what WhatsApp or a table is asked; the
\* code that comes out of the QR channel.
Judge(r) ==
    /\ \E step \in {"permit", "account", "check", "ask", "code"} : At(r, step)
    /\ Pass(r) \/ Fail(r)
    /\ UNCHANGED <<still, slots>>

\* (mutant: a failure to store what was sent is returned to the caller)
BestEffort_Returned(r) ==
    /\ \E step \in {"try", "store"} : At(r, step)
    /\ Pass(r) \/ Fail(r)
    /\ UNCHANGED <<still, slots>>

\* Errors are dropped or logged.
BestEffort(r) ==
    /\ \E step \in {"try", "store"} : At(r, step)
    /\ Pass(r)
    /\ UNCHANGED <<still, slots>>

\* StatusResponse, Info: a look under the read lock.
Look(r) ==
    /\ At(r, "status")
    /\ LockFree
    /\ Pass(r)
    /\ UNCHANGED <<still, slots>>

\* HasStoredCredentials; GetSession skips the verification when there are none or
\* when the client is logged in.
HasStoredCredentials(r) ==
    /\ LockFree
    /\ \/ At(r, "linked") /\ IF session.linked THEN Pass(r) ELSE Fail(r)
       \/ At(r, "stored") /\ session.linked /\ Pass(r)
       \/ At(r, "stored") /\ (session.client = "up" \/ ~session.linked) /\ Goto(r, 3)
    /\ UNCHANGED <<still, slots>>

\* EnsureConnected, and Connect up to its network call.
Connect(r) ==
    /\ LockFree
    /\ \/ /\ \E step \in {"connect", "verify"} : At(r, step)
          /\ session.client = "up"
          /\ Goto(r, 2)
          /\ UNCHANGED <<session, everLinked>>
       \/ /\ \E step \in {"connect", "verify"} : At(r, step)
          /\ session.client # "up"
          /\ Become(S!Prepared(session))
          /\ Pass(r)
       \/ /\ session.client # "up"              \* the session store cannot be read
          /\ \/ At(r, "connect") /\ Fail(r)
             \/ At(r, "verify") /\ Goto(r, 2)
          /\ UNCHANGED <<session, everLinked>>
    /\ UNCHANGED <<quiet, slots>>

\* The network call of Connect and GetQR, under a.mu.
Dial(r) ==
    /\ \/ /\ \E step \in DialSteps : At(r, step)
          /\ Become(S!Opened(session))
          /\ Pass(r)
       \/ /\ \/ At(r, "verifydial") /\ Pass(r)
             \/ (At(r, "dial") \/ At(r, "qrdial")) /\ Fail(r)
          /\ UNCHANGED <<session, everLinked>>
    /\ UNCHANGED <<quiet, slots>>

\* GetQR up to its network call: refused, with the new client left in place, when
\* the store holds a device.
PrepareQR(r) ==
    /\ At(r, "qr")
    /\ LockFree
    /\ \/ /\ Become(S!Prepared(session))
          /\ IF session'.linked THEN Fail(r) ELSE Pass(r)
       \/ /\ Become(S!LetGo(session))           \* the session store cannot be read
          /\ Fail(r)
    /\ UNCHANGED <<quiet, slots>>

\* A linking code for a client that is connected and not logged in.
RequestCode(r) ==
    /\ At(r, "paircode")
    /\ LockFree
    /\ \/ session.client = "up" /\ ~session.linked /\ Pass(r)
       \/ Fail(r)
    /\ UNCHANGED <<still, slots>>

\* The client is dropped whether or not the servers or the store go along.
LogOut(r) ==
    /\ At(r, "logout")
    /\ LockFree
    /\ Become(S!LetGo(session))
    /\ Pass(r) \/ Fail(r)
    /\ UNCHANGED <<quiet, slots>>

requireConnectedClient(r) ==
    /\ At(r, "client")
    /\ LockFree
    /\ IF session.client = "up" THEN Pass(r) ELSE Fail(r)
    /\ UNCHANGED <<still, slots>>

AskLimiter(r) ==
    /\ At(r, "allow")
    /\ \/ Allow /\ Pass(r)
       \/ Refuse /\ Fail(r)
    /\ UNCHANGED <<mix, session, slots, reached, everLinked>>

\* (mutant: the error of the send is not looked at)
Tell_Ignored(r) ==
    /\ \/ At(r, "write") /\ UNCHANGED reached
       \/ At(r, "send") /\ reached' = IF Counting THEN reached + Cost ELSE reached
    /\ \E changed \in BOOLEAN :
         request' = [request EXCEPT ![r].at = @ + 1, ![r].changed = @ \/ changed]
    /\ UNCHANGED <<vars, mix, session, slots, everLinked>>

\* WhatsApp makes the change and says so, or its reply is lost.
Tell(r) ==
    /\ \/ At(r, "write") /\ UNCHANGED reached
       \/ At(r, "send") /\ reached' = IF Counting THEN reached + Cost ELSE reached
    /\ \/ request' = [request EXCEPT ![r].at = @ + 1, ![r].changed = TRUE]
       \/ request' = [request EXCEPT ![r].answer = "error", ![r].changed = TRUE, ![r].lost = TRUE]
    /\ UNCHANGED <<vars, mix, session, slots, everLinked>>

\* WhatsApp refuses, or the client is not connected or not logged in any more.
Refused(r) ==
    /\ At(r, "write") \/ At(r, "send")
    /\ Fail(r)
    /\ UNCHANGED <<still, slots>>

\* Callbacks, goroutines, phones, and what requests about other accounts do to
\* the store.
SessionMoves ==
    /\ LockFree
    /\ Become(S!After(session))
    /\ UNCHANGED <<quiet, request, slots>>

Clock ==
    /\ now < mix.until
    /\ Tick
    /\ UNCHANGED opVars

OpNext ==
    \/ \E r \in Requests :
         \/ Arrive(r) \/ Shed(r) \/ Succeed(r) \/ Leave(r) \/ Panic(r)
         \/ Judge(r) \/ BestEffort(r) \/ Look(r) \/ HasStoredCredentials(r)
         \/ Connect(r) \/ Dial(r) \/ PrepareQR(r) \/ RequestCode(r) \/ LogOut(r)
         \/ requireConnectedClient(r) \/ AskLimiter(r) \/ Tell(r) \/ Refused(r)
    \/ SessionMoves
    \/ Clock

OpSpec == OpInit /\ [][OpNext]_allVars

-----------------------------------------------------------------------------
(* Properties.                                                             *)

\* The limiter bounds what is granted; a message goes out later, after the client
\* is found and the file uploaded.  In any interval WhatsApp gets at most a full
\* bucket, what was refilled, and one message for each request in flight.
SendBound ==
    Counting => reached <= Minute + (now - since) + Cost * Cardinality(Requests)

\* An error answer means that nothing was changed, so that the request may be
\* sent again, unless the reply of WhatsApp was lost or the request is one of the
\* few that make several changes or read something back; a success means that
\* WhatsApp has made the change and said so.
AnswersTrue ==
    \A r \in Requests :
        LET q == request[r] IN
        /\ (q.answer = "error" /\ q.changed /\ ~q.lost) => q.prog \in Compound
        /\ (q.answer = "ok" /\ \E i \in DOMAIN q.prog : q.prog[i] \in {"write", "send"})
               => q.changed /\ ~q.lost

\* The slots of RateLimit are those of the REST requests in flight: none is lost
\* on an error, a shed request or a panic, and no more than the limit run.
SlotsHeld == slots = Cardinality({r \in Requests : request[r].front = "rest"})

\* The REST API gives no linking code to an account that was never linked: the
\* request asks for stored credentials first, and the code is for a client that
\* has none.
NoFirstCodeByRest ==
    \A r \in Requests :
        (request[r].answer = "ok" /\ request[r].prog \in RestPairPhone) => everLinked
=============================================================================
