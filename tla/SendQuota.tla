------------------------------ MODULE SendQuota ------------------------------
(***************************************************************************)
(* The token bucket of one account's send operations: tokenBucket in       *)
(* service/account.go.                                                     *)
(*                                                                         *)
(* The bucket holds a minute's worth of messages, starts full, and refills *)
(* by a minute's worth each minute.  With a clock that ticks once per unit *)
(* of refill, a message costs Cost units and the bucket holds Minute units,*)
(* Minute ticks being a minute: 2 s and 60 s for the 30 messages of the    *)
(* code.  allow is one section under tb.mu; float64 rounding is left out,  *)
(* and so are SendReaction and RevokeMessage, which do not ask the bucket. *)
(***************************************************************************)
EXTENDS Naturals

CONSTANTS Cost,     \* ticks between two messages at the steady rate
          Minute,   \* capacity of the bucket in units, and its refill time
          Horizon   \* bound: how long a run of the process is observed

ASSUME CostAssumption == Cost \in Nat \ {0}
ASSUME MinuteAssumption == Minute \in Nat /\ Minute >= Cost
ASSUME HorizonAssumption == Horizon \in Nat

VARIABLES
    now,        \* the monotonic clock
    tokens,     \* tb.tokens
    lastTime,   \* tb.lastTime
    since,      \* when an observer, at any moment, begins to count
    spent       \* history: units granted since then

vars == <<now, tokens, lastTime, since, spent>>

Times == 0 .. Horizon

TypeOK ==
    /\ now \in Times
    /\ tokens \in 0 .. Minute
    /\ lastTime \in 0 .. now
    /\ since \in Times
    /\ spent \in Nat

Init ==
    /\ now = 0
    /\ tokens = Minute
    /\ lastTime = 0
    /\ since \in Times
    /\ spent = 0

\* (mutant: the bucket grows without limit)
Capped_Not(n) == n

\* tokens above max are lost.
Capped(n) == IF n > Minute THEN Minute ELSE n

\* What the bucket holds once the time since lastTime is credited.
Refilled == Capped(tokens + (now - lastTime))

Counting == since <= now

\* allow says yes: SendMessage, SendMedia, SendReply.
Allow ==
    /\ Refilled >= Cost
    /\ tokens' = Refilled - Cost
    /\ lastTime' = now
    /\ spent' = IF Counting THEN spent + Cost ELSE spent
    /\ UNCHANGED <<now, since>>

\* allow says no: the request is answered with an error and the credit is kept.
Refuse ==
    /\ Refilled < Cost
    /\ tokens' = Refilled
    /\ lastTime' = now
    /\ UNCHANGED <<now, since, spent>>

Tick ==
    /\ now < Horizon
    /\ now' = now + 1
    /\ UNCHANGED <<tokens, lastTime, since, spent>>

Next == Allow \/ Refuse \/ Tick

Spec == Init /\ [][Next]_vars

-----------------------------------------------------------------------------
\* In any interval of this process the limited operations are granted at most a
\* full bucket and what was refilled in it; in any minute, twice the number per
\* minute.
WindowBound ==
    Counting =>
        /\ spent <= Minute + (now - since)
        /\ now - since <= Minute => spent <= 2 * Minute
=============================================================================
