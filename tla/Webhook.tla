------------------------------- MODULE Webhook -------------------------------
(***************************************************************************)
(* Delivery of one account's events to its webhook: dispatchWebhook and    *)
(* doDispatchWebhook of service/account.go, the row of webhook_config and  *)
(* the requests that change it (handler/webhook.go).                       *)
(*                                                                         *)
(* Each event has a goroutine of its own, which reads the row once and     *)
(* then posts until it is answered below 500 or has used its attempts.     *)
(* Nothing is persisted.  The receiver is external: it may handle a post   *)
(* whose answer is then lost or is an error.                               *)
(***************************************************************************)
EXTENDS Naturals

CONSTANTS Events,       \* events of the account, each dispatched once
          Configs,      \* rows of webhook_config
          Muted,        \* those that are disabled or do not ask for these events
          RetryCount,   \* webhooks.retry_count of the configuration file
          NoRow         \* no row

ASSUME MutedAssumption == Muted \subseteq Configs
ASSUME RetryCountAssumption == RetryCount \in Nat
ASSUME NoRowAssumption == NoRow \notin Configs

VARIABLES
    config,     \* the row
    task,       \* the goroutine of each event
    handled,    \* the receiver: how often it has handled each event
    failures,   \* history: posts of each event that failed, as the sender saw it
    lied,       \* history: events handled and not acknowledged
    lost        \* history: events whose goroutine died with the process

hookVars == <<config, task, handled, failures, lied, lost>>

\* A count that is not positive means 3.
Retries == IF RetryCount = 0 THEN 3 ELSE RetryCount
MaxAttempts == 1 + Retries

\* What a goroutine does next ("new" to "answered", "failed" or "unwanted"), with
\* which row, at which attempt.
NewTask == [pc |-> "new", cfg |-> NoRow, attempt |-> 0]

HookInit ==
    /\ config \in Configs \cup {NoRow}
    /\ task = [e \in Events |-> NewTask]
    /\ handled = [e \in Events |-> 0]
    /\ failures = [e \in Events |-> 0]
    /\ lied = {}
    /\ lost = {}

-----------------------------------------------------------------------------
At(e, pc) == task[e].pc = pc
Goto(e, pc) == task' = [task EXCEPT ![e].pc = pc]

\* SetWebhook, DeleteWebhook.
SetWebhook(c) ==
    /\ config' = c
    /\ UNCHANGED <<task, handled, failures, lied, lost>>

\* handleEvent starts the goroutine.
dispatchWebhook(e) ==
    /\ At(e, "new")
    /\ e \notin lost
    /\ Goto(e, "read")
    /\ UNCHANGED <<config, handled, failures, lied, lost>>

\* (mutant: the goroutine waits for a row)
ReadConfig_Waits(e) ==
    /\ At(e, "read")
    /\ config \in Configs \ Muted
    /\ task' = [task EXCEPT ![e] = [pc |-> "post", cfg |-> config, attempt |-> 1]]
    /\ UNCHANGED <<config, handled, failures, lied, lost>>

\* The goroutine reads the row and filters; the read may fail, or no request can be
\* made of the URL.
ReadConfig(e) ==
    /\ At(e, "read")
    /\ \/ /\ config \in Configs \ Muted
          /\ task' = [task EXCEPT ![e] = [pc |-> "post", cfg |-> config, attempt |-> 1]]
       \/ Goto(e, "unwanted")
    /\ UNCHANGED <<config, handled, failures, lied, lost>>

\* (mutant: the receiver's "no" is taken for a failure)
Answer_Retried(e) ==
    /\ At(e, "post")
    /\ Goto(e, IF task[e].attempt < MaxAttempts THEN "sleep" ELSE "failed")
    /\ handled' = [handled EXCEPT ![e] = @ + 1]
    /\ UNCHANGED <<config, failures, lied, lost>>

\* An answer below 500: the event has been handled, or rejected for good.
Answer(e) ==
    /\ At(e, "post")
    /\ Goto(e, "answered")
    /\ handled' = [handled EXCEPT ![e] = @ + 1]
    /\ UNCHANGED <<config, failures, lied, lost>>

\* (mutant: one attempt more)
AfterFailure_OneMore(e) == IF task[e].attempt <= MaxAttempts THEN "sleep" ELSE "failed"

\* What follows a failed attempt.
AfterFailure(e) == IF task[e].attempt < MaxAttempts THEN "sleep" ELSE "failed"

\* A timeout, no connection or a server error, whether or not the event was handled.
Failure(e) ==
    /\ At(e, "post")
    /\ Goto(e, AfterFailure(e))
    /\ failures' = [failures EXCEPT ![e] = @ + 1]
    /\ \/ handled' = [handled EXCEPT ![e] = @ + 1] /\ lied' = lied \cup {e}
       \/ UNCHANGED <<handled, lied>>
    /\ UNCHANGED <<config, lost>>

\* The goroutine sleeps and tries again.
Sleep(e) ==
    /\ At(e, "sleep")
    /\ task' = [task EXCEPT ![e].pc = "post", ![e].attempt = @ + 1]
    /\ UNCHANGED <<config, handled, failures, lied, lost>>

\* The process ends, and with it every goroutine.
Running(e) == task[e].pc \in {"read", "post", "sleep"}
ProcessEnds ==
    /\ \E e \in Events : Running(e)
    /\ task' = [e \in Events |-> IF Running(e) THEN NewTask ELSE task[e]]
    /\ lost' = lost \cup {e \in Events : Running(e)}
    /\ UNCHANGED <<config, handled, failures, lied>>

doDispatchWebhook(e) == ReadConfig(e) \/ Answer(e) \/ Failure(e) \/ Sleep(e)

HookNext ==
    \/ \E c \in Configs \cup {NoRow} : SetWebhook(c)
    \/ \E e \in Events : dispatchWebhook(e) \/ doDispatchWebhook(e)
    \/ ProcessEnds

HookSpec == HookInit /\ [][HookNext]_hookVars

\* A goroutine goes on: its reads, its posts (the client has a timeout) and its
\* sleeps end.
HookFairSpec == HookSpec /\ \A e \in Events : WF_hookVars(doDispatchWebhook(e))

-----------------------------------------------------------------------------
\* An event is given up only after every attempt has failed, and is not posted
\* again once it was answered.
GivenUpAfterAll ==
    \A e \in Events :
        /\ At(e, "failed") => failures[e] = MaxAttempts
        /\ failures[e] = MaxAttempts => At(e, "failed")
        /\ At(e, "answered") => failures[e] = task[e].attempt - 1

\* The receiver sees an event twice only if it did not acknowledge it before.
HandledOnce == \A e \in Events : handled[e] > 1 => e \in lied

\* Every dispatch ends.
DispatchEnds == \A e \in Events : At(e, "read") ~> ~Running(e)
=============================================================================
