------------------------------- MODULE Session -------------------------------
(***************************************************************************)
(* What the rest of the server may rely on about the WhatsApp session of   *)
(* an account: whether it has a client, whether that client is connected,  *)
(* and whether credentials are there to log in with.  It hides the client  *)
(* objects, the shared session store, the callbacks and the goroutines;    *)
(* AccountSession is shown to implement it and Operations builds on it.    *)
(*                                                                         *)
(* The promise is in what is missing from After: a client is never handed  *)
(* out connected (it is prepared, then connected), and a connected client  *)
(* that loses its credentials loses its connection in the same step.       *)
(***************************************************************************)
CONSTANT Accounts

VARIABLE session    \* of each account

SessionState == [client : {"none", "down", "up"}, linked : BOOLEAN]

NoSession == [client |-> "none", linked |-> FALSE]

Init == session = [a \in Accounts |-> NoSession]

-----------------------------------------------------------------------------
(* The sessions that may follow session s.                                 *)

\* prepareClient: a client around whatever device the store yields; the client
\* before it is let go.
Prepared(s) == [client : {"down"}, linked : BOOLEAN]

\* The client the account holds is connected, by a request, by autoReconnect or
\* by the library.
Opened(s) == {t \in {[s EXCEPT !.client = "up"]} : s.client = "down"}

\* The connection ends; the client and its credentials stay.
Broken(s) == {t \in {[s EXCEPT !.client = "down"]} : s.client = "up"}

\* The servers revoke the credentials: the library closes the client.
Unlinked(s) == {t \in {[client |-> "down", linked |-> FALSE]} : s.client = "up"}

\* A phone enters the code shown for a client without credentials.
Paired(s) == {t \in {[client |-> "up", linked |-> TRUE]} : s.client = "up"}

\* The account lets its client go: what the shared store holds decides.  Without
\* a client, so do the other accounts of the store.
LetGo(s) == [client : {"none"}, linked : BOOLEAN]

After(s) ==
    Prepared(s) \cup Opened(s) \cup Broken(s) \cup Unlinked(s) \cup Paired(s) \cup LetGo(s)

-----------------------------------------------------------------------------
\* One step of the server may move several sessions: those on a companion that is
\* unlinked, those that read a store another account writes.
Next ==
    session' \in {f \in [Accounts -> SessionState] :
                    \A a \in Accounts : f[a] \in After(session[a]) \cup {session[a]}}

Spec == Init /\ [][Next]_session
=============================================================================
