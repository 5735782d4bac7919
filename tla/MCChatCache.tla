----------------------------- MODULE MCChatCache -----------------------------
(***************************************************************************)
(* ChatCache for TLC: an incoming and an outgoing message.  For its page   *)
(* the outgoing one is like one of a history sync: nobody deletes the key. *)
(***************************************************************************)
EXTENDS ChatCache, TLC

CONSTANTS incoming, outgoing

OneSent == {outgoing}
=============================================================================
