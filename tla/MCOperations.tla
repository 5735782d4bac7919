---------------------------- MODULE MCOperations -----------------------------
(* Bounds for Operations: any one request, then requests that link and unlink *)
(* the account beside each other, both with the clock stopped, then messages  *)
(* beside messages, over time.                                                *)
EXTENDS Operations, TLC

CONSTANTS r1, r2

Shortest(programs) == {p \in programs : \A q \in programs : Len(p) <= Len(q)}

Linking == RestGetQR \cup RestPairPhone \cup RestDeleteSession

Anything == [offer |-> r1 :> (RestHandlers \cup Tools) @@ r2 :> {}, until |-> 0]
Links == [offer |-> r1 :> Linking @@ r2 :> Linking, until |-> 0]
Messages ==
    [offer |-> r1 :> Shortest(ToolSendMessage) @@ r2 :> Shortest(ToolSendMessage),
     until |-> Horizon]

MixesMC == {Anything, Links, Messages}
=============================================================================
