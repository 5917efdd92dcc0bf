--------------------------- MODULE MCConnections ---------------------------
(* Instances of Connections for TLC. *)
EXTENDS Connections, TLC

CONSTANTS a, b      \* connections

MCSupported == <<"2025-06-18", "2025-11-25">>

\* The one on the websocket sends what changes or uses the session, what must not be
\* answered, and what its loop goes on after; the other frames its loop treats
\* differently.
MCSendable ==
  (a :> {Message("initialize", TRUE), Message("tools/call", TRUE),
         Message("shutdown", FALSE), Message("other", FALSE), Message("blank", FALSE)})
  @@ (b :> {Message("tools/call", TRUE), Message("blank", FALSE),
            Message("not JSON", FALSE), Message("bad frame", FALSE)})

MCSomeReturns == {Reply(FALSE, TRUE), Failure("Internal"), Failure("Tool")}

MCMixed == (a :> "websocket") @@ (b :> "framed")

MCThreeAndOne == (a :> 3) @@ (b :> 1)
=============================================================================
