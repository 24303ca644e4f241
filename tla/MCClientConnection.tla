------------------------- MODULE MCClientConnection -------------------------
(* A client of the server on the laptop, beside the agent's events.        *)
EXTENDS ClientConnection

=============================================================================
