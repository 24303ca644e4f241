---------------------------- MODULE MCAcpAdapter ----------------------------
(* An agent that offers its options in either order, or only a way out.    *)
EXTENDS AcpAdapter

Allow == [kind |-> "allow", words |-> {"allow"}]
Reject == [kind |-> "reject", words |-> {"reject"}]

MCOffers == {<<Allow, Reject>>, <<Reject, Allow>>, <<Allow>>, <<>>}

=============================================================================
