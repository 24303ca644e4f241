------------------------ MODULE MCAntigravityAdapter ------------------------
(* The adapter against an agent that shows a bounded number of screens.    *)
EXTENDS AntigravityAdapter

(* The last events emitted and keys typed do not influence what follows.   *)
MCView ==
  <<[adapter EXCEPT !.out = <<>>, !.typed = None], terminal, unread, alive,
    shows>>

=============================================================================
