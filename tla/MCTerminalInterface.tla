------------------------ MODULE MCTerminalInterface ------------------------
(* A terminal interface, a phone and two dialogs of one session.           *)
EXTENDS TerminalInterface

MCExpected == [o \in Operations |-> 100]

MCView ==
  <<now, events, queue, open, commands, shell, past, inbox, channel, view,
    injected>>

=============================================================================
