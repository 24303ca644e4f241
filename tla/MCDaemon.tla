------------------------------ MODULE MCDaemon ------------------------------
(* The daemon with channels of one place each, so that they fill.          *)
EXTENDS Daemon

MCExpected == [o \in Operations |-> 300]

(* Neither the last messages sent nor the last keys typed influence what   *)
(* follows.                                                                *)
MCView ==
  <<now, events, queue, open, commands,
    [adapter EXCEPT !.out = <<>>, !.typed = None], terminal, unread, alive,
    shows, upstream, loop, held, session, asked, origin, answers>>

=============================================================================
