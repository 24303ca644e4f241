---------------------------- MODULE MCLogViewer ----------------------------
(* One agent, whose ring of three lines wraps, and a phone that reads it.  *)
EXTENDS LogViewer
=============================================================================
