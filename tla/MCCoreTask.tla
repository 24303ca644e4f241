---------------------------- MODULE MCCoreTask -----------------------------
(* The core with its adapter channel, on an instance small enough to       *)
(* enumerate: thresholds are one and two clock steps for the operation in  *)
(* use, and the channel holds one decision so that it overflows.           *)
EXTENDS CoreTask

MCExpected == [o \in Operations |-> 300]

(* States that differ only in the last messages sent are the same state.   *)
MCView == <<now, events, queue, open, commands>>

=============================================================================
