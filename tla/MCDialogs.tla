----------------------------- MODULE MCDialogs -----------------------------
(* A question with a write-in row, one with boxes, and a menu to approve.  *)
EXTENDS Dialogs

Control(type, subject, labels) ==
  [type |-> type, subject |-> subject, labels |-> labels]

MCQuestions ==
  {Control("single", "q1", <<"a", "b", WriteIn>>),
   Control("multi", "q2", <<"a", "b", "c">>)}

MCMenus ==
  {Control("command", "ls", <<"yes", "yes2", "no">>),
   Control("file", "f", <<"yes", "no">>),
   Control("trust", "/w", <<"yes", "no">>)}

MCControls == MCQuestions \cup MCMenus

MCResponses ==
  {Approve, Deny, SelectOption("a"), SelectOption("b"), SelectOption("no"),
   SelectMultiple({"a", "c"}), TextInput("t")}
=============================================================================
