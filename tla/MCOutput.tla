------------------------------ MODULE MCOutput ------------------------------
(* What becomes of what an agent writes: of its bytes, in the emulator, and*)
(* of its lines, in the report on a turn.  Neither module reads a variable *)
(* of the other, so a behaviour follows one of the two from where both     *)
(* start; what the other would do beside it makes no difference to it.     *)
(*                                                                         *)
(* Bytes: text, every control sequence once, and reads that cut one in two.*)
(* Lines: every kind, in any order.                                        *)
EXTENDS Screen, Transcript

CSI(rest) == <<"esc", "[">> \o rest

Texts == {<<"a">>, <<"a", "b">>, <<"a", "a", "b">>, <<"lf">>, <<"b", "cr", "lf">>,
          <<"lead">>, <<"continuation", "cr">>}
Sequences_ ==
  {CSI(<<c>>) : c \in {"H", "K", "X", "P", "@", "L", "M", "A", "D", "T"}}
    \cup {CSI(<<"n2", c>>) : c \in {"J", "S", "B", "C", "E", "F", "G", "d"}}
    \cup {CSI(<<"n3", "J">>), CSI(<<"n65535", "B">>), CSI(<<"n2", ";", "n2", "H">>),
           CSI(<<"n7", ";", "n31", "m">>) \o <<"b">>,
           CSI(<<"n38", ";", "n5", ";", "n7", "m">>) \o <<"b">>, CSI(<<"$", "n2", "J">>),
           CSI(<<"?", "n1049", "h">>), CSI(<<"?", "n1049", "l">>),
           CSI(<<"?", "n25", "l">>)}
    \cup {<<"esc", "n7">>, <<"esc", "n8">>, <<"esc", "M">>, <<"bs">>, <<"tab">>,
          <<"esc", "[">>, <<"n1", "J">>, <<"esc", "]", "link", "url", "bel">>,
          <<"esc", "]", "mark", "esc", "\\">>}

MCReads == Texts \cup Sequences_
FirstSize == <<2, 2>>
MCSizes == {FirstSize, <<3, 1>>, <<1, 3>>}

OutputInit == Init /\ TranscriptInit

(* The report does not depend on the window: one size is enough for it.    *)
OutputNext ==
  \/ turn = 0 /\ Next /\ UNCHANGED turnVars
  \/ reads = 0 /\ <<screen.cols, screen.rows>> = FirstSize
       /\ TranscriptNext /\ UNCHANGED vars

OutputSpec == OutputInit /\ [][OutputNext]_<<vars, turnVars>>
=============================================================================
