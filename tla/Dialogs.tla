------------------------------ MODULE Dialogs ------------------------------
(***************************************************************************)
(* The terminal interface of the agent against the adapter that reads and  *)
(* types it.  The interface prints its transcript and draws one live region*)
(* under it: the chat input, a spinner, a dialog, the entry of a text.  Its*)
(* redraws leave lines of old dialogs behind, and a person at the laptop   *)
(* moves the same cursor.  The interface is external: what it draws and how*)
(* it takes keys is what the parser and the encoder assume of it.          *)
(***************************************************************************)
EXTENDS KeyEncoding

CONSTANTS
  Controls,     \* the dialogs the agent shows in this model
  Residual,     \* types of dialogs whose lines redraws leave behind
  Prints,       \* kinds of lines the agent prints
  Responses,    \* what clients answer
  MaxPrints,    \* bound: printed lines
  MaxLeft,      \* bound: how often a redraw leaves lines behind
  MaxText       \* bound: texts typed into an entry by hand

(* A dialog: what it asks, the labels of its rows, and whether it is a     *)
(* question of a form ("single", "multi") or a menu that asks to approve.  *)
ControlTypes == {"single", "multi", "command", "file", "trust"}

ASSUME DialogsAssumption ==
  /\ \A c \in Controls :
       /\ c.type \in ControlTypes /\ Len(c.labels) >= 2
       /\ \A i \in DOMAIN c.labels :
            c.labels[i] = WriteIn => i = Len(c.labels)
       /\ c.type \in {"single", "multi"} =>
            Range(c.labels) \cap (Yes \cup No) = {}
       /\ c.type \notin {"single", "multi"} =>
            Range(c.labels) \cap Yes # {} /\ Range(c.labels) \cap No # {}
  /\ MaxPrints \in Nat /\ MaxLeft \in Nat /\ MaxText \in Nat

VARIABLES
  above,      \* the lines above the live region
  live,       \* the live region: shows, control, cursor, checked, text, stale
  left        \* how often lines were left behind (bounds the model)

vars == <<above, live, left>>

NoControl == [type |-> "none", subject |-> "", labels |-> <<>>]

Showing(shows, control) ==
  [shows |-> shows, control |-> control, cursor |-> 1, checked |-> {},
   text |-> <<>>, stale |-> <<>>]

Chat == Showing("chat", NoControl)

IsQuestion(control) == control.type \in {"single", "multi"}

-----------------------------------------------------------------------------
(* How the live region is drawn.                                           *)

(* The rows of a dialog: numbered, with boxes, in a question; the row that *)
(* was taken carries its mark for a moment.                                *)
Row(l, i) ==
  LET label == l.control.labels[i]
      box == IF l.control.type # "multi" \/ label = WriteIn THEN "none"
             ELSE IF i \in l.checked THEN "on" ELSE "off"
  IN  IF IsQuestion(l.control)
      THEN Option(i, i = l.cursor, box,
                  IF l.shows = "taken" /\ i = l.cursor THEN Answered ELSE label)
      ELSE Choice(i = l.cursor, label)

Rows(l) == [i \in DOMAIN l.control.labels |-> Row(l, i)]

Heading(control) ==
  CASE IsQuestion(control) -> <<Line("header", control.subject)>>
    [] control.type = "command" ->
         <<Line("permission", "Requesting permission for:"),
           Line("text", control.subject)>>
    [] control.type = "file" ->
         <<Line("file", "Create file"), Line("path", control.subject)>>
    [] control.type = "trust" ->
         <<Line("workspace", "Accessing workspace:"),
           Line("path", control.subject), Line("trust", control.subject)>>

Blank == Line("blank", "")
StatusBar == Line("status", "esc to cancel")

Draw(l) ==
  CASE l.shows = "chat" ->
         <<Line("rule", ""), Line("chat", ">"), Line("rule", ""),
           Line("text", "? for shortcuts")>>
    [] l.shows = "working" ->
         <<Line("spinner", "Generating..."), Line("rule", ""),
           Line("chat", ">"), Line("rule", ""), StatusBar>>
    [] l.shows \in {"control", "taken"} /\ IsQuestion(l.control) ->
         Heading(l.control) \o l.stale \o Rows(l)
           \o <<Blank, Line(l.control.type, ""), StatusBar>>
    [] l.shows \in {"control", "taken"} /\ ~IsQuestion(l.control) ->
         Heading(l.control) \o Rows(l) \o <<Line("footer", "")>>
    [] l.shows = "entry" ->
         Heading(l.control) \o l.stale \o Rows(l)
           \o <<Blank, Line("answer", "")>>
           \o [i \in DOMAIN l.text |-> Line("text", l.text[i])]
           \o <<Line("entry", ""), StatusBar>>

Screen == above \o Draw(live)

(* The terminal's own cursor is visible in the chat input only.            *)
CursorLine == IF live.shows = "chat" THEN Len(above) + 2 ELSE 0

Detected == DetectState(Screen, CursorLine)

-----------------------------------------------------------------------------
(* How the interface takes keys.  `took` is the last thing it accepted: a  *)
(* question then shows for a moment which row it was, a menu is gone.      *)

Nothing == [as |-> "nothing", what |-> {}]
Took(as, what) == [as |-> as, what |-> what]

Take(l, as, what) ==
  [live |-> IF IsQuestion(l.control) THEN [l EXCEPT !.shows = "taken"]
            ELSE Showing("working", NoControl),
   took |-> Took(as, what)]

PressEnter(l) ==
  LET label == l.control.labels[l.cursor]
  IN  CASE l.shows = "chat" ->
             [live |-> Showing("working", NoControl),
              took |-> Took("text", Range(l.text))]
        [] l.shows = "entry" -> Take(l, "text", Range(l.text))
        [] l.shows = "control" /\ label = WriteIn ->
             [live |-> [l EXCEPT !.shows = "entry"],
              took |-> Took("entry", {})]
        [] l.shows = "control" /\ label # WriteIn ->
             IF l.control.type = "multi"
             THEN Take(l, "rows", {l.control.labels[i] : i \in l.checked})
             ELSE Take(l, "rows", {label})

PressKey(s, key) ==
  LET l == s.live
      rows == Len(l.control.labels)
      box == l.control.type = "multi" /\ l.control.labels[l.cursor] # WriteIn
      Now(next) == [s EXCEPT !.live = next]
  IN  CASE l.shows \notin {"control", "entry", "chat"} -> s
        [] l.shows = "control" /\ key = "up" ->
             Now([l EXCEPT !.cursor = IF @ = 1 THEN 1 ELSE @ - 1])
        [] l.shows = "control" /\ key = "down" ->
             Now([l EXCEPT !.cursor = IF @ = rows THEN rows ELSE @ + 1])
        [] l.shows = "control" /\ key = "space" ->
             IF box THEN Now([l EXCEPT !.checked =
                                IF l.cursor \in @ THEN @ \ {l.cursor}
                                ELSE @ \cup {l.cursor}])
             ELSE s
        [] l.shows # "chat" /\ key = "esc" ->
             IF l.shows = "entry"
             THEN [live |-> [l EXCEPT !.shows = "control", !.text = <<>>],
                   took |-> Took("back", {})]
             ELSE Take(l, "skip", {})
        [] key = "enter" -> PressEnter(l)
        [] l.shows = "entry" /\ key = "backspace" ->
             Now([l EXCEPT !.text = IF @ = <<>> THEN @ ELSE Front(@)])
        [] l.shows \in {"entry", "chat"} /\ key \in Texts ->
             Now([l EXCEPT !.text = Append(@, key)])
        [] OTHER -> s

Type(l, keys) == FoldLeft(PressKey, [live |-> l, took |-> Nothing], keys)

-----------------------------------------------------------------------------
Init == above = <<>> /\ live = Chat /\ left = 0

(* The agent prints a line while no dialog is open.                        *)
Say(kind) ==
  /\ live.shows \in {"chat", "working"}
  /\ Len(above) < MaxPrints
  /\ above' = Append(above, Line(kind, kind))
  /\ UNCHANGED <<live, left>>

(* The next thing in the live region.  The redraw clears what was there, or*)
(* leaves some of it behind, though never the status bar.                  *)
Redraw(next) ==
  /\ live' = next
  /\ \/ UNCHANGED <<above, left>>
     \/ /\ live.shows \in {"control", "taken", "entry"}
        /\ live.control.type \in Residual
        /\ left < MaxLeft
        /\ left' = left + 1
        /\ \E i, j \in 1..Len(Draw(live)) - 1 :
             i <= j /\ above' = above \o SubSeq(Draw(live), i, j)

Ask(control) ==
  live.shows \in {"chat", "working"} /\ Redraw(Showing("control", control))

(* The agent goes on after an answer, or withdraws the dialog.             *)
GoOn ==
  /\ live.shows # "chat"
  /\ \/ Redraw(Chat)
     \/ live.shows # "working" /\ Redraw(Showing("working", NoControl))

(* A person at the laptop uses the dialog.  The rows may be drawn anew     *)
(* lower down, and the first of the old ones stay above them.              *)
Hand(key) ==
  /\ live.shows \in {"control", "entry"}
  /\ key \in Texts => Len(live.text) < MaxText
  /\ UNCHANGED above
  /\ LET now == Type(live, <<key>>).live
     IN  \/ live' = now /\ UNCHANGED left
        \/ /\ now.shows = "control" /\ live.control.type \in Residual
           /\ left < MaxLeft
           /\ left' = left + 1
           /\ \E k \in DOMAIN Rows(live) :
                live' = [now EXCEPT !.stale = SubSeq(Rows(live), 1, k)]

(* A client's answer is typed at once, from the screen as it is.           *)
Respond ==
  LET seen == Detected
      answers == {EncodeResponseForState(seen, r) : r \in Responses}
  IN  \E encoded \in answers :
        /\ encoded.result \in {"Submit", "OpenWriteIn"}
        /\ live' = Type(live, encoded.keys).live
        /\ UNCHANGED <<above, left>>

Next ==
  \/ \E kind \in Prints : Say(kind)
  \/ \E control \in Controls : Ask(control)
  \/ GoOn
  \/ \E key \in {"up", "down", "space", "enter", "esc", "backspace"} \cup Texts :
       Hand(key)
  \/ Respond

Spec == Init /\ [][Next]_vars

-----------------------------------------------------------------------------
(* What the parser should make of the live region.                         *)
Is(type) ==
  CASE type \in {"single", "multi"} -> "UserQuestion"
    [] type = "command" -> "CommandConfirmation"
    [] type = "file" -> "FileEditConfirmation"
    [] type = "trust" -> "WorkspaceTrust"

Shown ==
  LET c == live.control
      n == Len(c.labels)
      entry == live.shows = "entry"
  IN  [is       |-> Is(c.type),
       question |-> <<c.subject>>,
       type     |-> IF entry THEN "entry"
                    ELSE IF IsQuestion(c) THEN c.type ELSE "menu",
       options  |-> IF entry THEN <<>> ELSE c.labels,
       cursor   |-> IF entry THEN 0 ELSE live.cursor,
       writeIn  |-> IF ~entry /\ c.labels[n] = WriteIn THEN n ELSE 0,
       checked  |-> IF entry THEN {} ELSE live.checked,
       text     |-> live.text]

(* A dialog is seen exactly while it is open, with its question, its rows, *)
(* its cursor and its boxes as they are, whatever the transcript and the   *)
(* residue of earlier dialogs above it look like.  (An entry with more than*)
(* two lines of text is not recognised.)                                   *)
AsksWhatIsShown ==
  LET seen == Detected
  IN  IF live.shows \in {"control", "entry"} /\ Len(live.text) <= 2
      THEN seen = Shown ELSE seen.is \notin DialogStates

(* What a response should come to in the dialog that is open.              *)
Meant(r) ==
  LET c == live.control
      rows(S) == Took("rows", S)
  IN  CASE r.type = "SelectOption" -> {rows({r.option})}
        [] r.type = "SelectMultiple" -> {rows(r.options)}
        [] r.type = "TextInput" ->
             {Took(IF live.shows = "entry" THEN "text" ELSE "entry",
                   IF live.shows = "entry" THEN {r.text} ELSE {})}
        [] r.type = "Approve" ->
             CASE live.shows = "entry" -> {Took("text", Range(live.text))}
               [] live.shows = "control" /\ c.type = "multi" ->
                    {rows({c.labels[i] : i \in live.checked})}
               [] live.shows = "control" /\ c.type = "single" ->
                    {rows({c.labels[live.cursor]})}
               [] OTHER -> {rows({l}) : l \in Yes}
        [] r.type = "Deny" ->
             CASE live.shows = "entry" -> {Took("back", {})}
               [] live.shows = "control" /\ IsQuestion(c) -> {Took("skip", {})}
               [] OTHER -> {rows({l}) : l \in No}

TakesEffect(seen, r) ==
  LET encoded == EncodeResponseForState(seen, r)
  IN  encoded.result \in {"Submit", "OpenWriteIn"}
        => Type(live, encoded.keys).took \in Meant(r)

(* Does the cursor rest on the row that opens the text entry?              *)
OnWriteIn ==
  live.shows = "control" /\ live.control.labels[live.cursor] = WriteIn

(* What is typed for a response comes to what it says, wherever a person   *)
(* has left the cursor, the boxes and the text, if the boxes to be changed *)
(* lead the cursor away from the write-in row of a multiple choice.        *)
AnswersTakeEffect ==
  live.shows \in {"control", "entry"} =>
    LET seen == Detected
        excepted == IF OnWriteIn /\ live.control.type = "multi"
                    THEN {"Approve", "SelectOption", "SelectMultiple"} ELSE {}
    IN  \A r \in Responses : r.type \notin excepted => TakesEffect(seen, r)

=============================================================================
