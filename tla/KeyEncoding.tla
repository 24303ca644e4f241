---------------------------- MODULE KeyEncoding ----------------------------
(***************************************************************************)
(* How a decision becomes keystrokes: arrow keys from where the cursor of  *)
(* the dialog is to where it should be, a space where a box has to change, *)
(* text, and the key that ends it.  Text stands for itself as one key, and *)
(* so does a character of it; what must not be typed is a set of its own.  *)
(***************************************************************************)
EXTENDS ScreenDetection

CONSTANTS
  Texts,        \* texts that may be typed
  BadTexts      \* empty, too long, or with control characters

(* A response of a client, as the protocol has it.                         *)
Approve == [type |-> "Approve"]
Deny == [type |-> "Deny"]
SelectOption(option) == [type |-> "SelectOption", option |-> option]
SelectMultiple(options) == [type |-> "SelectMultiple", options |-> options]
TextInput(text) == [type |-> "TextInput", text |-> text]

(* What comes of it: keys that answer, keys that open the text entry and   *)
(* the text to be typed there, or a refusal.                               *)
Submit(keys) == [result |-> "Submit", keys |-> keys, pending |-> <<>>]
OpenWriteIn(keys, text) ==
  [result |-> "OpenWriteIn", keys |-> keys, pending |-> <<text>>]
Refused(error) == [result |-> error, keys |-> <<>>, pending |-> <<>>]

Times(n, key) == [i \in 1..n |-> key]

Navigate(from, to) ==
  IF to > from THEN Times(to - from, "down") ELSE Times(from - to, "up")

NavigateAndSelect(from, to) == Append(Navigate(from, to), "enter")

IsTyped(text) == text \in Texts \ BadTexts

EncodeTextSubmission(text) == <<text, "enter">>

(* The entry is emptied first.  A line of it is one character here; lines  *)
(* are joined with a blank, so there is a key too many for each.           *)
Backspaces(text) ==
  Times(IF text = <<>> THEN 0 ELSE 2 * Len(text) - 1, "backspace")

-----------------------------------------------------------------------------
(* The row an answer means, 0 if there is none: the first with its label,  *)
(* the write-in row apart.                                                 *)
ResolveOptionIndex(label, d) ==
  Topmost({i \in DOMAIN d.options : i # d.writeIn /\ d.options[i] = label})

EncodeMultiChoiceSelection_FromTop(wanted, d) ==  \* variant: from the cursor
  LET targets == {ResolveOptionIndex(l, d) : l \in wanted}
      differ == {i \in DOMAIN d.options : (i \in targets) # (i \in d.checked)}
      order == SetToSortSeq(differ, <)
  IN  IF wanted = {} \/ 0 \in targets THEN Refused("InvalidResponse")
      ELSE Submit(Append(
             FlattenSeq([k \in DOMAIN order |->
                           Append(Navigate(d.cursor, order[k]), "space")]),
             "enter"))

(* Every box that is not as wanted is visited, from the top, and toggled.  *)
EncodeMultiChoiceSelection(wanted, d) ==
  LET targets == {ResolveOptionIndex(l, d) : l \in wanted}
      differ == {i \in DOMAIN d.options : (i \in targets) # (i \in d.checked)}
      order == SetToSortSeq(differ, <)
      at(k) == IF k = 0 THEN d.cursor ELSE order[k]
  IN  IF wanted = {} \/ 0 \in targets THEN Refused("InvalidResponse")
      ELSE Submit(Append(
             FlattenSeq([k \in DOMAIN order |->
                           Append(Navigate(at(k - 1), order[k]), "space")]),
             "enter"))

(* Approving takes what is selected, but not the row that opens the entry; *)
(* that is asked of a single choice only.                                  *)
EncodeQuestionResponse(r, d) ==
  CASE r.type = "Deny" -> Submit(<<"esc">>)
    [] r.type = "Approve" ->
         IF d.type = "single" /\ d.cursor = d.writeIn
         THEN Refused("InvalidResponse") ELSE Submit(<<"enter">>)
    [] r.type = "SelectOption" ->
         LET target == ResolveOptionIndex(r.option, d)
         IN  CASE d.type = "single" ->
                    IF target = 0 THEN Refused("InvalidResponse")
                    ELSE Submit(NavigateAndSelect(d.cursor, target))
               [] d.type = "multi" -> EncodeMultiChoiceSelection({r.option}, d)
               [] OTHER -> Refused("InvalidResponse")
    [] r.type = "SelectMultiple" ->
         IF d.type = "multi" THEN EncodeMultiChoiceSelection(r.options, d)
         ELSE Refused("InvalidResponse")
    [] r.type = "TextInput" ->
         CASE ~IsTyped(r.text) -> Refused("InvalidResponse")
           [] IsTyped(r.text) /\ d.type = "entry" ->
                Submit(Backspaces(d.text) \o EncodeTextSubmission(r.text))
           [] IsTyped(r.text) /\ d.type # "entry" ->
                IF d.writeIn = 0 THEN Refused("InvalidResponse")
                ELSE OpenWriteIn(NavigateAndSelect(d.cursor, d.writeIn), r.text)

(* In an approval menu a decision goes to the first row that begins with   *)
(* "Yes" or "No", an option to the row with exactly its label.             *)
EncodeMenuChoice(r, d) ==
  LET rows(S) == {i \in DOMAIN d.options : d.options[i] \in S}
      target == CASE r.type = "Approve" -> Topmost(rows(Yes))
                  [] r.type = "Deny" -> Topmost(rows(No))
                  [] r.type = "SelectOption" -> Topmost(rows({r.option}))
                  [] r.type = "SelectMultiple" /\ Cardinality(r.options) = 1 ->
                       Topmost(rows(r.options))
                  [] OTHER -> 0
  IN  IF d.cursor > Len(d.options) THEN Refused("StateMismatch")
      ELSE IF target = 0 THEN Refused("InvalidResponse")
      ELSE Submit(NavigateAndSelect(d.cursor, target))

EncodeReply(r) ==
  IF r.type \in {"TextInput", "SelectOption"}
  THEN LET text == IF r.type = "TextInput" THEN r.text ELSE r.option
       IN  IF IsTyped(text) THEN Submit(EncodeTextSubmission(text))
           ELSE Refused("InvalidResponse")
  ELSE Refused("InvalidResponse")

EncodeResponseForState(live, r) ==
  CASE live.is = "UserQuestion" -> EncodeQuestionResponse(r, live)
    [] live.is \in DialogStates \ {"UserQuestion"} -> EncodeMenuChoice(r, live)
    [] live.is = "AwaitingReply" -> EncodeReply(r)
    [] OTHER -> Refused("NotBlocked")
=============================================================================
