-------------------------- MODULE ScreenDetection --------------------------
(***************************************************************************)
(* How the adapter for Antigravity reads a screen: which dialog, if any,   *)
(* the lines of a terminal show.  A line is a record of what the parser    *)
(* tells apart: its kind, the cursor mark in front of it, its number and   *)
(* check box, the words it carries.  A screen is a sequence of lines, top  *)
(* to bottom, together with the line of a visible terminal cursor.         *)
(***************************************************************************)
EXTENDS Integers, Sequences, FiniteSets, SequencesExt

CONSTANTS
  Yes, No,        \* labels of rows that begin with "Yes," and with "No,"
  Review,         \* those that begin with "Review in"
  FileWords,      \* those that speak of a file, a change, an edit
  AltScreen,      \* does the agent draw on the alternate screen?
  None            \* no value

(* The row that opens the text entry, and the mark of a row that was taken.*)
WriteIn == "Write-in..."
Answered == "answered"

LineKinds ==
  {"blank", "text", "ask", "thought", "tool", "prompt", "rule", "chat",
   "spinner", "status", "header", "option", "single", "multi", "entry",
   "answer", "choice", "footer", "permission", "command", "bash", "file",
   "path", "trust", "workspace", "fatal"}

Line(kind, label) ==
  [kind |-> kind, cursor |-> FALSE, num |-> 0, box |-> "none", label |-> label]

Option(num, cursor, box, label) ==
  [kind |-> "option", cursor |-> cursor, num |-> num, box |-> box,
   label |-> label]

Choice(cursor, label) ==
  [kind |-> "choice", cursor |-> cursor, num |-> 0, box |-> "none",
   label |-> label]

IsBlank(line) == line.kind = "blank"
IsMenuRow(line) == line.kind = "option"
IsProgress(line) == line.kind = "spinner"
IsLegend(line) == line.kind \in {"single", "multi"}

Indices(lines, Test(_)) == {i \in DOMAIN lines : Test(lines[i])}

(* The lowest and the topmost of some lines, 0 if there are none.          *)
Lowest(S) == IF S = {} THEN 0 ELSE CHOOSE i \in S : \A j \in S : j <= i
Topmost(S) == IF S = {} THEN 0 ELSE CHOOSE i \in S : \A j \in S : i <= j

Between(S, a, b) == {i \in S : a < i /\ i < b}

(* The last `n` lines that are not blank.                                  *)
Bottom(lines, n) ==
  LET shown == Indices(lines, LAMBDA l : ~IsBlank(l))
  IN  {i \in shown : Cardinality({j \in shown : j > i}) < n}

-----------------------------------------------------------------------------
(* Questions: a numbered menu above a legend, under a form header.         *)

NoBlock == [first |-> 0, rows |-> <<>>]

CollectMenuBlock_AnyNumber(lines, legend) ==  \* variant: rows however numbered
  LET shown == Indices(lines, LAMBDA l : ~IsBlank(l))
      low == Lowest(Between(shown, 0, legend))
      other == Indices(lines, LAMBDA l : ~IsMenuRow(l))
      first == Lowest(Between(other, 0, low)) + 1
      rows == SubSeq(lines, first, low)
  IN  IF /\ low > 0 /\ legend - low <= 3 /\ Len(rows) >= 2
         /\ \E i \in DOMAIN rows : rows[i].cursor
         /\ \A i \in DOMAIN rows : rows[i].label # Answered
      THEN [first |-> first, rows |-> rows]
      ELSE NoBlock

(* The rows that end at the legend, at most two blanks above it, and count *)
(* n, n-1, ..., 1.  One of them has the cursor, none is marked as taken.   *)
CollectMenuBlock(lines, legend) ==
  LET shown == Indices(lines, LAMBDA l : ~IsBlank(l))
      low == Lowest(Between(shown, 0, legend))
      n == IF low = 0 THEN 0 ELSE lines[low].num
      first == low - n + 1
      rows == SubSeq(lines, first, low)
  IN  IF /\ low > 0 /\ legend - low <= 3
         /\ n >= 2 /\ first >= 1
         /\ \A i \in first..low :
              IsMenuRow(lines[i]) /\ lines[i].num = i - first + 1
         /\ Cardinality({i \in DOMAIN rows : rows[i].cursor}) = 1
         /\ \A i \in DOMAIN rows : rows[i].label # Answered
      THEN [first |-> first, rows |-> rows]
      ELSE NoBlock

(* The header above the first row.  Menu rows between are residue; up to   *)
(* two blank lines, and up to two lines the question continues on.         *)
FindFormHeader(lines, first) ==
  LET headers == Indices(lines, LAMBDA l : l.kind = "header")
      h == Lowest(Between(headers, 0, first))
      blanks == Indices(lines, IsBlank)
      rest == Indices(lines, LAMBDA l : ~IsBlank(l) /\ ~IsMenuRow(l))
      more == Between(rest, h, first)
  IN  IF h > 0 /\ Cardinality(Between(blanks, h, first)) <= 2
               /\ Cardinality(more) <= 2
      THEN <<lines[h].label>>
             \o [i \in 1..Cardinality(more) |->
                   lines[SetToSortSeq(more, <)[i]].label]
      ELSE <<>>

(* A dialog is live if the status bar is what comes below its footer.      *)
FooterIsBottomLiveRegion(lines, footer) ==
  LET below == {i \in DOMAIN lines : i > footer /\ ~IsBlank(lines[i])}
  IN  /\ below # {}
      /\ lines[Topmost(below)].kind = "status"
      /\ \A i \in below : ~IsProgress(lines[i])

NoState == [is |-> None]

(* The controls under a question, and where its cursor is.                 *)
BuildMenuDetails(legend, rows) ==
  LET n == Len(rows)
      writeIn == IF rows[n].label = WriteIn /\ rows[n].box = "none"
                 THEN n ELSE 0
      boxed == {i \in 1..n : rows[i].box # "none"}
      details ==
        [type |-> legend, options |-> [i \in 1..n |-> rows[i].label],
         cursor |-> CHOOSE i \in 1..n : rows[i].cursor, writeIn |-> writeIn,
         checked |-> {i \in 1..n : rows[i].box = "on"}]
  IN  IF \/ legend = "single" /\ boxed # {}
         \/ legend = "multi" /\ (1..n) \ boxed \notin {{}, {writeIn}}
      THEN NoState ELSE [is |-> "details"] @@ details

Question(question, details) ==
  [is |-> "UserQuestion", question |-> question, type |-> details.type,
   options |-> details.options, cursor |-> details.cursor,
   writeIn |-> details.writeIn, checked |-> details.checked, text |-> <<>>]

MenuDialog(lines, legend) ==
  LET block == CollectMenuBlock(lines, legend)
      question == FindFormHeader(lines, block.first)
      details == BuildMenuDetails(lines[legend].kind, block.rows)
  IN  IF block = NoBlock \/ question = <<>> \/ details.is = None
      THEN NoState ELSE Question(question, details)

(* A text entry: the label of the answer within six lines above the legend,*)
(* at most two lines of text between, and over it the menu whose cursor    *)
(* rests on the write-in row.                                              *)
WriteInDialog(lines, legend) ==
  LET label == Lowest({i \in Indices(lines, LAMBDA l : l.kind = "answer") :
                       legend - 6 <= i /\ i < legend})
      typed == Between(Indices(lines, LAMBDA l : ~IsBlank(l)), label, legend)
      block == CollectMenuBlock(lines, label)
      question == FindFormHeader(lines, block.first)
  IN  IF \/ label = 0
         \/ Cardinality(typed) > 2
         \/ \E i \in typed : IsLegend(lines[i])
         \/ block = NoBlock
         \/ \E i \in DOMAIN block.rows :
              LET row == block.rows[i]
              IN  row.cursor /\ (row.label # WriteIn \/ row.box # "none")
         \/ question = <<>>
      THEN NoState
      ELSE [Question(question,
                     [type |-> "entry", options |-> <<>>, cursor |-> 0,
                      writeIn |-> 0, checked |-> {}])
              EXCEPT !.text = [i \in 1..Cardinality(typed) |->
                                 lines[SetToSortSeq(typed, <)[i]].label]]

(* The lowest footer on the screen decides.                                *)
ExtractQuestionDialog(lines) ==
  LET footer == Lowest(Indices(lines, LAMBDA l :
                               l.kind \in {"entry", "single", "multi"}))
  IN  IF footer = 0 \/ ~FooterIsBottomLiveRegion(lines, footer) THEN NoState
      ELSE IF lines[footer].kind = "entry" THEN WriteInDialog(lines, footer)
      ELSE MenuDialog(lines, footer)

-----------------------------------------------------------------------------
(* Approval menus: the rows that begin with "Yes," or "No,", wherever they *)
(* are.  A numbered row without a box is read as such a row too.           *)

IsRow(line, labels) ==
  line.kind \in {"choice", "option"} /\ line.box = "none" /\ line.label \in labels

IsAnswerRow(line) == IsRow(line, Yes \cup No)

Menu(is, subject, options, cursor) ==
  [is |-> is, question |-> <<subject>>, type |-> "menu", options |-> options,
   cursor |-> cursor, writeIn |-> 0, checked |-> {}, text |-> <<>>]

(* The command: the line under a request for permission, or one that names *)
(* it, whichever comes last; failing these, the last tool call.            *)
CommandOf(lines) ==
  LET shown == Indices(lines, LAMBDA l : ~IsBlank(l))
      named == {i \in shown :
                  \/ lines[i].kind = "command"
                  \/ LET above == Lowest(Between(shown, 0, i))
                     IN  above > 0 /\ lines[above].kind = "permission"}
      tools == Indices(lines, LAMBDA l : l.kind = "bash")
  IN  IF named # {} THEN lines[Lowest(named)].label
      ELSE IF tools # {} THEN lines[Lowest(tools)].label
      ELSE "run_command"

ExtractCommandDialog(lines) ==
  LET rows == SelectSeq(lines, IsAnswerRow)
      focused == {i \in DOMAIN rows : rows[i].cursor}
      labels == {rows[i].label : i \in DOMAIN rows}
  IN  IF /\ Len(rows) >= 2 /\ labels \cap Yes # {} /\ labels \cap No # {}
         /\ focused # {} \/ AltScreen
      THEN Menu("CommandConfirmation", CommandOf(lines),
                [i \in DOMAIN rows |-> rows[i].label],
                IF focused = {} THEN 1 ELSE Lowest(focused))
      ELSE NoState

(* One line of the search for a file dialog: from the words that announce  *)
(* it until the path is found every line is looked at for the path only.   *)
FileScan(scan, line) ==
  CASE line.kind = "file" -> [scan EXCEPT !.announced = TRUE]
    [] line.kind # "file" /\ scan.announced /\ scan.path = None ->
         IF line.kind = "path" THEN [scan EXCEPT !.path = line.label] ELSE scan
    [] line.kind # "file" /\ ~(scan.announced /\ scan.path = None)
         /\ IsRow(line, Yes \cup No \cup Review) ->
         [scan EXCEPT !.rows = Append(@, line)]
    [] OTHER -> scan

ExtractFileEditDialog(lines) ==
  LET scan == FoldLeft(FileScan,
                       [announced |-> FALSE, path |-> None, rows |-> <<>>],
                       lines)
      focused == {i \in DOMAIN scan.rows : scan.rows[i].cursor}
      labels == {scan.rows[i].label : i \in DOMAIN scan.rows}
  IN  IF /\ Len(scan.rows) >= 2 /\ labels \cap Yes # {} /\ labels \cap No # {}
         /\ scan.announced \/ labels \cap FileWords # {}
         /\ focused # {} \/ AltScreen
      THEN Menu("FileEditConfirmation",
                IF scan.path = None THEN "file" ELSE scan.path,
                [i \in DOMAIN scan.rows |-> scan.rows[i].label],
                IF focused = {} THEN 1 ELSE Lowest(focused))
      ELSE NoState

(* The trust dialog: the first question of trust and the rows below it.    *)
ExtractWorkspaceTrust(lines) ==
  LET q == Topmost(Indices(lines, LAMBDA l : l.kind = "trust"))
      IsMarked(l) == l.cursor \/ l.kind \in {"chat", "prompt"}
      starts == Indices(lines, LAMBDA l : IsMarked(l) \/ IsAnswerRow(l))
      start == Topmost({i \in starts : i > q})
      more == Indices(lines, LAMBDA l :
                l.kind \in {"choice", "option"} \/ IsMarked(l))
      stop == Topmost({i \in DOMAIN lines : i > start /\ i \notin more})
      over == Topmost({i \in Indices(lines, LAMBDA l : l.kind = "footer") :
                       i > q})
      rows == SubSeq(lines, start, IF stop = 0 THEN Len(lines) ELSE stop - 1)
      focused == {i \in DOMAIN rows : rows[i].cursor}
      w == Topmost(Indices(lines, LAMBDA l : l.kind = "workspace"))
      named == {i \in DOMAIN lines : w > 0 /\ i > w /\ ~IsBlank(lines[i])}
  IN  IF \/ q = 0 \/ start = 0 \/ (over # 0 /\ over < start) \/ Len(rows) < 2
      THEN NoState
      ELSE Menu("WorkspaceTrust",
                IF named = {} THEN "current directory"
                ELSE lines[Topmost(named)].label,
                [i \in DOMAIN rows |-> rows[i].label],
                IF focused = {} THEN 1 ELSE Lowest(focused))

-----------------------------------------------------------------------------
(* Without a dialog: an error, work in progress, the chat input, or none.  *)

(* The agent's last words after the user's last prompt, above the input box*)
(* that the last two rules frame.  Thoughts and tools start them anew.     *)
ExtractAgentReply(lines) ==
  LET rules == Indices(lines, LAMBDA l : l.kind = "rule")
      below == Lowest(rules)
      above == Lowest(Between(rules, 0, below))
      end == IF above = 0 THEN below ELSE above
      user == Lowest(Between(Indices(lines, LAMBDA l : l.kind = "prompt"), 0, end))
      other == Indices(lines, LAMBDA l : l.kind \in {"thought", "tool", "bash"})
      from == Lowest(Between(other, user, end) \cup {user})
      said == Between(Indices(lines, LAMBDA l : l.kind \in {"text", "ask"}),
                      from, end)
  IN  IF user = 0 \/ said = {} THEN None ELSE lines[Lowest(said)]

(* A header or footer of a menu counts below the last rule; without a rule,*)
(* among the last six lines.                                               *)
MenuRemains(lines) ==
  LET rule == Lowest(Indices(lines, LAMBDA l : l.kind = "rule"))
      marks == Indices(lines, LAMBDA l :
                 l.kind \in {"footer", "permission", "file"})
  IN  \E i \in marks : IF rule > 0 THEN i > rule ELSE i \in Bottom(lines, 6)

IsIdle(lines, cursorLine) ==
  /\ ~MenuRemains(lines)
  /\ \/ \E i \in Bottom(lines, 4) : lines[i].kind \in {"chat", "prompt"}
     \/ cursorLine > 1 /\ lines[cursorLine].kind \in {"chat", "prompt", "blank"}

State(is) == [is |-> is, question |-> <<>>]

DetectState(lines, cursorLine) ==
  LET trust == ExtractWorkspaceTrust(lines)
      file == ExtractFileEditDialog(lines)
      command == ExtractCommandDialog(lines)
      question == ExtractQuestionDialog(lines)
      reply == ExtractAgentReply(lines)
  IN  CASE trust.is # None -> trust
        [] trust.is = None /\ file.is # None -> file
        [] trust.is = None /\ file.is = None /\ command.is # None -> command
        [] OTHER ->
             IF question.is # None THEN question
             ELSE IF \E l \in Range(lines) : l.kind = "fatal"
             THEN State("FatalError")
             ELSE IF \E i \in Bottom(lines, 6) : IsProgress(lines[i])
             THEN State("Working")
             ELSE IF ~IsIdle(lines, cursorLine) THEN State("Initializing")
             ELSE IF reply # None /\ reply.kind = "ask"
             THEN [is |-> "AwaitingReply", question |-> <<reply.label>>]
             ELSE State("IdlePrompt")

DialogStates ==
  {"WorkspaceTrust", "FileEditConfirmation", "CommandConfirmation",
   "UserQuestion"}

(* The same request, wherever its cursor, its boxes and its text are now.  *)
SameRequest(a, b) ==
  /\ a.is = b.is /\ a.question = b.question
  /\ a.is \in DialogStates =>
       /\ a.type = b.type /\ a.options = b.options /\ a.writeIn = b.writeIn
=============================================================================
