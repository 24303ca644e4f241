------------------------------- MODULE Screen -------------------------------
(***************************************************************************)
(* The terminal an agent writes to: the bytes read from its pseudo-terminal*)
(* are parsed, one by one, as text and control sequences, and change a grid*)
(* of cells, the cursor and what has scrolled off.  Every question and     *)
(* every result the adapter reports is read off this grid.                 *)
(*                                                                         *)
(* A byte is its class: a character, a control character, a part of a      *)
(* control sequence; the digits of one number are one natural number.  Of  *)
(* the attributes of a cell only the ones the detector reads are kept,     *)
(* reverse video and foreground.  Rows and columns count from 1.           *)
(***************************************************************************)
EXTENDS Integers, Sequences, FiniteSets, SequencesExt, FiniteSetsExt

CONSTANTS
  Reads,          \* what one read of the pseudo-terminal may bring
  Sizes,          \* sizes of the window, <<columns, rows>>
  ScrollbackMax,  \* lines kept of what scrolled off
  OscMax,         \* length kept of an operating system command
  MaxReads        \* bound: reads and changes of size

U16 == 65536

ASSUME ScreenAssumption ==
  /\ Sizes \subseteq (Nat \ {0}) \X (Nat \ {0})
  /\ {ScrollbackMax, OscMax} \subseteq Nat \ {0} /\ MaxReads \in Nat

VARIABLES
  screen,   \* the emulator
  paper,    \* what a printer without end would hold of a plain text
  reads     \* reads and changes of size so far

vars == <<screen, paper, reads>>

-----------------------------------------------------------------------------
(* Cells and grids.                                                        *)

NoAttrs == [reverse |-> FALSE, fg |-> "default"]
Cell(ch, attrs) == [ch |-> ch, attrs |-> attrs]
Default == Cell(" ", NoAttrs)

BlankRow(cols) == [c \in 1..cols |-> Default]
BlankGrid(cols, rows) == [r \in 1..rows |-> BlankRow(cols)]

New(cols, rows) ==
  [cols |-> cols, rows |-> rows, row |-> 1, col |-> 1, saved |-> <<1, 1>>,
   in_alt |-> FALSE, modes |-> {"visible"},
   main |-> BlankGrid(cols, rows), alt |-> BlankGrid(cols, rows),
   scrollback |-> <<>>, attrs |-> NoAttrs, pending_wrap |-> FALSE,
   parser |-> "ground", params |-> <<>>, param |-> -1,
   private |-> FALSE, intermediate |-> FALSE,
   utf8 |-> 0, osc |-> <<>>, url |-> "", mark |-> 0]

Grid(s) == IF s.in_alt THEN s.alt ELSE s.main
WithGrid(s, grid) ==
  IF s.in_alt THEN [s EXCEPT !.alt = grid] ELSE [s EXCEPT !.main = grid]

(* The text of a row, without the blanks after it.                         *)
RowText(row) ==
  LET written == {c \in DOMAIN row : row[c].ch # " "}
  IN  IF written = {} THEN <<>>
      ELSE [c \in 1..Max(written) |-> row[c].ch]

At(s, row, col) ==
  [s EXCEPT !.row = Min({row, s.rows}), !.col = Min({col, s.cols}),
            !.pending_wrap = FALSE]

(* Cells for which Erased(r, c) holds are blank.                           *)
Erase(s, Erased(_, _)) ==
  WithGrid(s, [r \in 1..s.rows |-> [c \in 1..s.cols |->
                 IF Erased(r, c) THEN Default ELSE Grid(s)[r][c]]])

-----------------------------------------------------------------------------
(* Text.                                                                   *)

(* Blank rows scroll off singly, and only after a row that is not blank.   *)
PushScrollback(s) ==
  LET text == RowText(s.main[1])
      kept == s.scrollback # <<>> /\ Last(s.scrollback) # <<>>
      all == Append(s.scrollback, text)
  IN  IF text = <<>> /\ ~kept THEN s
      ELSE [s EXCEPT !.scrollback =
              IF Len(all) > ScrollbackMax THEN Tail(all) ELSE all]

ScrollUp(s) ==
  LET t == IF s.in_alt THEN s ELSE PushScrollback(s)
  IN  WithGrid(t, Append(Tail(Grid(t)), BlankRow(s.cols)))

ScrollDown(s) ==
  WithGrid(s, <<BlankRow(s.cols)>> \o Front(Grid(s)))

LineFeed(s) ==
  IF s.row >= s.rows THEN ScrollUp(s) ELSE [s EXCEPT !.row = @ + 1]

PutChar_WrapAtOnce(s, ch) ==    \* variant: the last column wraps at once
  LET u == WithGrid(s, [Grid(s) EXCEPT ![s.row][s.col] = Cell(ch, s.attrs)])
  IN  IF u.col >= u.cols THEN LineFeed([u EXCEPT !.col = 1])
      ELSE [u EXCEPT !.col = @ + 1]

(* A character in the last column leaves the cursor there; the next one    *)
(* wraps first.                                                            *)
PutChar(s, ch) ==
  LET t == IF s.pending_wrap
           THEN LineFeed([s EXCEPT !.pending_wrap = FALSE, !.col = 1]) ELSE s
      u == WithGrid(t, [Grid(t) EXCEPT ![t.row][t.col] = Cell(ch, t.attrs)])
  IN  IF u.col >= u.cols THEN [u EXCEPT !.pending_wrap = TRUE]
      ELSE [u EXCEPT !.col = @ + 1]

Backspace(s) ==
  LET to == Max({s.col - 1, 1})
      t == Erase(s, LAMBDA r, c : r = s.row /\ c \in {s.col, to}
                                    /\ Grid(s)[r][c].ch = " ")
  IN  At(t, s.row, to)

(* A tab leaves a wrap that is pending.                                    *)
Tab(s) == [s EXCEPT !.col = Min({((s.col - 1) \div 8 + 1) * 8 + 1, s.cols})]

-----------------------------------------------------------------------------
(* Control sequences.  A parameter left out is the default; a number of    *)
(* cells or rows is at least 1.                                            *)

Param(s, i, default) == IF i <= Len(s.params) THEN s.params[i] ELSE default
Count(s) == Max({Param(s, 1, 1), 1})

EraseDisplay(s, mode) ==
  LET t == IF mode = 3 /\ ~s.in_alt THEN [s EXCEPT !.scrollback = <<>>] ELSE s
  IN  CASE mode = 0 ->
             Erase(t, LAMBDA r, c : r > s.row \/ (r = s.row /\ c >= s.col))
        [] mode = 1 ->
             Erase(t, LAMBDA r, c : r < s.row \/ (r = s.row /\ c <= s.col))
        [] mode \in {2, 3} -> Erase(t, LAMBDA r, c : TRUE)
        [] OTHER -> t

EraseLine(s, mode) ==
  Erase(s, LAMBDA r, c : /\ r = s.row
                         /\ \/ mode = 0 /\ c >= s.col
                            \/ mode = 1 /\ c <= s.col
                            \/ mode = 2)

(* The rest of the line moves over the cells deleted, or away from the     *)
(* ones inserted.                                                          *)
DeleteChars(s) ==
  LET n == Min({Count(s), s.cols - s.col + 1})
  IN  WithGrid(s, [Grid(s) EXCEPT ![s.row] =
        [c \in 1..s.cols |-> IF c < s.col THEN @[c]
                             ELSE IF c + n <= s.cols THEN @[c + n] ELSE Default]])

InsertChars(s) ==
  LET n == Min({Count(s), s.cols - s.col + 1})
  IN  WithGrid(s, [Grid(s) EXCEPT ![s.row] =
        [c \in 1..s.cols |-> IF c < s.col THEN @[c]
                             ELSE IF c >= s.col + n THEN @[c - n] ELSE Default]])

InsertLines(s) ==
  LET n == Min({Count(s), s.rows - s.row + 1})
      g == Grid(s)
  IN  WithGrid(s, SubSeq(g, 1, s.row - 1) \o BlankGrid(s.cols, n)
                    \o SubSeq(g, s.row, s.rows - n))

DeleteLines(s) ==
  LET n == Min({Count(s), s.rows - s.row + 1})
      g == Grid(s)
  IN  WithGrid(s, SubSeq(g, 1, s.row - 1) \o SubSeq(g, s.row + n, s.rows)
                    \o BlankGrid(s.cols, n))

(* Down and to the right the sum is of 16 bits.                            *)
Move(s, down, right) ==
  LET moved(from, by) ==
        IF by < 0 THEN Max({from + by, 1}) ELSE ((from - 1 + by) % U16) + 1
  IN  At(s, moved(s.row, down), moved(s.col, right))

(* Entering the alternate screen saves the cursor and clears that screen;  *)
(* leaving it puts the cursor back.                                        *)
EnterAlt(s) ==
  [s EXCEPT !.saved = <<s.row, s.col>>, !.in_alt = TRUE,
            !.alt = BlankGrid(s.cols, s.rows)]

LeaveAlt(s) == At([s EXCEPT !.in_alt = FALSE], s.saved[1], s.saved[2])

ModeName(number) == CASE number = 25 -> "visible"
                      [] number = 2004 -> "bracketed_paste"

SetMode(s, number) ==
  CASE number \in {1049, 47} -> EnterAlt(s)
    [] number \in {25, 2004} -> [s EXCEPT !.modes = @ \cup {ModeName(number)}]
    [] OTHER -> s

ResetMode(s, number) ==
  CASE number \in {1049, 47} -> LeaveAlt(s)
    [] number \in {25, 2004} -> [s EXCEPT !.modes = @ \ {ModeName(number)}]
    [] OTHER -> s

Scroll(s, up, n) ==
  FoldLeft(LAMBDA t, i : IF up THEN ScrollUp(t) ELSE ScrollDown(t),
           s, [i \in 1..n |-> i])

(* How many parameters the i-th takes with it: a style of underlining, a   *)
(* colour of the palette, or one by its three parts.                       *)
Taken(params, i) ==
  LET rest == Len(params) - i
      colour == params[i] \in {38, 48, 58}
  IN  CASE params[i] = 4 /\ rest >= 1 /\ params[i + 1] \in 0..5 -> 1
        [] colour /\ rest >= 2 /\ params[i + 1] = 5 -> 2
        [] colour /\ rest >= 4 /\ params[i + 1] = 2 -> 4
        [] OTHER -> 0

(* Attributes: no parameter resets them, each parameter that is not taken  *)
(* by one before it changes one.  The detector reads the number of the     *)
(* foreground, and a colour by its parts has none.                         *)
ExecuteSgr(s) ==
  LET changed(a, i) ==
        LET p == s.params[i]
        IN  CASE p = 0 -> NoAttrs
              [] p = 7 -> [a EXCEPT !.reverse = TRUE]
              [] p = 27 -> [a EXCEPT !.reverse = FALSE]
              [] p \in 30..37 \cup 90..97 -> [a EXCEPT !.fg = "set"]
              [] p = 38 /\ Taken(s.params, i) = 2 -> [a EXCEPT !.fg = "set"]
              [] p = 39 \/ (p = 38 /\ Taken(s.params, i) = 4) ->
                   [a EXCEPT !.fg = "default"]
              [] OTHER -> a
      one(at, i) ==
        IF i < at.next THEN at
        ELSE [attrs |-> changed(at.attrs, i), next |-> i + 1 + Taken(s.params, i)]
      all == FoldLeft(one, [attrs |-> s.attrs, next |-> 1],
                      [i \in DOMAIN s.params |-> i])
  IN  [s EXCEPT !.attrs = IF s.params = <<>> THEN NoAttrs ELSE all.attrs]

ExecuteCsi(s, cmd) ==
  LET t == IF cmd = "m" THEN s ELSE [s EXCEPT !.pending_wrap = FALSE]
      n == Count(s)
  IN  CASE cmd = "H" -> At(t, n, Max({Param(s, 2, 1), 1}))
        [] cmd = "A" -> Move(t, -n, 0)
        [] cmd = "B" -> Move(t, n, 0)
        [] cmd = "C" -> Move(t, 0, n)
        [] cmd = "D" -> Move(t, 0, -n)
        [] cmd = "E" -> At(Move(t, n, 0), Move(t, n, 0).row, 1)
        [] cmd = "F" -> At(Move(t, -n, 0), Move(t, -n, 0).row, 1)
        [] cmd = "G" -> At(t, t.row, n)
        [] cmd = "d" -> At(t, n, t.col)
        [] cmd = "J" -> EraseDisplay(t, Param(s, 1, 0))
        [] cmd = "K" -> EraseLine(t, Param(s, 1, 0))
        [] cmd = "X" -> Erase(t, LAMBDA r, c : /\ r = t.row
                                               /\ c \in t.col..t.col + n - 1)
        [] cmd = "P" -> DeleteChars(t)
        [] cmd = "@" -> InsertChars(t)
        [] cmd = "L" -> InsertLines(t)
        [] cmd = "M" -> DeleteLines(t)
        [] cmd = "m" -> ExecuteSgr(t)
        [] cmd = "h" /\ s.private -> SetMode(t, Param(s, 1, 0))
        [] cmd = "l" /\ s.private -> ResetMode(t, Param(s, 1, 0))
        [] cmd = "S" -> Scroll(t, TRUE, n)
        [] cmd = "T" -> Scroll(t, FALSE, n)
        [] OTHER -> t

(* Links, and the marks a shell sets; a clipboard changes nothing here.    *)
ExecuteOsc(s) ==
  LET t == [s EXCEPT !.osc = <<>>]
  IN  CASE s.osc = <<>> -> s
        [] Head(s.osc) = "link" ->
             [t EXCEPT !.url = IF Len(s.osc) > 1 THEN Last(s.osc) ELSE ""]
        [] Head(s.osc) = "mark" -> [t EXCEPT !.mark = s.row]
        [] OTHER -> t

-----------------------------------------------------------------------------
(* The parser.                                                             *)

Chars == {"a", "b"}
Numbers == [n0 |-> 0, n1 |-> 1, n2 |-> 2, n3 |-> 3, n5 |-> 5, n7 |-> 7,
            n8 |-> 8, n25 |-> 25, n31 |-> 31, n38 |-> 38, n1049 |-> 1049, n2004 |-> 2004,
            n65535 |-> 65535]
Commands == {"H", "A", "B", "C", "D", "E", "F", "G", "d", "J", "K", "X", "P",
             "@", "L", "M", "m", "h", "l", "S", "T"}
Finals == Commands \cup Chars \cup {"[", "]", "\\"}
Controls == {"esc", "cr", "lf", "bs", "tab", "bel"}

Ground(s, b) ==
  CASE b = "esc" -> [s EXCEPT !.parser = "escape"]
    [] b = "lead" -> [s EXCEPT !.utf8 = 1]
    [] b = "continuation" -> PutChar(s, "?")
    [] b = "cr" -> [s EXCEPT !.pending_wrap = FALSE, !.col = 1]
    [] b = "lf" -> LineFeed([s EXCEPT !.pending_wrap = FALSE])
    [] b = "bs" -> Backspace(s)
    [] b = "tab" -> Tab(s)
    [] b = "bel" -> s
    [] OTHER -> PutChar(s, IF b \in Chars THEN b ELSE "#")

Escape(s, b) ==
  LET t == [s EXCEPT !.parser = "ground"]
  IN  CASE b = "[" -> [s EXCEPT !.parser = "csi", !.params = <<>>, !.param = -1,
                                !.private = FALSE, !.intermediate = FALSE]
        [] b = "]" -> [s EXCEPT !.parser = "osc", !.osc = <<>>]
        [] b = "n7" -> [t EXCEPT !.saved = <<s.row, s.col>>]
        [] b = "n8" -> At(t, s.saved[1], s.saved[2])
        [] b = "\\" -> ExecuteOsc(t)
        [] b = "M" -> IF s.row = 1
                      THEN ScrollDown([t EXCEPT !.pending_wrap = FALSE])
                      ELSE At(t, s.row - 1, s.col)
        [] OTHER -> t

(* A control character inside a sequence aborts it and acts as usual.      *)
Csi(s, b) ==
  LET ended == [s EXCEPT !.parser = "ground"]
  IN  CASE b \in DOMAIN Numbers -> [s EXCEPT !.param = Numbers[b]]
        [] b = ";" -> [s EXCEPT !.params = Append(@, Max({s.param, 0})),
                                !.param = -1]
        [] b = "?" -> [s EXCEPT !.private = TRUE]
        [] b = "$" -> [s EXCEPT !.intermediate = TRUE]
        [] b \in Finals ->
             LET t == IF s.param >= 0
                      THEN [ended EXCEPT !.params = Append(@, s.param)] ELSE ended
             IN  IF s.intermediate THEN t ELSE ExecuteCsi(t, b)
        [] b \in Controls -> Ground(ended, b)
        [] OTHER -> ended

Osc(s, b) ==
  CASE b = "bel" -> [ExecuteOsc(s) EXCEPT !.parser = "ground"]
    [] b = "esc" -> [s EXCEPT !.parser = "escape"]
    [] OTHER -> IF Len(s.osc) < OscMax THEN [s EXCEPT !.osc = Append(@, b)] ELSE s

(* A character of two bytes that is cut short shows as a replacement.      *)
ProcessByte(s, b) ==
  LET whole == [s EXCEPT !.utf8 = 0]
      t == IF s.utf8 = 1 THEN PutChar(whole, "?") ELSE s
  IN  CASE s.utf8 = 1 /\ b = "continuation" -> PutChar(whole, "u")
        [] t.parser = "ground" -> Ground(t, b)
        [] t.parser = "escape" -> Escape(t, b)
        [] t.parser = "csi" -> Csi(t, b)
        [] t.parser = "osc" -> Osc(t, b)

ProcessBytes(s, bytes) == FoldLeft(ProcessByte, s, bytes)

Resize(s, cols, rows) ==
  LET fit(grid) == [r \in 1..rows |-> [c \in 1..cols |->
                      IF r <= s.rows /\ c <= s.cols THEN grid[r][c] ELSE Default]]
  IN  [s EXCEPT !.cols = cols, !.rows = rows,
                !.main = fit(s.main), !.alt = fit(s.alt),
                !.row = Min({s.row, rows}), !.col = Min({s.col, cols})]

(* What the detector reads.                                                *)
Snapshot(s) ==
  LET g == Grid(s)
      written(r) == {c \in 1..s.cols : g[r][c].ch # " "}
  IN  [lines |-> [r \in 1..s.rows |-> RowText(g[r])],
       reversed_lines |-> {r \in 1..s.rows :
                             \E c \in written(r) : g[r][c].attrs.reverse},
       line_fg |-> [r \in 1..s.rows |->
                      IF written(r) = {} THEN "default"
                      ELSE g[r][Min(written(r))].attrs.fg],
       scrollback_lines |-> s.scrollback]

-----------------------------------------------------------------------------
(* A printer with the width of the window and paper without end: it goes to*)
(* the next line when a character does not fit.  It prints plain text, of  *)
(* characters, carriage returns and line feeds.                            *)

Plain == Chars \cup {"lead", "continuation", "cr", "lf"}
NewPaper == [plain |-> TRUE, lines |-> <<>>, row |-> 1, col |-> 1, cut |-> FALSE]
NoPaper == [NewPaper EXCEPT !.plain = FALSE]

PutOnPaper(p, cols, ch) ==
  LET row == IF p.col > cols THEN p.row + 1 ELSE p.row
      col == IF p.col > cols THEN 1 ELSE p.col
      old(r, c) == IF r <= Len(p.lines) THEN p.lines[r][c] ELSE " "
  IN  [p EXCEPT !.row = row, !.col = col + 1,
                !.lines = [r \in 1..Max({row, Len(p.lines)}) |-> [c \in 1..cols |->
                             IF r = row /\ c = col THEN ch ELSE old(r, c)]]]

PaperByte(p, cols, b) ==
  LET q == [(IF p.cut /\ b # "continuation" THEN PutOnPaper(p, cols, "?") ELSE p)
              EXCEPT !.cut = FALSE]
  IN  CASE b = "lead" -> [q EXCEPT !.cut = TRUE]
        [] b = "continuation" -> PutOnPaper(q, cols, IF p.cut THEN "u" ELSE "?")
        [] b = "cr" -> [q EXCEPT !.col = 1]
        [] b = "lf" -> [q EXCEPT !.row = @ + 1, !.col = Min({@, cols})]
        [] OTHER -> PutOnPaper(q, cols, b)

-----------------------------------------------------------------------------
Init ==
  /\ \E size \in Sizes : screen = New(size[1], size[2])
  /\ paper = NewPaper
  /\ reads = 0

Read(bytes) ==
  /\ reads < MaxReads /\ reads' = reads + 1
  /\ screen' = ProcessBytes(screen, bytes)
  /\ paper' = IF paper.plain /\ Range(bytes) \subseteq Plain
              THEN FoldLeft(LAMBDA p, b : PaperByte(p, screen.cols, b), paper, bytes)
              ELSE NoPaper

ResizeWindow(size) ==
  /\ reads < MaxReads /\ reads' = reads + 1
  /\ screen' = Resize(screen, size[1], size[2])
  /\ paper' = NoPaper

Next ==
  \/ \E bytes \in Reads : Read(bytes)
  \/ \E size \in Sizes : ResizeWindow(size)

Spec == Init /\ [][Next]_vars

-----------------------------------------------------------------------------
(* Whatever is written and however the window changes: both grids have the *)
(* size of the window, the cursor is on it, and the scrollback is bounded  *)
(* and holds no two blank lines in a row.                                  *)
TypeOK ==
  LET s == screen
  IN  /\ s.row \in 1..s.rows /\ s.col \in 1..s.cols
      /\ \A grid \in {s.main, s.alt} :
           /\ DOMAIN grid = 1..s.rows
           /\ \A r \in 1..s.rows : DOMAIN grid[r] = 1..s.cols
      /\ Len(s.scrollback) <= ScrollbackMax
      /\ \A i \in 2..Len(s.scrollback) :
           s.scrollback[i] # <<>> \/ s.scrollback[i - 1] # <<>>

(* Of a plain text, however the reads cut it, no line is lost, doubled or  *)
(* out of order: the lines that scrolled off and the lines of the grid are *)
(* what a printer would have put on paper, blank lines apart, as far back  *)
(* as the scrollback goes.                                                 *)
PrintedTextKept ==
  LET snapshot == Snapshot(screen)
      written(text) == text # <<>>
      kept == SelectSeq(snapshot.scrollback_lines \o snapshot.lines, written)
      text(line) == RowText([c \in DOMAIN line |-> Cell(line[c], NoAttrs)])
      printed == SelectSeq([r \in DOMAIN paper.lines |-> text(paper.lines[r])],
                           written)
      scrolled == Len(screen.scrollback)
  IN  paper.plain =>
        /\ IsSuffix(kept, printed)
        /\ scrolled < ScrollbackMax => kept = printed

=============================================================================
