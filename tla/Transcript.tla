----------------------------- MODULE Transcript -----------------------------
(***************************************************************************)
(* What the adapter for Antigravity reports of a turn that is over.  The   *)
(* agent has printed its thoughts, its tools with their output and its     *)
(* answer over the chat input; part of it has scrolled off the screen, and *)
(* what scrolled off has lost its colours.  From these lines the adapter   *)
(* takes a summary, decides whether it shows that work was done, cuts it   *)
(* into steps and looks for the final answer.                              *)
(*                                                                         *)
(* A line is its kind, with the turn it was printed in, which only the     *)
(* properties look at.  Numbers of tokens, durations and paths are left    *)
(* out.                                                                    *)
(***************************************************************************)
EXTENDS Integers, Sequences, FiniteSets, SequencesExt

CONSTANTS
  Prompts,    \* kinds of prompts the user types
  Prints,     \* kinds of lines the agent prints
  Height,     \* lines of the transcript that are still on the screen
  MaxTurns,   \* bound: prompts
  MaxLines    \* bound: lines of the transcript

(* A prompt that holds "Yes," or "No," is known by its colour alone.  The  *)
(* agent quotes, with "> ", or names a command, as "agy -i": a quote is    *)
(* taken for a prompt, and one that holds "Yes," or begins with "? " or    *)
(* "$ " for a line of the input.  Prose may hold "==", may hold ";".       *)
PromptKinds == {"prompt", "prompt_no"}
QuoteKinds == {"quote", "quote_no"}
ProseKinds == {"text", "bullet", "equals", "semicolon", "results"}
LineKinds ==
  PromptKinds \cup QuoteKinds \cup ProseKinds
    \cup {"blank", "indented", "tool", "tool_bare", "thought", "final",
          "expand", "rule", "welcome", "artifact", "chat"}

ASSUME TranscriptAssumption ==
  /\ Prompts \subseteq PromptKinds
  /\ Prints \subseteq LineKinds \ (PromptKinds \cup {"chat"})
  /\ Height \in Nat /\ MaxTurns \in Nat /\ MaxLines \in Nat

VARIABLES
  printed,    \* the transcript, without the input box
  turn,       \* the current turn
  phase,      \* is the agent working, or is the chat input idle?
  report      \* what the adapter has made of the last turn

turnVars == <<printed, turn, phase, report>>

-----------------------------------------------------------------------------
(* The summary.                                                            *)

Line(kind, t) == [kind |-> kind, turn |-> t]

Box == <<Line("rule", 0), Line("chat", 0), Line("rule", 0)>>

IsArtifact(line) == line.kind \in {"rule", "welcome", "artifact"}
IsTool(line) == line.kind \in {"tool", "tool_bare"}
IsExecution(line) == IsTool(line) \/ line.kind = "thought"
StartsPrompt(line) == line.kind \in PromptKinds \cup QuoteKinds \cup {"chat"}

Greatest(S) == IF S = {} THEN 0 ELSE CHOOSE i \in S : \A j \in S : j <= i
Least(S) == IF S = {} THEN 0 ELSE CHOOSE i \in S : \A j \in S : i <= j

(* The rule that frames the input box: near the bottom, a prompt below it. *)
TranscriptEnd(lines) ==
  LET frames == {r \in DOMAIN lines :
                   /\ lines[r].kind = "rule" /\ Len(lines) - r < 6
                   /\ \E i \in r + 1..Len(lines) : StartsPrompt(lines[i])}
  IN  IF frames = {} THEN Len(lines) + 1 ELSE Greatest(frames)

UserRow_First(lines, end, gone) ==    \* variant: the first prompt
  Least({i \in 1..end - 1 :
           \/ lines[i].kind \in {"prompt", "quote"}
           \/ lines[i].kind = "prompt_no" /\ i > gone})

(* The last prompt, or what is taken for one; `gone` lines have scrolled   *)
(* off and have no colour.                                                 *)
UserRow(lines, end, gone) ==
  Greatest({i \in 1..end - 1 :
              \/ lines[i].kind \in {"prompt", "quote"}
              \/ lines[i].kind = "prompt_no" /\ i > gone})

(* Blank lines are kept singly, and only between other lines.              *)
Squeeze(lines) ==
  LET Kept(i) == \/ lines[i].kind # "blank"
                 \/ /\ i > 1 /\ lines[i - 1].kind # "blank"
                    /\ \E j \in i + 1..Len(lines) : lines[j].kind # "blank"
  IN  [k \in 1..Cardinality({i \in DOMAIN lines : Kept(i)}) |->
         lines[SetToSortSeq({i \in DOMAIN lines : Kept(i)}, <)[k]]]

(* The last lines in the colour of text that are on the screen, below the  *)
(* last prompt that is: here a quote is told by its colour.  Thoughts,     *)
(* tools and what belongs to them have colours.                            *)
ExtractAgentReply(lines, gone) ==
  LET rules == {r \in gone + 1..Len(lines) : lines[r].kind = "rule"}
      end == Greatest(rules \ {Greatest(rules)})
      user == Greatest({i \in gone + 1..end - 1 : lines[i].kind \in PromptKinds})
      chrome == {i \in user + 1..end - 1 :
                   IsExecution(lines[i]) \/ lines[i].kind \in {"indented", "expand"}}
      said(l) == l.kind # "blank" /\ ~IsArtifact(l)
  IN  IF user = 0 THEN <<>>
      ELSE SelectSeq(SubSeq(lines, Greatest(chrome \cup {user}) + 1, end - 1), said)

(* Without a line of the summary, the reply.  (One that ends in a question *)
(* mark is not taken: no line here does.)                                  *)
ExtractWorkSummary(lines, gone) ==
  LET end == TranscriptEnd(lines)
      user == UserRow(lines, end, gone)
      started == Least({i \in 1..end - 1 : IsExecution(lines[i])})
      start == IF user > 0 THEN user + 1 ELSE started
      content(l) == ~IsArtifact(l) /\ ~StartsPrompt(l)
      summary == Squeeze(SelectSeq(SubSeq(lines, start, end - 1), content))
  IN  IF user = 0 /\ started = 0 THEN <<>>
      ELSE IF summary = <<>> THEN ExtractAgentReply(lines, gone)
      ELSE summary

(* Text with "==" and ";" anywhere in it is taken for a fragment of        *)
(* graphics: the test for a line is put to the text as a whole.            *)
LooksGraphic(lines) ==
  /\ \E i \in DOMAIN lines : lines[i].kind = "equals"
  /\ \E i \in DOMAIN lines : lines[i].kind = "semicolon"

HasCompletionEvidence(summary) == summary # <<>> /\ ~LooksGraphic(summary)

-----------------------------------------------------------------------------
(* The steps.  Each line goes on with the step that is open, or ends it and*)
(* begins one.                                                             *)

Indented(line) == line.kind \in {"indented", "expand"}
StartsResult(line) == line.kind \in {"final", "results"}
StartsStep(line) == IsExecution(line) \/ StartsResult(line)

NewStep(kind, line) ==
  [kind |-> kind, head |-> line, command |-> kind = "tool" /\ line.kind = "tool",
   lines |-> <<>>]

Begin(line) ==
  CASE line.kind = "thought" -> NewStep("thought", line)
    [] IsTool(line) -> NewStep("tool", line)
    [] line.kind = "final" -> NewStep("result", line)
    [] OTHER -> [NewStep("message", line) EXCEPT !.lines = <<line>>]

(* A thought is the indented lines under it, up to a step, a list or a     *)
(* heading; blank lines belong to it unless such a line follows.           *)
ThoughtGoesOn(step, lines, i) ==
  LET ends(l) == StartsStep(l) \/ l.kind = "bullet"
      next == Least({j \in i..Len(lines) : lines[j].kind # "blank"})
  IN  IF lines[i].kind = "blank" THEN next = 0 \/ ~ends(lines[next])
      ELSE ~ends(lines[i]) /\ (step.lines = <<>> \/ Indented(lines[i]))

ToolGoesOn_ToTheEnd(step, lines, i) ==    \* variant: all text is output
  \/ lines[i].kind = "blank"
  \/ ~StartsStep(lines[i])

(* The output of a tool: the first line may be its command, then what is   *)
(* indented, then anything as long as another step follows.                *)
ToolGoesOn(step, lines, i) ==
  \/ lines[i].kind = "blank"
  \/ /\ ~StartsStep(lines[i])
     /\ \/ ~step.command
        \/ Indented(lines[i])
        \/ \E j \in i..Len(lines) : StartsStep(lines[j])

GoesOn(step, lines, i) ==
  CASE step.kind = "thought" -> ThoughtGoesOn(step, lines, i)
    [] step.kind = "tool" -> ToolGoesOn(step, lines, i)
    [] step.kind = "result" -> TRUE
    [] step.kind = "message" -> ~StartsStep(lines[i])

Extend(step, line) ==
  CASE step.kind = "tool" /\ (line.kind = "blank" \/ step.command)
         /\ line.kind \in {"blank", "expand"} -> step
    [] step.kind = "tool" /\ ~step.command /\ line.kind # "blank" ->
         [step EXCEPT !.command = TRUE, !.lines = Append(@, line)]
    [] OTHER -> [step EXCEPT !.lines = Append(@, line)]

AddLine(steps, lines, i) ==
  LET step == steps[Len(steps)]
  IN  IF steps # <<>> /\ GoesOn(step, lines, i)
      THEN [steps EXCEPT ![Len(steps)] = Extend(step, lines[i])]
      ELSE IF lines[i].kind = "blank" THEN steps
      ELSE Append(steps, Begin(lines[i]))

HasText(step) == \E i \in DOMAIN step.lines : step.lines[i].kind # "blank"

(* A message that comes last, after a tool, is the result.  A section for  *)
(* the result that is empty is no step.                                    *)
ParseExecutionSteps(lines) ==
  LET steps == FoldLeft(LAMBDA s, i : AddLine(s, lines, i), <<>>,
                        [i \in DOMAIN lines |-> i])
      n == Len(steps)
      tools == {k \in DOMAIN steps : steps[k].kind = "tool"}
  IN  IF n > 0 /\ steps[n].kind = "message" /\ tools # {}
      THEN [steps EXCEPT ![n].kind = "result"]
      ELSE IF n > 0 /\ steps[n].kind = "result" /\ ~HasText(steps[n])
      THEN Front(steps)
      ELSE steps

(* The final answer: the last result, or the message that is last, or the  *)
(* last lines above which there is no chrome.                              *)
ScanBack(lines) ==
  LET chrome == {i \in DOMAIN lines : IsExecution(lines[i])
                                        \/ lines[i].kind \in {"expand"} \cup QuoteKinds}
      text == {i \in DOMAIN lines : lines[i].kind # "blank"} \ chrome
      last == Greatest(text)
      over == Greatest({i \in chrome : i < last})
  IN  IF text = {} THEN <<>> ELSE SubSeq(lines, over + 1, last)

ExtractFinalResult(lines) ==
  LET steps == ParseExecutionSteps(lines)
      results == {k \in DOMAIN steps : steps[k].kind = "result"}
      said == steps[Greatest(results)].lines
      last == steps[Len(steps)]
  IN  IF results # {} /\ ~LooksGraphic(said) THEN said
      ELSE IF steps # <<>> /\ last.kind = "message" /\ ~LooksGraphic(last.lines)
      THEN last.lines
      ELSE ScanBack(lines)

-----------------------------------------------------------------------------
NoReport == [done |-> FALSE, summary |-> <<>>, steps |-> <<>>, final |-> <<>>]

TranscriptInit ==
  printed = <<>> /\ turn = 0 /\ phase = "idle" /\ report = NoReport

UserPrompts(kind) ==
  /\ phase = "idle" /\ turn < MaxTurns /\ Len(printed) < MaxLines
  /\ turn' = turn + 1
  /\ printed' = Append(printed, Line(kind, turn + 1))
  /\ phase' = "working"
  /\ report' = NoReport

AgentPrints(kind) ==
  /\ phase = "working" /\ Len(printed) < MaxLines
  /\ printed' = Append(printed, Line(kind, turn))
  /\ UNCHANGED <<turn, phase, report>>

(* The chat input is idle again.  The adapter had a prompt, so any summary *)
(* that looks like text counts as work done.                               *)
TurnEnds ==
  /\ phase = "working"
  /\ phase' = "idle"
  /\ LET gone == IF Len(printed) > Height THEN Len(printed) - Height ELSE 0
         summary == ExtractWorkSummary(printed \o Box, gone)
     IN  report' = IF HasCompletionEvidence(summary)
                   THEN [done    |-> TRUE,
                         summary |-> summary,
                         steps   |-> ParseExecutionSteps(summary),
                         final   |-> ExtractFinalResult(summary)]
                   ELSE NoReport
  /\ UNCHANGED <<printed, turn>>

TranscriptNext ==
  \/ \E kind \in Prompts : UserPrompts(kind)
  \/ \E kind \in Prints : AgentPrints(kind)
  \/ TurnEnds

TranscriptSpec == TranscriptInit /\ [][TranscriptNext]_turnVars

-----------------------------------------------------------------------------
(* What the agent printed in this turn, blanks and decoration apart.       *)
IsContent(line) ==
  line.turn = turn /\ line.kind # "blank"
    /\ ~IsArtifact(line) /\ ~StartsPrompt(line)

(* The prompt of the turn was known by its colour, and has lost it.        *)
PromptForgotten ==
  \E i \in DOMAIN printed :
    /\ printed[i].turn = turn /\ printed[i].kind = "prompt_no"
    /\ i <= Len(printed) - Height

(* The agent has printed a line in this turn that is taken for a prompt.   *)
PromptQuoted ==
  \E i \in DOMAIN printed : printed[i].turn = turn /\ printed[i].kind = "quote"

(* The report on a completed turn is what was printed since the user's last*)
(* prompt, all of it and nothing else, with two exceptions.  After a quote *)
(* that is taken for a prompt it is the rest of the turn only.  A prompt   *)
(* known by its colour that has scrolled off makes it begin in an earlier  *)
(* turn, or, without any prompt, with the first tool or thought; those are *)
(* never lost.  It always goes on without a gap up to the end of the turn, *)
(* and the steps keep its order and lose only notes on how to see more.    *)
ReportTellsThisTurn ==
  report.done =>
    LET told(l) == l.kind # "blank" /\ ~StartsPrompt(l)
        content == SelectSeq(printed, IsContent)
        summary == SelectSeq(report.summary, told)
        noted(l) == l.kind \notin {"blank", "expand", "tool", "tool_bare",
                                   "thought", "final"}
        stepped == FlattenSeq([k \in DOMAIN report.steps |->
                                 report.steps[k].lines])
    IN  /\ ~PromptQuoted /\ ~PromptForgotten => summary = content
        /\ PromptQuoted => IsSuffix(summary, content)
        /\ ~PromptQuoted => IsSuffix(SelectSeq(content, IsExecution),
                                     SelectSeq(summary, IsExecution))
        /\ IsSuffix(summary, content) \/ IsSuffix(content, summary)
        /\ SelectSeq(stepped, noted) = SelectSeq(report.summary, noted)

(* The prose with which a turn ends is the final answer, whole, and without*)
(* the output of the tool or the thought before it: their own lines are    *)
(* what is indented, the command of a tool that stands on the next line,   *)
(* and the line right under a thought.                                     *)
FinalAnswerWhole ==
  LET s == report.summary
      n == Len(s)
      marked == Least({i \in DOMAIN s : s[i].kind = "final"})
      head == IF marked > 0 THEN marked
              ELSE Greatest({i \in DOMAIN s : IsExecution(s[i])})
      first == Least({i \in head + 1..n : s[i].kind # "blank"})
      own(i) == \/ s[head].kind = "tool_bare" /\ i = first
                \/ s[head].kind = "thought" /\ i = head + 1 /\ s[i].kind # "bullet"
      from == Least({i \in head + 1..n :
                       marked > 0 \/ (s[i].kind \in ProseKinds /\ ~own(i))})
      visible(l) == l.kind # "blank"
  IN  report.done /\ head > 0 /\ from > 0
        => SelectSeq(report.final, visible)
             = SelectSeq(SubSeq(s, from, n), visible)
=============================================================================
