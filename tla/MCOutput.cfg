\* Windows of two to four cells, four reads; two turns, of which the first may
\* scroll off.
CONSTANTS
  Reads <- MCReads
  Sizes <- MCSizes
  ScrollbackMax = 2
  OscMax = 2
  MaxReads = 4
  Prompts = {"prompt", "prompt_no"}
  Prints = {"text", "indented", "blank", "tool", "tool_bare", "thought", "final", "expand", "quote", "quote_no"}
  Height = 3
  MaxTurns = 2
  MaxLines = 6
SPECIFICATION OutputSpec
INVARIANTS PrintedTextKept ReportTellsThisTurn FinalAnswerWhole
CHECK_DEADLOCK FALSE
