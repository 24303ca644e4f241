\* Every dialog, residue of questions, printed lines of every kind that
\* matters, and a person at the laptop.
CONSTANTS
  None = None
  Yes = {"yes", "yes2"}
  No = {"no"}
  Review = {}
  FileWords = {}
  AltScreen = FALSE
  Texts = {"t"}
  BadTexts = {}
  Controls <- MCControls
  Residual = {"single", "multi"}
  Prints = {"header", "single", "bash"}
  Responses <- MCResponses
  MaxPrints = 1
  MaxLeft = 1
  MaxText = 2
SPECIFICATION Spec
INVARIANTS AsksWhatIsShown AnswersTakeEffect
CHECK_DEADLOCK FALSE
