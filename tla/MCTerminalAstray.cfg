CONSTANTS
  NoTask = NoTask
  NoEvent = NoEvent
  session = session
  Tui = Tui
  Phone = Phone
  Tasks = {session}
  Expected <- MCExpected
  Clients = {Tui, Phone}
  HasResponder = TRUE
  CommandCap = 4
  RawKinds = {"command_confirmation"}
  RawOperations = {"Other"}
  RawSeqs = {1}
  MaxEvents = 5
  MaxTime = 0
  TimeStep = 1
  Answered = {"Approved"}
  Acts = {"phone", "phone_prompt"}
  MaxActs = 2
  MaxDialogs = 2
VIEW MCView
SPECIFICATION TuiSpec
PROPERTY AnswersItsOwn
CHECK_DEADLOCK FALSE
