\* One phone whose back-off outlasts what is on its way; a push, a decision,
\* a break of the trunk and one of the phone.
CONSTANTS
  t1 = t1
  p1 = p1
  c1 = c1
  c2 = c2
  NoTask = NoTask
  NoEvent = NoEvent
  NoPhone = NoPhone
  Tasks = {t1}
  Expected <- MCExpected
  Clients <- MCClients
  HasResponder = FALSE
  CommandCap = 1
  RawKinds = {"command_confirmation"}
  RawOperations = {"Build"}
  RawSeqs = {1}
  MaxEvents = 1
  MaxTime = 0
  TimeStep = 1
  Phones = {p1}
  Conns = {c1, c2}
  PhoneCommands = {"Approved", "ack"}
  SinkCap = 2
  WireCap = 1
  ClientCap = 1
  MaxTrunks = 2
  MaxFaults = 1
  MaxRequests = 1
  MaxAttempts = 4
  Patient = TRUE
SPECIFICATION RelayFairSpec
INVARIANTS OneTrunkShowsQueue NobodyLeftBehind
PROPERTIES PhoneReturns
CHECK_DEADLOCK FALSE
