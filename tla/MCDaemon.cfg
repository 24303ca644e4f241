\* One agent process that shows a question with a write-in and a chat reply.
CONSTANTS
  t1 = t1
  c1 = c1
  q1 = q1
  r1 = r1
  NoTask = NoTask
  NoEvent = NoEvent
  None = None
  Tasks = {t1}
  AgentTask = t1
  Expected <- MCExpected
  Clients = {c1}
  HasResponder = TRUE
  CommandCap = 1
  UpstreamCap = 1
  RawKinds = {}
  RawOperations = {}
  RawSeqs = {}
  MaxEvents = 9
  MaxTime = 0
  TimeStep = 1
  Menus = {}
  Questions = {q1}
  WriteIns = {q1}
  Replies = {r1}
  Works = {}
  Responses = {"Approve", "Text"}
  MaxSeq = 9
  MaxShows = 2
  MaxCommands = 2
  MaxSessions = 1
VIEW MCView
SPECIFICATION DaemonFairSpec
PROPERTIES EventuallyReported
INVARIANTS PendingHasOneCarrier DecisionTypedOnce AnswersItsOwnDialog AskedIsAnswerable
CHECK_DEADLOCK FALSE
