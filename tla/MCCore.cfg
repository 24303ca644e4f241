\* One client against two events and the clock.
CONSTANTS
  t1 = t1
  c1 = c1
  NoTask = NoTask
  NoEvent = NoEvent
  Tasks = {t1}
  Expected <- MCExpected
  Clients = {c1}
  HasResponder = TRUE
  CommandCap = 1
  RawKinds = {"command_confirmation", "progress", "task_completed"}
  RawOperations = {"Build"}
  RawSeqs = {0, 1}
  MaxEvents = 2
  MaxTime = 600
  TimeStep = 300
VIEW MCView
SPECIFICATION Spec
INVARIANTS TypeOK WorkingShownWhileOpen TrackerConsistent EscalationCarried NeverUnderrated
PROPERTIES PushesTellAll OutlivesTaskByReopenOnly RequestAnsweredOnce
CHECK_DEADLOCK FALSE
