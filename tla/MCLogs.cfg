\* A ring that wraps while a phone pages backwards.
CONSTANTS
  a1 = a1
  Agents = {a1}
  Capacity = 3
  PinBefore = 1
  PinAfter = 1
  PageCap = 2
  Bursts = {1, 4}
  MaxEvents = 2
  MaxLines = 8
  MaxDecisions = 1
  PageSize = 2
  MaxLoads = 3
SPECIFICATION ViewerSpec
INVARIANTS PagesHonest ScreenJoined
PROPERTIES WindowsOnlyGrow EarlierGetsOn
CHECK_DEADLOCK FALSE
