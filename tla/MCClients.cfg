\* One client, and room for an update, a result and a snapshot in every order.
CONSTANTS
  InboxCap = 2
  OutboundCap = 2
  WireCap = 1
  MaxClients = 1
  MaxChanges = 3
  MaxAsks = 2
SPECIFICATION FairSpec
INVARIANT NothingMissed
PROPERTY LeftIsLetGo
CHECK_DEADLOCK FALSE
