\* Every kind of screen and answer; what no call may do, and a dialog that
\* outlives its answer.
CONSTANTS
  m1 = m1
  m2 = m2
  q1 = q1
  r1 = r1
  w1 = w1
  None = None
  Menus = {m1, m2}
  Questions = {q1}
  WriteIns = {q1}
  Replies = {r1}
  Works = {w1}
  Responses = {"Approve", "Deny", "Option", "OtherOption", "Text"}
  MaxSeq = 6
  MaxShows = 4
VIEW MCView
SPECIFICATION FairSpec
PROPERTIES EveryNumberIsAnEvent SilentOnlyThreeWays Resurfaces
CHECK_DEADLOCK FALSE
