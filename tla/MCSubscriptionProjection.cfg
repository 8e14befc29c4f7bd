SPECIFICATION LiveSpec
CONSTANTS
  Requests = {q1, q2, q3, q4}
  Slots = {h1}
  MaxOpen = 1
  MaxFaults = 2
  NoRow = NoRow
  NoEvent = NoEvent
CHECK_DEADLOCK FALSE
INVARIANTS
  TypeOK
  ProjectionIsNewestHandled
PROPERTIES
  ProjectionConverges
