SPECIFICATION Spec
CONSTANTS
  Requests = {q1, q2, q3}
  Slots = {h1, h2}
  MaxOpen = 1
  MaxFaults = 0
  NoRow = NoRow
  NoEvent = NoEvent
CHECK_DEADLOCK FALSE
PROPERTY ProjectionNeverRegresses
