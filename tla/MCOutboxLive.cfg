SPECIFICATION PromptSpec
CONSTANTS
  e1 = e1 e2 = e2 u1 = u1 u2 = u2 u3 = u3 r1 = r1 r2 = r2 c1 = c1 c2 = c2
  Events = {e1, e2, u1, u2}
  Routable = {e1, e2}
  Poison = {e2}
  OccurredAt <- MCOccurredAt
  Relays = {r1}
  Consumers = {c1}
  BatchSize = 1
  ExponentCap = 2
  DelayCap = 3
  MaxFaults = 1
  NoEvent = NoEvent
PROPERTIES
  EventuallyHandled
