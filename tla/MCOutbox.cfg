SPECIFICATION Spec
CONSTANTS
  e1 = e1  e2 = e2  u1 = u1  u2 = u2  u3 = u3 r1 = r1 r2 = r2 c1 = c1 c2 = c2
  Events = {e1, u1}
  Routable = {e1}
  Poison = {}
  OccurredAt <- MCOccurredAt
  Relays = {r1, r2}
  Consumers = {c1, c2}
  BatchSize = 2
  ExponentCap = 2
  DelayCap = 3
  MaxFaults = 2
  NoEvent = NoEvent
INVARIANTS
  TypeOK
  PublishedIsSafe
  EffectOncePerInboxRow
  DuplicatesNeedFaults
PROPERTY ImplementsDelivery
