SPECIFICATION Spec
CONSTANTS
  Users = {1, 2}
  Sockets = {k1, k2}
  Records = {r1, r2}
  Slots = {h1, h2}
  Limit = 2
  MaxChanges = 2
  MaxFaults = 1
  None = None
SYMMETRY Symmetric
CHECK_DEADLOCK FALSE
INVARIANTS
  TypeOK
  AnnouncedOnce
  DeliveryNotLost
  HintsSound
PROPERTIES
  ReadStaysRead
