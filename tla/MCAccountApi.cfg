SPECIFICATION Spec
CONSTANTS
  Requests = {r1, r2, r3}
  Keys = {k1}
  Users = {u1, u2}
  Owner = u1
  Bodies <- MCBodies
  Readers = {p1, p2}
  Book <- MCBook
  MaxPages = 2
  MaxRetries = 1
  MaxCalls = 3
  MaxFaults = 1
  None = None
  Missing = Missing
  a = a
  b = b
SYMMETRY Symmetric
CHECK_DEADLOCK FALSE
INVARIANTS
  TypeOK
  KeyExecutesOnce
  AnswersMatchRequest
  ListsWhole
  SnapshotsConsistent
