SPECIFICATION Spec
CONSTANTS
  Signups = {s1, s2}
  Logins = {l1, l2}
  Grants = {g1, g2}
  Ttl = 2
  MaxFaults = 1
  None = None
SYMMETRY Symmetric
CHECK_DEADLOCK FALSE
INVARIANTS
  TypeOK
  OneAccountPerEmail
  AuditTrail
  RevokesEarlierSessions
  LiveSessionsIndexed
PROPERTIES
  NeverRevived
