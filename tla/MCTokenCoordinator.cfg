SPECIFICATION LiveSpec
CONSTANTS
  Callers = {p1, p2}
  MaxTokens = 2
  Lives = {1, 4}
  Margin = 3
  LockTtl = 2
  WaitLimit = 1
  HoldLimit = 2
  MaxFaults = 1
  None = None
INVARIANTS
  TypeOK
  RefreshOwnsLock
PROPERTIES
  NoNeedlessRefresh
  TakenAlive
  CallsEnd
