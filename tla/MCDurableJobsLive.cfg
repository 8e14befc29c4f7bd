SPECIFICATION LiveSpec
CONSTANTS
  k1 = k1 w1 = w1 w2 = w2
  RunKeys = {k1}
  Triggers <- MCTriggersAll
  Workers = {w1}
  Cancellers = {}
  Articles = {a1}
  MaxAttempts = 3
  IndexingEnabled = TRUE
  MaxFaults = 1
  NoJob = NoJob
PROPERTY RequestedJobsEnd
