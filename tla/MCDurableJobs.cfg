SPECIFICATION Spec
CONSTANTS
  k1 = k1 w1 = w1 w2 = w2
  RunKeys = {k1}
  Triggers <- MCTriggers
  Workers = {w1, w2}
  Cancellers = {c1, c2}
  Articles = {a1}
  MaxAttempts = 2
  IndexingEnabled = TRUE
  MaxFaults = 1
  NoJob = NoJob
SYMMETRY MCSymmetry
INVARIANTS
  TypeOK
  HandlerStartsOnce
  CompletionNeverLost
  CancelAnswersTruthful
  RetryFollowsFailure
  ArticlesHaveIndexJob
