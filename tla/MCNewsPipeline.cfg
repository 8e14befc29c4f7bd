SPECIFICATION Spec
CONSTANTS
  Intervals = {c1, c2}
  Documents = {1, 2, 3}
  Feeds = {{}, {1, 2}, {2, 3}}
  Writers <- MCWriters
  Limits = {1, 2}
  RankConstant = 60
  MinCandidates = 2
  MaxAttempts = 2
  MaxFaults = 1
SYMMETRY Symmetric
CHECK_DEADLOCK FALSE
INVARIANTS
  TypeOK
  ArticlesReachIndex
  FusionRespectsRankings
