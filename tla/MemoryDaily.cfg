SPECIFICATION Spec
CONSTANTS
  w1 = w1
  w2 = w2
  Workers = {w1, w2}
  Pipeline <- MCPipeline
  MaxRetries = 2
  MaxConcurrent = 1
  MaxDay = 1
  MaxSummaries = 2
INVARIANTS
  TypeOK
  QuarantineEarned
  CacheHonest
  OneDailyRun
  DayEarned
  OneSummary
SYMMETRY WorkerSymmetry
CONSTRAINT Few
CHECK_DEADLOCK FALSE
