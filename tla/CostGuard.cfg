SPECIFICATION Spec
CONSTANTS
  s1 = s1
  s2 = s2
  s3 = s3
  chatA = chatA
  chatB = chatB
  chatC = chatC
  Tasks = {s1, s2, s3}
  Runs = {s2}
  Sessions = {chatA, chatB, chatC}
  SessionOf <- MCSessionOf
  Unlimited = Unlimited
  HourLimit = 1
  DayLimit = 4
  SessionLimit = 2
  Estimate = 2
  Hour = 2
  Days = {1, 2}
  MaxTime = 4
  MaxStarts = 7
  MaxIterations = 2
INVARIANTS
  TypeOK
  HourlyOvershootBounded
  DailyOvershootBounded
  SessionBudgetKept
  RollingHourAtMostDouble
CHECK_DEADLOCK FALSE
