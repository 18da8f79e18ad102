SPECIFICATION Spec
CONSTANTS
  s1 = s1
  s2 = s2
  s3 = s3
  chatA = chatA
  chatB = chatB
  chatC = chatC
  Tasks = {s1}
  Runs = {}
  Sessions = {chatA}
  SessionOf <- MCSessionOf
  Unlimited = Unlimited
  HourLimit = 2
  DayLimit = Unlimited
  SessionLimit = Unlimited
  Estimate = 1
  Hour = 2
  Days = {1}
  MaxTime = 4
  MaxStarts = 6
  MaxIterations = 1
INVARIANT RollingHourlyLimit
CHECK_DEADLOCK FALSE
