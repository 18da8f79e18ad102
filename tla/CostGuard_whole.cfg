SPECIFICATION Spec
CONSTANTS
  s1 = s1
  s2 = s2
  s3 = s3
  chatA = chatA
  chatB = chatB
  chatC = chatC
  Tasks = {s2}
  Runs = {s2}
  Sessions = {chatB}
  SessionOf <- MCSessionOf
  Unlimited = Unlimited
  HourLimit = Unlimited
  DayLimit = Unlimited
  SessionLimit = 2
  Estimate = 1
  Hour = 2
  Days = {1}
  MaxTime = 4
  MaxStarts = 6
  MaxIterations = 3
INVARIANT SessionDayCap
CHECK_DEADLOCK FALSE
