SPECIFICATION Spec
CONSTANTS
  t1 = t1
  loop = loop
  Tasks = {t1, loop}
  Loop = loop
  MaxUses = 2
  MaxAttempts = 2
  MaxRequests = 1
  MaxCodes = 1
  MaxDeciders = 2
  MaxLicenses = 2
  MaxTokens = 2
  None = None
CONSTRAINT Few
INVARIANTS
  TypeOK
  GrantsAccounted
  TokenUsable
  DroppedStaysOut
PROPERTIES
  RevocationArrives
CHECK_DEADLOCK FALSE
