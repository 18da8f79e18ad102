SPECIFICATION TaskFairSpec
CONSTANTS
  ToolIds = {t1}
  None = None
  MaxIterations = 2
  MaxStreamRetry = 1
  SaveInterval = 1
  PreserveRecent = 4
  MaxTokens = 1
PROPERTY StopEndsTurn
CHECK_DEADLOCK FALSE
