SPECIFICATION FairSpec
CONSTANTS
  ToolIds = {t1}
  None = None
  MaxIterations = 3
  MaxStreamRetry = 1
  SaveInterval = 1
  PreserveRecent = 4
  MaxTokens = 1
PROPERTIES
  AcceptedTurnEnds
  StopDuringToolsWins
\* a turn that has ended takes no further step
CHECK_DEADLOCK FALSE
