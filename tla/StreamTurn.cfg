SPECIFICATION Spec
CONSTANTS
  ToolIds = {t1, t2}
  None = None
  MaxIterations = 2
  MaxStreamRetry = 1
  SaveInterval = 2
  PreserveRecent = 4
  MaxTokens = 2
SYMMETRY ToolSymmetry
INVARIANTS
  TypeOK
  SettledTurnAnnounced
  VerdictsAgree
  NoTextCarriedOver
  CompletedIsSaved
  ToolPairsOnDisk
  CardsSettled
  AnnouncedCursorSaved
PROPERTIES
  ImplementsContract
  NothingAfterComplete
  SettledCardIsFinal
\* a turn that has ended takes no further step
CHECK_DEADLOCK FALSE
