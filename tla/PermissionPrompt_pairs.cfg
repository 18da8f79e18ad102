SPECIFICATION Spec
CONSTANTS
  Runs = {r1}
  bash = bash
  write_file = write_file
  None = None
  Tools <- MCTools
  Required <- MCBothDangerous
  UserModes = {"WorkspaceWrite"}
  MaxCalls = 2
  MaxAnswers = 1
INVARIANT ResolutionPairsWithPrompt
CHECK_DEADLOCK FALSE
