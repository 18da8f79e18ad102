SPECIFICATION Spec
CONSTANTS
  Runs = {r1, r2}
  bash = bash
  write_file = write_file
  None = None
  Tools <- MCTools
  Required <- MCRequired
  UserModes <- MCUserModes
  MaxCalls = 2
  MaxAnswers = 2
SYMMETRY RunSymmetry
INVARIANTS
  TypeOK
  AnswersMatchPrompts
  WaiterHasRecord
  RecordIsLive
\* when all runs have ended there is nothing left to do
CHECK_DEADLOCK FALSE
