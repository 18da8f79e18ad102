SPECIFICATION Spec
CONSTANTS
  t1 = t1
  t2 = t2
  Tasks = {t1, t2}
  MaxDepth = 2
  MaxVersions = 4
  Absent = Absent
  Empty = Empty
  Garbage = Garbage
  NoDoc = NoDoc
INVARIANTS
  TypeOK
  UnreadableExplained
  AcknowledgedTitleKept
PROPERTIES
  DeletedStaysGone
  EventuallyReadable
  RefinesUndoHistory
CONSTRAINT Undisturbed
CHECK_DEADLOCK FALSE
