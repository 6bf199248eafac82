SPECIFICATION Spec
CONSTANTS
  RingWords = 8
  Refresh = 2
  MaxLost = 2
CHECK_DEADLOCK FALSE
INVARIANTS
  TypeOK
  PrintsFinalCounts
  RecordsAsLabelled
  OnlyKnownHarm
PROPERTIES
  OnlyOwnerDisables
  ProgramsEnd
