SPECIFICATION Spec
CONSTANTS
  RingWords = 8
  Refresh = 2
  MaxLost = 2
CHECK_DEADLOCK FALSE
INVARIANT SiblingsEnabled
