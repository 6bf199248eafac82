SPECIFICATION FairSpec
CONSTANTS
  p1 = p1
  p2 = p2
  p3 = p3
  Procs <- MCProcs
  MaxLoads = 2
CHECK_DEADLOCK FALSE
INVARIANTS
  TypeOK
  HandlerRunsMapped
  SwappedNotForgotten
  DamageNeedsTwo
PROPERTY NobodyWaitsForEver
