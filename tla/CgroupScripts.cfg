SPECIFICATION Spec
CONSTANT MaxRounds = 2
CHECK_DEADLOCK FALSE
INVARIANTS
  TypeOK
  ProcessesAsMeant
  DirsGo
  MachineKept
PROPERTY Settles
