SPECIFICATION Spec
CHECK_DEADLOCK FALSE
INVARIANTS
  TypeOK
  SignalsHitTarget
  PurposeMet
  ReportsAsLabelled
PROPERTY ProgramsEnd
