SPECIFICATION Spec
CONSTANT Dirs <- TwoThenOne
CHECK_DEADLOCK FALSE
INVARIANTS
  TypeOK
  ValuesBelong
