SPECIFICATION Spec
CONSTANT MaxRounds = 1
CHECK_DEADLOCK FALSE
INVARIANT V1CheckStops
