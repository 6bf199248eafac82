SPECIFICATION Spec
CONSTANTS
  Table <- KoTable
  Exclusive <- MCExclusive
  TextRes <- MCTextRes
  MaxRounds = 2
INVARIANTS
  FailureReportIsTrue
