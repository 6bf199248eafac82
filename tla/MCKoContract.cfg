SPECIFICATION Spec
CONSTANTS
  Table <- BalancedTable
  Exclusive <- MCExclusive
  TextRes <- MCTextRes
  MaxRounds = 2
PROPERTIES
  KeepsContract
