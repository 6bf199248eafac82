SPECIFICATION FairSpec
CONSTANTS
  Table <- KoTable
  Exclusive <- MCExclusive
  TextRes <- MCTextRes
  MaxRounds = 2
INVARIANTS
  TypeOK
  BalancedRowsAreSound
  PromisesKept
  CensusHolds
  LeakBlocksReload
  UnloadedWhenDone
PROPERTIES
  EveryRoundEnds
