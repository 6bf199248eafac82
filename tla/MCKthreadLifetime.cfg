SPECIFICATION FairSpec
CONSTANTS
  Table <- KthreadTable
  MaxLoads = 2
INVARIANTS
  TypeOK
  RunsMappedCode
  LateStopsAreOfOnceThreads
PROPERTIES
  LoaderReturns
