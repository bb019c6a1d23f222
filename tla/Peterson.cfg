SPECIFICATION FairSpec
CONSTANTS
  Programs <- AsBuilt
  BufferSize = 2
  AMOUNT = 2
  MaxTransfer = 2
  Nobody = Nobody
INVARIANTS
  MutualExclusion
  MoneyConserved
PROPERTIES
  NoOvertaking
  TransfersComplete
  ImplementsMutex
