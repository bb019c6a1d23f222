SPECIFICATION FairSpec
CONSTANTS
  Nobody = Nobody
  Thread <- ThreeThreads
  Methods <- AllMethods
  thread_count = 3
  bank_transactions_per_thread = 2
  Start = 1
  Net = 1
  UIntModulus = 1000
INVARIANTS
  MutualExclusion
  NoStaleBalance
  RaceBounds
PROPERTIES
  Termination
  ImplementsMutex
