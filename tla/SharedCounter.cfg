SPECIFICATION FairSpec
CONSTANTS
  THREADS = 2
  ITERATIONS = 3
  INITIAL_AMOUNT = 4
  MAX_WITHDRAW = 2
  Programs <- AllPrograms
  Nobody = Nobody
INVARIANTS
  LockProtects
  LostDetected
  RaceBounds
PROPERTIES
  Ends
