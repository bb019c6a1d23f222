SPECIFICATION FairSpec
CONSTANTS
  Nobody = Nobody
  Spurious = TRUE
  inc1 = inc1
  inc2 = inc2
  Incrementers <- Two
  Watcher = Watcher
  TCOUNT = 3
  COUNT_THRESHOLD = 4
  BONUS = 2
INVARIANTS
  MetIfSignalled
PROPERTIES
  Ends
