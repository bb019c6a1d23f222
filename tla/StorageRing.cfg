SPECIFICATION FairSpec
CONSTANTS
  MAX_PRODUCERS = 2
  MAX_CONSUMERS = 2
  MAX_CAPACITY = 2
  ITEMS = 1
  NUMITEMS = 4
  Programs <- AllPrograms
INVARIANTS
  InBounds
  QuitLast
PROPERTIES
  Ends
