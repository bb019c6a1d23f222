SPECIFICATION FairSpec
CONSTANTS
  Nobody = Nobody
  Spurious = TRUE
  quantity = 5
INVARIANTS
  ReturnWindow
PROPERTIES
  HandsOver
  Ends
