SPECIFICATION FairSpec
CONSTANTS
  Nobody = Nobody
  Spurious = TRUE
  Programs <- AllPrograms
INVARIANTS
  MonitorOrders
  ColourWhole
PROPERTIES
  Ends
