SPECIFICATION FairSpec
CONSTANTS
  Versions <- Both
INVARIANTS
  LeakOnlyInGap
  SemaphoreAlive
PROPERTIES
  Ends
