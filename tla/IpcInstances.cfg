SPECIFICATION FairSpec
CONSTANTS
  None = None
  p1 = p1
  p2 = p2
  p3 = p3
  t1 = t1
  t2 = t2
  Proc <- ThreeProcs
  Thread <- TwoThreads
  Rounds = 1
  Builds <- AllBuilds
INVARIANTS
  ThreadsExclude
  NameWindow
PROPERTIES
  Finishes
