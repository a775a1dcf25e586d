SPECIFICATION FairSpec
CONSTANTS
  Callers = {c1}
  Kids = {k1, k2, k3}
  Sketches = {s1}
  SketchOf <- SameSketch
  RuntimeOf <- OneRuntime
  None = None
  MaxRegs = 4
  MaxRoots = 1
  MaxMemories = 1
  MaxThreads = 2
  Slices = 3
  MaxGuestThreads = 3
  MaxRuns = 1
  MayAbandon = TRUE
  Reasons = {"deadline"}
CHECK_DEADLOCK FALSE
INVARIANTS
  ChildrenAreCounted
  NoChildOutlivesItsRoot
PROPERTIES
  EveryRootEnds
