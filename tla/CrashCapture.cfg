SPECIFICATION FairSpec
CONSTANTS
  None = None
  Threads = {t1, t2}
  Keepers = {}
  Installed <- Nobody
  Crashers = {}
  MaxRuntimes = 2
  MaxInstalls = 2
  MaxSamples = 0
CHECK_DEADLOCK FALSE
INVARIANTS
  HandlerMatchesRuntimes
  SinkIsReclaimed
PROPERTIES
  GateIsReleased
