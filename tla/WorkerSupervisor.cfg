SPECIFICATION FairSpec
CONSTANTS
  Granted = TRUE
  Traces = TRUE
  PipeRoom = 1
  Reports = {"completed"}
CHECK_DEADLOCK FALSE
INVARIANTS
  ReportsAreHonoured
  NothingOutlivesTheLease
PROPERTIES
  SupervisionEnds
  ContainmentEnds
