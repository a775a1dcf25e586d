SPECIFICATION Spec
CONSTANTS
  Granted = TRUE
  Traces = FALSE
  PipeRoom = 1
  Reports = {"completed"}
CHECK_DEADLOCK FALSE
INVARIANTS
  ReportedOutcomeIsKept
