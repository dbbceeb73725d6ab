\* Set-up that fails anywhere, and two callers of stop at any time.
SPECIFICATION FairSpec
CONSTANTS
  Enabled <- MCEnabled
  RuntimeMetrics = TRUE
  Callers = {c1, c2}
INVARIANTS
  FailedStartLeavesNothing
  ReturnsAfterFlush
PROPERTIES
  StopReturns
CHECK_DEADLOCK FALSE
