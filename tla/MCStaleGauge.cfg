SPECIFICATION GaugeSpec
CONSTANTS
  Components = {"pgpool", "redisclient", "other"}
INVARIANTS
  CompleteAndTrue
  RegisteredIsExported
CHECK_DEADLOCK FALSE
