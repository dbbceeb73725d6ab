\* Registration and heartbeat: two concurrent Shutdowns, late requests, crash.
SPECIFICATION FairSpec
CONSTANTS
  Callers = {c1, c2}
  RetryBase = 0
  RetryMax = 3
  DefaultBase = 1
  AttemptCap = 3
  MaxLate = 1
  MaxForgets = 1
INVARIANTS
  JoinsBeforeDeregister
  CleanShutdown
  RoutableNeedsHeartbeat
  BackoffIsExponential
PROPERTIES
  StaysDiscoverable
  ShutdownReturns
  GoneForGood
CHECK_DEADLOCK FALSE
