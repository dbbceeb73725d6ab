\* An agent that takes no time, and one that takes up to two ticks.
SPECIFICATION Spec
CONSTANTS
  TTLs <- MCTTLs
  PingIntervals <- MCPingIntervals
  DefaultPing = 3
  RetryBase = 1
  RetryMax = 3
  RequestTimeout = 4
  Latencies = {0, 2}
INVARIANTS
  NeverExpires
  RecoversInTime
CHECK_DEADLOCK FALSE
