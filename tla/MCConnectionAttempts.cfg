SPECIFICATION DialSpec
CONSTANTS
  Host = "db"
  DefaultHost = "localhost"
INVARIANTS
  FollowsLibpq
  NeverWeaker
CHECK_DEADLOCK FALSE
