\* A pool and a probed client: every order of pushes, failures, drains and hooks.
SPECIFICATION FairSpec
CONSTANTS
  d1 = d1
  d2 = d2
  bad = bad
  o1 = o1
  o2 = o2
  Documents <- MCDocuments
  Decodable <- MCDocuments
  Valid <- MCValid
  Initial = d1
  Resources = {pg, redis}
  Probing = {redis}
  Options <- MCOptions
  Handles = {h1, h2, h3}
  Project <- MCProject
  Watch = watch
  None = None
INVARIANTS
  StaleIffBehind
  CleanShutdown
PROPERTIES
  ImplementsContract
  PushSettles
CHECK_DEADLOCK FALSE
