\* The gauge against its documentation: a rejected push leaves it at 0.
SPECIFICATION Spec
CONSTANTS
  d1 = d1
  d2 = d2
  bad = bad
  o1 = o1
  o2 = o2
  Documents <- MCDocuments
  Decodable <- MCDocuments
  Valid <- MCValid
  Initial = d1
  Resources = {redis}
  Probing = {redis}
  Options <- MCOptions
  Handles = {h1, h2, h3}
  Project <- MCProject
  Watch = watch
  None = None
INVARIANTS
  GaugeCoversLatestPush
CHECK_DEADLOCK FALSE
