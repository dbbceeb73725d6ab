\* One pool and one probed client, two option sets: failed and successful
\* rebuilds, drains and OnStop in every order.
SPECIFICATION Spec
CONSTANTS
  pg = pg
  redis = redis
  Resources <- MCResources
  Probing <- MCProbing
  Options = {o1, o2}
  Handles = {h1, h2, h3, h4}
  None = None
SYMMETRY Symmetry
INVARIANTS
  VisibleWorks
  NoOrphan
  Exclusive
PROPERTIES
  SwapsHandOver
CHECK_DEADLOCK FALSE
