\* A client whose Close cuts off what runs: two operations, two generations
\* of replaced handles.
SPECIFICATION FairSpec
CONSTANTS
  Handles = {h1, h2, h3}
  Operations = {o1, o2}
  DrainTimeout = 2
  Graceful = FALSE
  MaxAge = 4
  None = None
INVARIANTS
  DrainHonoured
PROPERTIES
  ReplacedCloses
CHECK_DEADLOCK FALSE
