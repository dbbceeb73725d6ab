\* config.Live: two concurrent setters, two subscriptions, all the
\* interleavings of Set with Subscribe, cancel and rejected pushes.
SPECIFICATION FairSpec
CONSTANTS
  d1 = d1
  d2 = d2
  bad = bad
  Documents <- MCDocuments
  Decodable <- MCDocuments
  Valid <- MCAccepted
  Initial = d1
  Writers = {w1, w2}
  Subscribers = {s1, s2}
  None = None
INVARIANTS
  CallbackSeesPublished
  NoMissedUpdate
  ChainedUpdates
  AtMostOneLateCall
PROPERTIES
  SetReturns
