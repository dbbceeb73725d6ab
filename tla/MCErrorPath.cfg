\* Every driver error, handler and way up through two interceptors.
SPECIFICATION Spec
CONSTANTS
  Codes = {"unique", "canceled"}
  Reasons = {"CART_EMPTY"}
  MaxLength = 5
  MaxInterceptors = 2
INVARIANTS
  OriginIsInnermost
  ClientLearnsReason
  MappingDecidesReason
  CauseKeptOrHidden
  VerdictStays
CHECK_DEADLOCK FALSE
