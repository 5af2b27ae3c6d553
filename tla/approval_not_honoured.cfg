\* A high-value proposal, first without and then with a valid approval.
CONSTANTS
  Peers = {}
  Submissions <- Reviewed
  HighValue = 500
  RateLimit = 1
  Window = 1
  MaxTime = 0
  MaxEvaluations = 3
SPECIFICATION Spec
INVARIANT ValidApprovalIsHonoured
CHECK_DEADLOCK FALSE
