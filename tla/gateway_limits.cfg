\* Five targets of two customers, and a window that passes.
CONSTANTS
  Peers = {p1, p2, p3, p4}
  Submissions <- Accounts
  HighValue = 500
  RateLimit = 1
  Window = 1
  MaxTime = 2
  MaxEvaluations = 5
SPECIFICATION Spec
SYMMETRY PeerSymmetry
INVARIANT RateLimitIsExact
CHECK_DEADLOCK FALSE
