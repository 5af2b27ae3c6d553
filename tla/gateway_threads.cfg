\* Two threads: a contested target and a replay, or a rush of payments at the limit of
\* their customer.
CONSTANTS
  Threads = {h1, h2}
  Submissions <- AllPayments
  Earlier <- Before
  HighValue = 500
  RateLimit = 1
  Window = 0
  MaxTime = 1
  MaxEvaluations = 6
SPECIFICATION ThreadsSpec
SYMMETRY ThreadSymmetry
CONSTRAINT Scenarios
INVARIANTS
  ThreadsTypeOK
  StoresAgree
  LateApprovalsAreBounded
  FreshDecisionsAreBounded
  OvershootIsBounded
CHECK_DEADLOCK FALSE
