\* Two targets: one proposed with every action, amount and state the policy tells apart,
\* and one of high value with right and wrong approvals.
CONSTANTS
  Peers = {}
  Submissions <- AllSubmissions
  HighValue = 600
  RateLimit = 1
  Window = 1
  MaxTime = 0
  MaxEvaluations = 3
SPECIFICATION Spec
INVARIANTS
  GatewayTypeOK
  HighValueWasApproved
  DecisionsAreRooted
PROPERTIES
  KeepsLedger
  SuspensionHolds
CHECK_DEADLOCK FALSE
