\* Two concurrent calls, every event shape beside an ordinary one, both handlers.
CONSTANTS
  Calls = {c1, c2}
  Requests <- TwoTargets
  Handlers = {"api", "service"}
  Adapter = "razorpay"
  EventShapes <- OddEvents
  MaxAttempts = 2
  MaxEvents = 2
  MaxRestarts = 0
  MaxCancels = 0
SPECIFICATION Spec
SYMMETRY CallSymmetry
CONSTRAINT OneOddEvent
INVARIANTS
  TypeOK
  ConfirmedAtMostOnce
  ConfirmedMoneyWasPaidAndApproved
  AuditIsALegalWalk
PROPERTIES
  FinalStatusIsKept
  NeverBreaksPromise
CHECK_DEADLOCK FALSE
