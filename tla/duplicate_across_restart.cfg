\* One proposal resubmitted after a restart.
CONSTANTS
  Calls = {c1, c2}
  Requests <- OneTarget
  Handlers = {"api"}
  Adapter = "razorpay"
  EventShapes <- PaidOnly
  MaxAttempts = 2
  MaxEvents = 1
  MaxRestarts = 1
  MaxCancels = 0
SPECIFICATION Spec
INVARIANT NoDuplicateAcrossRestarts
CHECK_DEADLOCK FALSE
