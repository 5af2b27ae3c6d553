\* A timed-out call whose order is paid.
CONSTANTS
  Calls = {c1}
  Requests <- OneTarget
  Handlers = {"api"}
  Adapter = "razorpay"
  EventShapes <- PaidOnly
  MaxAttempts = 2
  MaxEvents = 1
  MaxRestarts = 0
  MaxCancels = 0
SPECIFICATION FairSpec
PROPERTY UnknownIsReconciled
CHECK_DEADLOCK FALSE
