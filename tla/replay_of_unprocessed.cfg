\* An event that is retried after the record was not found.
CONSTANTS
  Calls = {c1}
  Requests <- OneTarget
  Handlers = {"api"}
  Adapter = "razorpay"
  EventShapes <- PaidOnly
  MaxAttempts = 2
  MaxEvents = 1
  MaxRestarts = 0
  MaxCancels = 0
SPECIFICATION Spec
INVARIANT ReplayedEventsWereProcessed
CHECK_DEADLOCK FALSE
