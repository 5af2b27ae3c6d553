\* Three calls of one proposal under two keys, a restart and a cancelled call.
CONSTANTS
  Calls = {c1, c2, c3}
  Requests <- SuppliedKey
  Handlers = {"api"}
  Adapter = "mock"
  EventShapes <- PaidAndFailed
  MaxAttempts = 2
  MaxEvents = 1
  MaxRestarts = 1
  MaxCancels = 1
SPECIFICATION Spec
SYMMETRY CallSymmetry
INVARIANTS
  AtMostOneDispatchPerKey
  LockLedger
  RecordBelongsToItsExecution
CHECK_DEADLOCK FALSE
