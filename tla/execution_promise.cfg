\* The promise of one key and redelivery, under fairness.
CONSTANTS
  Calls = {c1, c2}
  Requests <- OneTarget
  Handlers = {"api", "service"}
  Adapter = "mock"
  EventShapes <- FlawedEvents
  MaxAttempts = 2
  MaxEvents = 2
  MaxRestarts = 0
  MaxCancels = 0
SPECIFICATION FairSpec
PROPERTIES
  KeepsPromise
  EventsAreAcknowledged
CHECK_DEADLOCK FALSE
