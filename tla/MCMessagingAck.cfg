\* An ack for a message shows in the conversation as delivered.
SPECIFICATION Spec
CONSTANTS
  Messages = {m1}
  MaxConns = 2
  MaxQueued = 1
  MaxBytes = 3
  Size <- UnitSize
  Skew = 0
  QueueAge = 1
  SeenRetention = 2
  MaxClock = 3
  MaxCrashes = 0
  Clearing = FALSE
  Rekeying = FALSE
INVARIANT AckedIsDelivered
CHECK_DEADLOCK FALSE
