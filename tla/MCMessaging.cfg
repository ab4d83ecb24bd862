\* Delivery: one message, two connections, a crash at any point, rekeys.
SPECIFICATION Spec
CONSTANTS
  Messages = {m1}
  MaxConns = 2
  MaxQueued = 1
  MaxBytes = 3
  Size <- UnitSize
  Skew = 0
  QueueAge = 1
  SeenRetention = 2
  MaxClock = 3
  MaxCrashes = 1
  Clearing = FALSE
  Rekeying = TRUE
INVARIANTS TypeOK DeliveredWasStored AtMostOnce NoDuplicateTransmission
CHECK_DEADLOCK FALSE
