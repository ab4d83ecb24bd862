\* The queue: two messages over a limit of one, histories cleared.
SPECIFICATION FairSpec
CONSTANTS
  Messages = {m1, m2}
  MaxConns = 1
  MaxQueued = 1
  MaxBytes = 3
  Size <- UnitSize
  Skew = 0
  QueueAge = 1
  SeenRetention = 2
  MaxClock = 0
  MaxCrashes = 0
  Clearing = TRUE
  Rekeying = FALSE
INVARIANTS QueueBounded
PROPERTY DrainEmptiesQueue
CHECK_DEADLOCK FALSE
