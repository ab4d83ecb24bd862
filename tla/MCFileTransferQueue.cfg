\* Two files in the queue of a peer that accepts them; two connections, a cancel or retry.
SPECIFICATION Spec
CONSTANTS
  Files = {f1, f2}
  N = 1
  MaxRetries = 1
  OutEvery = 1
  InEvery = 1
  Policies = {"auto"}
  Limiting = FALSE
  MaxConns = 2
  MaxCrashes = 0
  MaxUser = 1
  MaxFaults = 0
  MaxRequests = 9
INVARIANTS OneActive SlotIsUsed
PROPERTY Settles
CHECK_DEADLOCK FALSE
