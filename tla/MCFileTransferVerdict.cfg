\* The receiver's file_complete is lost with the connection.
SPECIFICATION Spec
CONSTANTS
  Files = {f1}
  N = 2
  MaxRetries = 2
  OutEvery = 1
  InEvery = 1
  Policies = {"auto"}
  Limiting = FALSE
  MaxConns = 2
  MaxCrashes = 0
  MaxUser = 0
  MaxFaults = 0
  MaxRequests = 4
INVARIANT FailedIsNotDelivered
CHECK_DEADLOCK FALSE
