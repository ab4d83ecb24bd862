\* One file of two chunks under every policy; two connections, a restart, a cancel or retry, a race lost.
SPECIFICATION Spec
CONSTANTS
  Files = {f1}
  N = 2
  MaxRetries = 2
  OutEvery = 1
  InEvery = 2
  Policies = {"auto", "ask", "refuse"}
  Limiting = TRUE
  MaxConns = 2
  MaxCrashes = 1
  MaxUser = 1
  MaxFaults = 1
  MaxRequests = 6
INVARIANTS TypeOK CompleteIsDelivered SkippedIsOnDisk ResumeIsOnDisk
PROPERTIES FinishedStays
CHECK_DEADLOCK FALSE
