\* Two devices, two connections, two requests of either or both, a removal or a crash.
SPECIFICATION FairSpec
CONSTANTS
    Device = {a, b}
    MaxConns = 2
    MaxAdds = 2
    MaxFaults = 1
INVARIANTS TypeOK StoredWithConsent AcceptedIsMutual
PROPERTY LoopUnblocks
CHECK_DEADLOCK FALSE
