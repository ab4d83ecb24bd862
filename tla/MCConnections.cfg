\* Two devices, two connections, a loss or a restart, and two acts of users or discovery.
SPECIFICATION Spec
CONSTANTS
    Device = {a, b}
    Conn = {1, 2}
    Worker = {w1, w2}
    Key = {k1, k2}
    None = None
    MaxAttempts = 2
    MaxActs = 2
    MaxFaults = 1
INVARIANTS TypeOK NoOrphan LostIsPursued
PROPERTIES IsSession
SYMMETRY Symmetric
CHECK_DEADLOCK FALSE
