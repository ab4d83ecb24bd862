\* What the README says of a session that a newer one replaces.
SPECIFICATION Spec
CONSTANTS
    Device = {a, b}
    Conn = {1, 2}
    Worker = {w1, w2}
    Key = {k1, k2}
    None = None
    MaxAttempts = 2
    MaxActs = 2
    MaxFaults = 1
INVARIANTS HandoffKeepsOnline
CHECK_DEADLOCK FALSE
