\* Two files and the goroutines of both; a limit of one request, and one step of its window;
\* one click; one lost connection, restart of the receiver or run given up.
SPECIFICATION Spec
CONSTANTS
    None = None
    Task = {t1, t2}
    FileCount = 2
    Limit = 1
    MaxClicks = 1
    MaxFaults = 1
    MaxWindows = 1
SYMMETRY Symmetry
INVARIANTS TypeOK EnvelopeAgrees RefusedForReason CardFollowsRow
CHECK_DEADLOCK FALSE
