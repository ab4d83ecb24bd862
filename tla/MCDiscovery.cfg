\* One other device, two hours, one change of its name or port, one tick, one refresh.
SPECIFICATION Spec
CONSTANTS
    Device = {self, p}
    Self = self
    Off = Off
    Capacity = 2
    StaleAfter = 1
    MaxHour = 1
    MaxFace = 1
    MaxTicks = 1
    MaxRefreshes = 1
INVARIANTS TypeOK ListFollowsCache
CHECK_DEADLOCK FALSE
