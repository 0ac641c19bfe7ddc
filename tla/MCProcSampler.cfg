SPECIFICATION MCSpec
CONSTANTS
    Pid = {p, q}
    Idle = {q}
    None = None
    MaxRows = 1
    Interval = 1
    Every = 3
    MaxCycle = 1
    MaxTime = 4
    MaxFails = 1
    MaxPanics = 1
INVARIANTS RatesAreHonest GpuIsRecent
PROPERTIES KeepsMeter RunningIsShown
