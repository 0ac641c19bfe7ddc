SPECIFICATION MCSpec
CONSTANTS
    Conn = {c4, c6}
    Conn6 = {c6}
    None = None
    Blind = Blind
    MaxRows = 1
    Interval = 1
    MaxDump = 1
    MaxTime = 3
    MaxFails = 2
    MaxPanics = 1
INVARIANTS TypeOK RatesAreHonest
PROPERTIES KeepsMeter OpenIsShown
