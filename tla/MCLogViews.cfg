SPECIFICATION MCSpec
CONSTANTS
    Load = {l1, l2}
    File = {"buffer", "keys"}
    Window = 2
    Prompts = 2
    Skew = 1
    MaxRecords = 3
    MaxRotations = 1
    MaxClicks = 1
INVARIANT ReportComplete
PROPERTY PageShowsTab
