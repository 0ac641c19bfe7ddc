SPECIFICATION Spec
CONSTANTS
    Session = {b1, b2, z}
    Bash = {b1, b2}
    Text = {ls, id}
    IgnoreDups = {b2}
    EraseDups = {b2}
    MaxCmds = 3
    MaxToggles = 2
SYMMETRY Symmetric
CHECK_DEADLOCK FALSE
INVARIANTS LoggedInOrder NothingLost ForeignIsFirst
