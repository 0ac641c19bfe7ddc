SPECIFICATION Spec
CONSTANTS
    Browser = {b1, b2}
    Password = {p, q}
    None = None
    Limit = 2
    Lockout = 2
    Life = 1
    MaxAge = 2
    MaxMisses = 1
INVARIANTS CountedFailuresLock DecidedOnce
PROPERTIES LockoutEnds PasswordSettles
