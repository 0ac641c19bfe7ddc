SPECIFICATION Spec
CONSTANTS
    Key = {k1, k2}
    None = None
    MaxFaults <- MCMaxFaults
INVARIANTS SealedKeyFits KeyIsShredded DirsAreEncrypted ActiveIsMounted
PROPERTY NeverReformats
