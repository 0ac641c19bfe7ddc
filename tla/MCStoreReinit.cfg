SPECIFICATION Spec
CONSTANTS
    Key = {k1, k2}
    None = None
    MaxFaults <- MCOnlyClear
PROPERTY ReinitMakesStore
