SPECIFICATION Spec
CONSTANTS
    k1 = k1
    k2 = k2
    n1 = n1
    None = None
    Dev <- MCDev
    KeyDev <- MCKeyDev
    Path = {1}
    ReadEvents = 1
    EvdevBuffer = 1
    MaxKeys <- MCOneKey
    MaxCrashes = 0
PROPERTY EveryDeviceDetected
