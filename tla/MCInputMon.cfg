SPECIFICATION Spec
CONSTANTS
    k1 = k1
    k2 = k2
    n1 = n1
    None = None
    Dev <- MCKeyDev
    KeyDev <- MCKeyDev
    Path = {1}
    ReadEvents = 2
    EvdevBuffer = 2
    MaxKeys <- MCMaxKeys
    MaxCrashes = 1
INVARIANTS PathAttribution RemovedIsFinal PathOwned KeysInOrder NothingSkipped
PROPERTIES NeverDropsLive PluggedAnnounced KeysGetLogged
