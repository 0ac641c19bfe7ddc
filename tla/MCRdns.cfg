SPECIFICATION Spec
CONSTANTS
    IP = {a, b}
    Peers = {a}
    Worker = {w1, w2}
    None = None
    CacheCap = 1
    QueueCap = 1
INVARIANTS TypeOK InflightExact CacheConsistent NeverBlocks
PROPERTIES KeepsPromise InflightClears PeersGetNamed
