SPECIFICATION PoolSpec
CONSTANTS
    t1 = t1
    t2 = t2
    h1 = h1
    h2 = h2
    k1 = k1
    k2 = k2
    k3 = k3
    None = None
    Threads <- TwoThreads
    Hosts <- TwoHosts
    Schemes <- BothSchemes
    Own = "https"
    Conns <- ThreeConns
    StaleDuration = 0
    CleanInterval = 0
    NumRetries = 1
INVARIANTS
    PoolTypeOK
    ExclusiveUse
    RightHost
PROPERTIES
    NotTimedOut
    PoolGrowsWhenBusy
SYMMETRY PoolSymmetry
