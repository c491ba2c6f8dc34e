SPECIFICATION FairSpec
CONSTANTS
    t1 = t1
    t2 = t2
    m1 = m1
    m2 = m2
    m3 = m3
    h1 = h1
    h2 = h2
    NULL = NULL
    Threads = {t1, t2}
    Blocks <- MCBlocks
    Provision = 1
    Hashes = {h1, h2}
    MaxNesting = 2
    Hashers = {t1, t2}
    Waiters = {t2}
    Mortals = {t1}
INVARIANTS
    HashIsStable
    MonitorsAreConserved
    HeldMonitorIsCurrent
PROPERTIES
    IsAMonitor
    InflateReturns
