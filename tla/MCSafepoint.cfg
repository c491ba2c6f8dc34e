SPECIFICATION FairSpec
CONSTANTS
    JavaThreads = {j1, j2}
    InitialThreads = {j1, j2}
    VMThread = vm
    None = none
    UseMembar = FALSE
    StoreBufferSize = 1
    Critical = {}
    Suspendable = {}
    Resumable = {}
    Mortal = {j1, j2}
PROPERTIES
    StopsTheWorld
    SafepointIsReached
