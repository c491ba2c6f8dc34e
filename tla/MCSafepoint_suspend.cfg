SPECIFICATION Spec
CONSTANTS
    JavaThreads = {j1}
    InitialThreads = {j1}
    VMThread = vm
    None = none
    UseMembar = TRUE
    StoreBufferSize = 2
    Critical = {j1}
    Suspendable = {j1}
    Resumable = {j1}
    Mortal = {j1}
INVARIANTS
    CountsAreExact
    FirstSuspensionHolds
PROPERTIES
    StopsTheWorld
