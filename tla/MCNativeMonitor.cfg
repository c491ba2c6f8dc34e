SPECIFICATION Spec
CONSTANTS
    JavaThreads = {j1, j2}
    OtherThreads = {}
    VMThread = vm
    NULL = NULL
    LBIT = LBIT
    NoSafepointCheck = {}
    Callers = {j1, j2, vm}
    TryLockers = {vm}
    Waiters = {j1}
    Suspendable = {}
    Safepoints = TRUE
    NotifyWhileSnuck = FALSE
    TimedWaiters = {j1}
    NativeMonitorTimeout = FALSE
INVARIANTS
    QueuesAccounted
    MutualExclusion
    NoStrandedThread
PROPERTIES
    ImplementsAbstractMonitor
