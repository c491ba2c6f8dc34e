SPECIFICATION Spec
CONSTANTS
    JavaThreads = {j1}
    OtherThreads = {o1}
    VMThread = vm
    NULL = NULL
    LBIT = LBIT
    NoSafepointCheck = {o1}
    Callers = {j1, o1}
    TryLockers = {}
    Waiters = {j1, o1}
    Suspendable = {j1}
    Safepoints = FALSE
    NotifyWhileSnuck = FALSE
    TimedWaiters = {j1}
    NativeMonitorTimeout = TRUE
PROPERTIES
    EveryContenderEnters
