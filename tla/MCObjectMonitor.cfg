SPECIFICATION FairSpec
CONSTANTS
    NULL = NULL
    Threads = {t1, t2}
    Compiled = {t1}
    Spinners = {t2}
    Recursive = {t2}
    Waiters = {t2}
    TimedWaiters = {t2}
    Notifiers = {t1}
    Interruptible = {t2}
    Suspendable = {t2}
INVARIANTS
    SleepersAccounted
PROPERTIES
    IsAMonitor
    FreeLockIsTaken
    InterruptedWaiterLeaves
