SPECIFICATION FairSpec
CONSTANTS
    j1 = j1
    g1 = g1
    gc = gc
    async = async
    force = force
    print = print
    JavaThreads = {j1}
    OtherThreads = {g1}
    Ops = {gc, async, force, print}
    caller <- MCCaller
    mode <- MCMode
    QueueTurns = 2
    NULL = NULL
INVARIANTS
    ReturnsWhenEvaluated
    EvaluatedOnceWhileLive
    PendingOpsAreScanned
PROPERTIES
    EveryRequestIsServed
    ExitIsSeen
