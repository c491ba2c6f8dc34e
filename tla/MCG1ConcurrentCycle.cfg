SPECIFICATION CycleSpec
CONSTANTS
    GCThreads = {cm, r1}
    VMThread = vm
    CMThread = cm
    MaxSurvivors = 1
    MaxFreed = 1
    MaxSetbacks = 1
    Chunks = 1
INVARIANTS
    InitialMarkStartsClean
    AbortIsNotUndone
    NoMemberRuns
PROPERTIES
    CycleEnds
    SystemGcReturns
    ScanCutShortOnlyByFullGC
CHECK_DEADLOCK FALSE
