SPECIFICATION FairSpec
CONSTANTS
    Threads = {t1, t2, t3}
    None = None
    MaxNesting = 2
    CountRange = 2
INVARIANTS
    LastOutIsAlone
PROPERTIES
    ClearedAfterCollection
    NeedsGCIsServed
