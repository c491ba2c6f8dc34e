SPECIFICATION FairSpec
CONSTANTS
    Workers = {w1, w2, w3}
    Capacity = 1
    MaxTasks = 3
INVARIANTS
    TerminationMeansDone
PROPERTIES
    EveryoneTerminates
