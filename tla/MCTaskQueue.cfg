SPECIFICATION Spec
CONSTANTS
    h1 = h1
    h2 = h2
    N = 4
    TagRange = 16
    Thieves = {h1, h2}
    MaxPush = 6
    StoreBufferSize = 3
PROPERTIES
    ImplementsTaskDeque
    LocalFailureMeansEmpty
SYMMETRY Alike
