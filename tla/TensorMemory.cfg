CONSTANTS
    Handles = {h1, h2}
    Sizes = {1, 5}
    Blocks = 3
    Threads = 2
    MaxBlocks = 1
    VecWidth = 2
    MaxOps = 4
    None = None

SPECIFICATION Spec

INVARIANTS
    TypeOK
    QueueDelivers
    HostReadsAsCalled
