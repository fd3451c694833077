CONSTANTS
    o1 = o1
    Ops = {o1}
    Reads = {o1}
    Processes = {}
    Revocable = {}
    Expirable = {}
    MaxInterruptedReads = 2
    Prefetch = 2
    MaxConnections = 3
    MaxJournals = 1
    MaxDown = 1
    MaxUp = 1
    MaxCopies = 1
SPECIFICATION FairSpec
CHECK_DEADLOCK FALSE
INVARIANTS
    ExecutionBound
PROPERTIES
    Concludes
    OutboxDrains
