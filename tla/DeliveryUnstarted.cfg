CONSTANTS
    o1 = o1
    Ops = {o1}
    Reads = {}
    Processes = {}
    Revocable = {}
    Expirable = {}
    MaxInterruptedReads = 2
    Prefetch = 2
    MaxConnections = 2
    MaxJournals = 1
    MaxDown = 2
    MaxUp = 2
    MaxCopies = 2
SPECIFICATION Spec
CHECK_DEADLOCK FALSE
INVARIANTS
    UnstartedMeansNotRun
