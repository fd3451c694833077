CONSTANTS
    o1 = o1
    Ops = {o1}
    Reads = {}
    Processes = {o1}
    Revocable = {o1}
    Expirable = {o1}
    MaxInterruptedReads = 2
    Prefetch = 2
    MaxConnections = 2
    MaxJournals = 2
    MaxDown = 1
    MaxUp = 2
    MaxCopies = 2
SPECIFICATION Spec
CHECK_DEADLOCK FALSE
INVARIANTS
    AckedIsStored
    
PROPERTIES
    ImplementsLedger
