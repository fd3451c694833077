CONSTANTS
    t1 = t1
    t2 = t2
    t3 = t3
    t4 = t4
    Tokens = {t1, t2, t3, t4}
    Requests <- MCRequests
    Modes = {"strict", "relaxed"}
    MaxChanges = 1
SPECIFICATION Spec
INVARIANTS
    ExclusiveOwners
    IndexIsExact
    OverlapDisclosed
    NoIdleWaiter
PROPERTIES
    OrderKept
    OneGeneration
SYMMETRY Symmetric
