CONSTANTS
    n1 = n1
    n2 = n2
    c1 = c1
    c2 = c2
    r1 = r1
    None = None
    Normal = {n1, n2}
    Control = {c1, c2}
    Reads = {r1}
    Burst = 2
SPECIFICATION FairSpec
INVARIANTS
    NobodyDetached
    ClosedIsDrained
PROPERTIES
    EverythingSettles
CHECK_DEADLOCK FALSE
