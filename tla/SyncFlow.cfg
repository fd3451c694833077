CONSTANTS
    Nil = Nil
    Sids = {s1, s2}
    Size = 1
    Packets = 2
    Answers = 1
    Window = 2
    Timeout = 1
    BackoffMax = 2
    PauseMax = 2
    Depth = 1
    Faults = 1
SPECIFICATION FlowFairSpec
INVARIANTS
    NoHotLoop
PROPERTIES
    EverySynced
CHECK_DEADLOCK FALSE
