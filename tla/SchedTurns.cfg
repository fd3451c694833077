CONSTANTS
    t1 = t1
    t2 = t2
    t3 = t3
    Tokens = {t1, t2, t3}
    Kinds <- TurnKinds
    Conversions <- None
    LocalRequests <- None
    Modes = {FALSE}
    Limits = {1}
    MayPause = FALSE
    ReadLimit = 1
    RemoteLimit = 2
    TargetLimit = 1
    ProjectLimit <- Cap
    MaxWaiting = 3
SPECIFICATION FairSpec
PROPERTIES
    ProjectsRotate
CHECK_DEADLOCK FALSE
