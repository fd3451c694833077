CONSTANTS
    t1 = t1
    t2 = t2
    t3 = t3
    Tokens = {t1, t2, t3}
    Kinds <- GridKinds
    Conversions <- GridConversions
    LocalRequests <- JointLocals
    Modes = {FALSE}
    Limits = {1}
    MayPause = FALSE
    ReadLimit = 1
    RemoteLimit = 1
    TargetLimit = 1
    ProjectLimit <- Cap
    MaxWaiting = 3
SPECIFICATION FairSpec
PROPERTIES
    NoGridlock
