CONSTANTS
    t1 = t1
    t2 = t2
    t3 = t3
    Tokens = {t1, t2, t3}
    Kinds <- JointKinds
    Conversions <- JointConversions
    LocalRequests <- JointLocals
    Modes = {TRUE, FALSE}
    Limits = {1, 2}
    MayPause = TRUE
    ReadLimit = 1
    RemoteLimit = 2
    TargetLimit = 1
    ProjectLimit <- Cap
    MaxWaiting = 3
SPECIFICATION Spec
INVARIANTS
    JointOwnership
    NobodyForgotten
SYMMETRY Symmetric
