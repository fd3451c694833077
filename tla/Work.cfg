CONSTANTS
    None = None
    Items = {i1, i2}
    Ops = {o1, o2}
    MaxAttempts = 2
    LeaseTicks = 1
    Duration = 2
SPECIFICATION Spec
INVARIANTS
    EffectsOnce
    SuccessIsTrue
    NoSilentWork
SYMMETRY Symmetric
