CONSTANTS
    None = None
    Configs <- MCConfigs
    Samples <- MCSamples
    Cooldown = 2
    Senders = {c1, c2, b1, b2}
    Bulk = {b1, b2}
    Entries = {e1}
    Hosts = {h1, h2}
    Budget = 2
    Lease = 1
    Backoff = 1
    Retention = 3
    d1 = d1
    NoId = None
    Devices = {d1}
    Ids <- MCIds
    Device <- MCDevice
    Slots = 1
    Prefetch = 2
SPECIFICATION MCSpec
INVARIANTS
    NoLostHandOff
    WithinBudget
PROPERTIES
    SlowReturn
    Reopens
    ControlServed
    CommittedIsTrue
    EverySettles
    EveryRowTried
CHECK_DEADLOCK FALSE
