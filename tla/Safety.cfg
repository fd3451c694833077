CONSTANTS
    None = None
    Nothing = Nothing
    Keys = {k1, k2, k3}
    Rows = {f1, f2}
    Readers = {r1, r2}
    Passes = 2
    Writes = 1
    Uploads = {u1, u2}
    Paths = {p1}
    Size = 2
    Capacity = 5
    Active = 2
    d1 = d1
    d2 = d2
    NoId = NoId
    Devices <- MCDevices
    Ids <- MCIds
    Device <- MCDevice
    Slots = 2
    Prefetch = 2
SPECIFICATION MCSpec
INVARIANTS
    Readable
    Resumable
    Retired
    ReadsAreSound
    AcknowledgedKept
    PublishedOnce
    SpaceReserved
    LeasesBalance
    SentInOrder
CHECK_DEADLOCK FALSE
