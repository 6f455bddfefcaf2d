\* The unauthenticated journal on a device that writes through.
SPECIFICATION FairSpec
CONSTANTS
    Targets = {t1, t2}
    Values = {v0, v1}
    NoValue = NoValue
    InitialValue = v0
    RingSize = 7
    MaxRefs = 2
    Auth = FALSE
    DeviceCache = FALSE
    MaxSequence = 4
    MaxCrashes = 2
    MaxErrors = 0
INVARIANTS
    TypeOK
    WalGuarantee
PROPERTIES
    LiveEntriesKept
    ReplayEnds
