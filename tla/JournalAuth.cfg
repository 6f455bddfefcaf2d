\* The authenticated journal on a device that caches writes and may fail them.
SPECIFICATION Spec
CONSTANTS
    Targets = {t1}
    Values = {v0, v1}
    NoValue = NoValue
    InitialValue = v0
    RingSize = 4
    MaxRefs = 1
    Auth = TRUE
    DeviceCache = TRUE
    MaxSequence = 3
    MaxCrashes = 1
    MaxErrors = 1
SYMMETRY Symmetry
INVARIANTS
    AppliesOnlyIssued
