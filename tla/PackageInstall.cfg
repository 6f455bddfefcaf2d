\* Installs, updates and removals with failing files, downloads and power.
SPECIFICATION FairSpec
CONSTANTS
    N = 3
    Deps <- MCDeps
    Big = {1}
    Signed = {1, 2}
    Listed = {1, 2}
    MaxVersion = 2
    Budget = 2
    Attempts = 2
    MaxInstalled = 2
    DbCapacity = 1
    CacheCapacity = 2
    MaxIo = 1
    MaxNet = 1
    MaxCuts = 1
    MaxCommands = 2
INVARIANTS
    NoUnverified
    Agreement
    OneFaultLosesNothing
    DbSound
PROPERTIES
    DoneMeansActive
    BootstrapCompletes
CHECK_DEADLOCK FALSE
