\* An update that meets a failed write after another lost power half-way.
SPECIFICATION Spec
CONSTANTS
    N = 3
    Deps <- MCDeps
    Big = {}
    Signed = {1, 2}
    Listed = {1, 2}
    MaxVersion = 2
    Budget = 2
    Attempts = 2
    MaxInstalled = 2
    DbCapacity = 1
    CacheCapacity = 2
    MaxIo = 1
    MaxNet = 1
    MaxCuts = 1
    MaxCommands = 2
INVARIANTS
    PayloadSurvives
CHECK_DEADLOCK FALSE
