\* What an update promises: refinement of ABUpdate, and liveness.
SPECIFICATION FairSpec
CONSTANTS
    Images = {i1, i2, i3}
    NoImage = NoImage
    Clients = {c1}
    NoClient = NoClient
    PaySectors = 1
    GenMax = 40
    TornWrites = FALSE
    MaxFaults = 3
    LastStageGen = 8
PROPERTIES
    ImplementsPromise
    AlwaysBoots
    AttemptSettles
