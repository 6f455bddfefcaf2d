\* Safety with power losses, torn sectors and device errors, up to the last generation.
SPECIFICATION Spec
CONSTANTS
    NoImage = NoImage
    NoClient = NoClient
    Images = {i1, i2, i3}
    Clients = {c1, c2}
    PaySectors = 2
    GenMax = 9
    TornWrites = TRUE
    MaxFaults = 3
    LastStageGen = 9
SYMMETRY Symmetry
INVARIANTS
    TypeOK
    SlotsIntact
    RecordsValid
    AttemptSound
    BetweenOperations
    ArmsOwnImage
    RunningIntact
PROPERTIES
    GenerationMonotonic
