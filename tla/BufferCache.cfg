\* Two buffers for three blocks on two devices.
SPECIFICATION Spec
CONSTANTS
    b1 = b1
    b2 = b2
    b3 = b3
    d1 = d1
    d2 = d2
    Slots = {1, 2}
    Blocks = {b1, b2, b3}
    Devices = {d1, d2}
    DevOf <- MCDevOf
    Values = {v1, v2}
    Holders = {h1, h2}
    NoBlock = NoBlock
    NoSlot = NoSlot
SYMMETRY Symmetry
INVARIANTS
    LruSound
    SyncedSurvives
    Coherent
