\* Six blocks, calls cut short at any write and repeated or reversed.
SPECIFICATION FairSpec
CONSTANTS
    N = 6
    Raw = 8
    MaxStages = 3
    MaxFaults = 4
INVARIANTS
    LossNeedsReversal
PROPERTIES
    HeaderIsFinal
    KeepsPromise
    MigrationEnds
