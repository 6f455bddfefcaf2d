\* An abort after a copy cut short between its two writes.
SPECIFICATION Spec
CONSTANTS
    N = 6
    Raw = 8
    MaxStages = 3
    MaxFaults = 4
INVARIANT Recoverable
