\* Fork, exec, exit, wait, kill, sleep and the sweep under timer ticks.  The
\* machine may really stop: ProcessStuck.cfg.
SPECIFICATION Spec
CONSTANTS
    NT = 3
    NP = 3
    Timer = TRUE
    WaitAny = FALSE
INVARIANTS
    
    SpacesSound
    WaitNamed
    ListsSound
PROPERTIES
    OwnThreadsSuffice
CHECK_DEADLOCK FALSE
