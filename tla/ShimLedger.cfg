SPECIFICATION Spec
CONSTANTS
    t1 = t1
    t2 = t2
    Pids = {1, 2}
    Thread <- Three
    Keys = {11, 12}
    KeySlots = 2
    ProcessSlots = 2
    MaxBorn = 3
    Environments <- Sound
INVARIANTS
    TypeOK
    HeldWithinFigure
    ChargesExact
PROPERTIES
    RefusedOnlyFull
    WaitsEnd
CHECK_DEADLOCK FALSE
