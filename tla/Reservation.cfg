SPECIFICATION Spec
CONSTANTS
    Attempts = {a1, a2}
    a1 = a1
    a2 = a2
    Size = 3
    High = 8
    Low = 6
    Trees = 2
    Environments <- Fitting
INVARIANTS
    TypeOK
    RoomForAll
