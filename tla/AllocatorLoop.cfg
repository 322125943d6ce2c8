SPECIFICATION Spec
CONSTANTS
    c1 = c1
    c2 = c2
    p1 = p1
    v1 = v1
    v2 = v2
    Nil = Nil
    Servings = {v1, v2}
    Starts = {c1, c2}
    Stops = {p1}
    MaxFaults = 2
    Allocators = {1, 2}
    Started <- FirstAndNext
    Environments <- Callers
INVARIANTS
    TypeOK
    RegisteredIsCurrent
    ReturnedLeavesNothing
PROPERTIES
    PathKept
    ServedAgain
    StopReturns
CHECK_DEADLOCK FALSE
