SPECIFICATION Spec
CONSTANTS
    A = A
    B = B
    C = C
    a1 = a1
    a2 = a2
    b1 = b1
    c1 = c1
    k1 = k1
    k2 = k2
    Nil = Nil
    None = None
    Pods = {A, B, C}
    Containers = {a1, a2, b1, c1}
    Cards = {k1, k2}
    PodOf <- PodsOf
    Units <- UnitsOf
    Rank <- Order
    Whole = 3
    MaxRestarts = 1
    Environments <- Sound
INVARIANTS
    TypeOK
    OneMode
    SlicedFits
    DurableClaim
PROPERTIES
    ClaimStays
    RefusedGivenBack
    LedgerFollows
    ReservationsEnd
CHECK_DEADLOCK FALSE
