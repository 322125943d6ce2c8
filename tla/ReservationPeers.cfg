SPECIFICATION Spec
CONSTANTS
    Attempts = {a1, a2}
    a1 = a1
    a2 = a2
    Size = 2
    High = 5
    Low = 4
    Trees = 2
    Environments <- WithPeers
INVARIANT RoomForAll
