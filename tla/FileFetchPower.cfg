SPECIFICATION Spec
CONSTANTS
    Size = 4
    Window = 2
    PeerInterval = 2
    Environments <- PeerPower
INVARIANT VerifiedIsGood
