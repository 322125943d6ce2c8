SPECIFICATION FairSpec
CONSTANTS
    Size = 4
    Window = 2
    PeerInterval = 2
    Environments <- Sound
INVARIANTS
    TypeOK
    VerifiedIsGood
    CheckpointsTrue
    CountExact
    WindowHeld
PROPERTIES
    TryEnds
