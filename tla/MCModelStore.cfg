CONSTANTS
    Hex = {h1, h2}
    Target = {t1, t2}
    NoTree = NoTree
    Trashed = Trashed
    MaxCrashes = 2
SPECIFICATION Spec
SYMMETRY Symmetry
INVARIANTS
    MountedTreeStays
    PublishedWhole
    MountsReferenced
    IndInv
PROPERTIES
    RecoveredBeforeServing
    ImplementsNodeCache
