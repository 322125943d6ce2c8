CONSTANTS
    Hex = {h1}
    Target = {t1}
    NoTree = NoTree
    Trashed = Trashed
    MaxCrashes = 0
SPECIFICATION Spec
INVARIANT NoUnseenMount
