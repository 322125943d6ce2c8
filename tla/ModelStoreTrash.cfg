CONSTANTS
    Hex = {h1}
    Target = {t1}
    NoTree = NoTree
    Trashed = Trashed
    MaxCrashes = 2
SPECIFICATION Spec
INVARIANT OnlyTrashLeft
