CONSTANTS
    Hex = {h1}
    Target = {t1, t2}
    NoTree = NoTree
    Trashed = Trashed
    MaxCrashes = 1
SPECIFICATION FairSpec
PROPERTY CallsAnswered
