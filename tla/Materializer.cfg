SPECIFICATION FairSpec
CONSTANTS
    Artifacts = {hub1, hub2, anchored}
    Anchored = {anchored}
    Files = {weights, tokenizer}
    MaxNumber = 2
    MaxFailures = 2
    MaxFaults = 1
    hub1 = hub1
    hub2 = hub2
    anchored = anchored
    weights = weights
    tokenizer = tokenizer
    Environments <- ShortAndLong
INVARIANTS
    TypeOK
    CompleteUnpruned
    AttemptKeepsDir
PROPERTIES
    BackoffHonored
    NumbersRise
    AbandonedEnds
