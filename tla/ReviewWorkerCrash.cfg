SPECIFICATION FairSpec
CONSTANTS
    Jobs = {j1, j2}
    Replicas = {r1}
    NoReplica = NoReplica
    Slots = 2
    MaxAttempts = 2
    MaxStalls = 1
    MaxTries = 2
    MaxFaults = 0
    MaxCrashes = 1
    PageSize = 1
    MaxChatter = 0
    LostReplies = TRUE
    Inline = FALSE
INVARIANTS StrandedBounded CompletedIsPosted RunsBounded
PROPERTIES EveryJobSettles ImplementsAdapter
