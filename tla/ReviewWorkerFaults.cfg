SPECIFICATION Spec
CONSTANTS
    Jobs = {j1, j2}
    Replicas = {r1, r2}
    NoReplica = NoReplica
    Slots = 1
    MaxAttempts = 1
    MaxStalls = 1
    MaxTries = 2
    MaxFaults = 1
    MaxCrashes = 1
    PageSize = 1
    MaxChatter = 1
    LostReplies = TRUE
    Inline = TRUE
SYMMETRY Symmetry
INVARIANTS TypeOK CommentsBounded RecordsAgree
