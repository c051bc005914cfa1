SPECIFICATION Spec
CONSTANTS
    opened = opened
    draft = draft
    manual = manual
    head = head
    Deliveries = {opened, draft}
    Reruns = {manual}
    Heads = {head}
    HeadOf <- MCHeadOf
    Malformed = {}
    Filtered = {draft}
    CacheSize = 1
    StoreSize = 2
    MaxAttempts = 2
    LostReplies = TRUE
    MaxSends = 3
    MaxRequests = 1
    MaxFaults = 1
    MaxCrashes = 1
    ManualPause = 1
    Threshold = 2
    Cooldown = 2
INVARIANTS TypeOK DeliveredOnce SwallowedBounded QueuedHasJob AutoPauseEarned
PROPERTIES PauseNotExtended
