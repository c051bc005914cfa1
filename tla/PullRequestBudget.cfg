SPECIFICATION Spec
CONSTANTS
    Garbled = Garbled
    Throws = Throws
    NotYet = NotYet
    TaskTokens = 1
    MergeGap = 3
    MaxChars = 10
    DedupRadius = 2
    MergeRadius = 3
    Region = 10
    HotspotWindow = 5
    ExportCap = 2
    Pushes = 1
    Diff <- MCDiff
    Configs <- MCConfigs
    Agents <- MCAgents
    Skips <- MCSkips
    Replies <- MCReplies
    Concurrency = 2
    Rate = 1
    Limits = {1}
    MaxFaults = 0
    MaxActs = 0
    MaxBudgetOps = 0
INVARIANTS SpendingCounted
