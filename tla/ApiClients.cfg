SPECIFICATION Spec
CONSTANTS
    d1 = d1
    d2 = d2
    d3 = d3
    d4 = d4
    Deliveries = {d1, d2, d3, d4}
    EventOf <- MCEventOf
    RepoOf <- MCRepoOf
    Capacity = 2
    Queries <- MCQueries
    Unset = Unset
    None = None
    BucketSize = 2
    Buckets = 2
    MaxPuts = 4
    MaxRows = 3
    MaxLeft = 3
    PageSize = 1
    Wanted = {"all", "running", "completed", "failed"}
    MergeGap = 2
    MaxChars = 10
    DedupRadius = 2
    MergeRadius = 3
    Region = 10
    HotspotWindow = 5
    ExportCap = 2
    TopCut = 8
    MaxRuns = 2
    MaxTriage = 2
    Outcomes <- MCOutcomes
    NameOrder <- MCNameOrder
    DigestQueries <- MCDigestQueries
    ReportQueries <- MCReportQueries
    CommandLines <- MCCommandLines
    Builtin <- MCBuiltin
    Directories <- MCDirectories
    Requests <- MCRequests
    Findings = {1, 2}
    SeverityOf <- MCSeverityOf
    FileOf <- MCFileOf
    AgentOf <- MCAgentOf
    Views <- MCViews
    ToastLimit = 2
    InitiallyOpen = 1
    MaxCalls = 2
    MaxToasts = 3
    FindingsIn <- MCFindingsIn
    CostOf <- MCCostOf
    TookOf <- MCTookOf
    PlaceOf <- MCPlaceOf
    AgeOf <- MCAgeOf
    OpenOf <- MCOpenOf
    DefaultPolicy <- MCDefaultPolicy
    ReportLimit = 2
    ListLimit = 2
    RecentLimit = 2
    Routes <- MCRoutes
    LettersOfPage <- MCLettersOfPage
    LettersOfReview <- MCLettersOfReview
    Begins <- MCBegins
    Typed <- MCTyped
    Bookmarks <- MCBookmarks
    FirstFleet <- MCFirstFleet
    MaxClicks = 3
    MaxChanges = 2
INVARIANTS
    TypeOK
    WalkIsFaithful
    StatsAgree
    MissesBounded
    ReadsAgree
    TellsTruth
    ChainsResolve
    DashboardIsTrue
