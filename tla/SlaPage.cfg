SPECIFICATION BrowserSpec
CONSTANTS
    FindingsIn <- MCFindingsIn
    CostOf <- MCCostOf
    TookOf <- MCTookOf
    PlaceOf <- MCPlaceOf
    AgeOf <- MCAgeOf
    OpenOf <- MCOpenOf
    DefaultPolicy <- MCDefaultPolicy
    ReportLimit = 2
    ListLimit = 2
    RecentLimit = 2
    Routes <- MCRoutes
    LettersOfPage <- MCLettersOfPage
    LettersOfReview <- MCLettersOfReview
    Begins <- MCBegins
    Typed <- MCTyped
    Bookmarks <- MCBookmarks
    FirstFleet <- MCFirstFleet
    MaxClicks = 3
    MaxChanges = 2
INVARIANTS PagesRender
