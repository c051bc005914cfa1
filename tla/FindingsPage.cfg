SPECIFICATION DeskSpec
CONSTANTS
    Findings = {1, 2}
    SeverityOf <- MCSeverityOf
    FileOf <- MCFileOf
    AgentOf <- MCAgentOf
    Views <- MCLinked
    ToastLimit = 2
    InitiallyOpen = 1
    MaxCalls = 1
    MaxToasts = 1
INVARIANTS OverviewLeads
