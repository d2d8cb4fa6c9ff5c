SPECIFICATION MCSpec
CONSTANTS
    Observations <- MCObservations
    CostRecords <- MCCostRecords
    RateSnapshots <- MCRateSnapshots
    DayLength = 2
    Term = 1
    MaxTime = 4
    MaxRows = 2
    MaxCosts = 2
    Window = 2
    IntervalCount = 2
    ComparisonCurrency = "USD"
    RateTerm = 2
    WallDays = 2
    Windows = {"five-hours", "week"}
    Domains = {"claude", "codex"}
    DomainOf <- MCDomainOf
    Order <- MCOrder
    Percents = {70, 81, 97}
    Period = 2
    FreshFor = 1
    Lookback = 3
    MaxGap = 1
    MinSpan = 1
    MinSamples = 2
    LastTime = 3
    MaxAnswers = 3
    LowAt = 20
    VeryLowAt = 5
    Fall = 20
    FailureLimit = 1
    Connectors <- AllConnectors
    Managed <- ManagedConnectors
    Discoveries <- OneDiscovery
    Calls <- OneCall
    Daemons = {"d1", "d2", "d3"}
    Commands = {"open", "enable", "interval"}
    KindOf <- MCKindOf
    CollectionIntervals = {10}
    MaxFaults = 1
    Accounts <- SomeAccounts
    Requests <- TwoRequests
    Conversations = {"c1", "c2"}
    SprintLimit = 2
    WeekLimit = 3
    MaxTurns = 2
    MaxNow = 2
    MaxChanges = 2
INVARIANTS
    OnlyConsentedIsConnected
CHECK_DEADLOCK FALSE
