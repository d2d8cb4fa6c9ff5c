SPECIFICATION MCFairSpec
CONSTANTS
    c1 = c1
    c2 = c2
    c3 = c3
    Callers <- MCCallers
    LastObservation = 2
    PageSize = 1
    RateCovers <- CustomModels
    OfficialCovers <- OfficialRelease
    Edits = {e1, e2}
    MaxRevision = 2
    MaxRebuilds = 1
    MaxRestarts = 1
    RateIds = {r1, r2}
    MaxRateChanges = 3
    PromptLimit = 2
    PeerClients = {"codex", "grok"}
    MaxNoise = 1
    ScreenAgents = {"claude", "cursor"}
    Meters = {"week", "session"}
    MaxFrames = 3
INVARIANTS
    CostsAreCurrent
    FinishedMeansPriced
    UsageHasItsOnePrice
PROPERTIES
    CallsSettle
    CallsAreCoalesced
    PricingSettles
    ClientReadsEnd
    CompleteScreensAreTold
CHECK_DEADLOCK FALSE
