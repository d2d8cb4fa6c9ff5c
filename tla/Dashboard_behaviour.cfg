SPECIFICATION Spec
CONSTANTS
    Views = {"card"}
    IndexedLater = {"card"}
    Panels = {}
    Selections = {"week", "month"}
    StartSelection = "week"
    Evidence <- MCEvidence
    MaxPolls = 1
    Budgets <- MCBudgets
    Ranked = {"m", "n"}
    Targets = {"root", "rates:add", "diagnostic:codex"}
    Rates = {"r1", "r2"}
    Connectors = {"c"}
    MaxChanges = 2
    MaxLosses = 1
    Providers <- MCProviders
    ProviderIds = {"codex", "claude-code", "opencode-go", "grok", "antigravity", "cursor", "zed", "amp"}
    Indexes <- MCIndexes
    Connections <- MCConnections
    NameRank <- MCNameRank
    Totals = {0, 3, 8, 9}
    Width = 4
INVARIANTS
    SelectionIsShown
    RecoveryIsOnce
    RefreshIsShown
    
    FocusIsInFront
    ListsAreShown
    CardsAreComplete
PROPERTIES
    ZoomAndDragKeepThePlace
CHECK_DEADLOCK FALSE
