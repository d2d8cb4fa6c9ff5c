SPECIFICATION MCSpec
CONSTANTS
    Sources <- AllSources
    InstantsPerDay = 2
    Term = 2
    MaxTime = 3
    LastDay = 3
    MaxRows = 1
    MaxTotal = 2
    Files = {"first", "second"}
    FileOrder <- Ordered
    Scripts <- AgentScripts
    CustomModels <- Configured
    FamilyOf <- GrokFamilies
    OfficialModels = {"grok-4"}
    Readers = {"r1", "r2"}
    MaxReads = 2
    MaxEvents = 2
    LastCutoff = 1
INVARIANTS
    CompleteAnswersTellTheFiles
    RowsAreCountedOnce
    OverlapsAreReconciled
PROPERTIES
    RowsLeaveIntoTheirAggregate
    UsageDropsOnlyWithItsHistory
