SPECIFICATION MCSpec
CONSTANTS
    Sources <- TelemetryOnly
    InstantsPerDay = 2
    Term = 2
    MaxTime = 4
    LastDay = 3
    MaxRows = 1
    MaxTotal = 2
    Files = {"first", "second"}
    FileOrder <- Ordered
    Scripts <- AgentScripts
    CustomModels <- Configured
    FamilyOf <- GrokFamilies
    OfficialModels = {"grok-4"}
    Readers = {"r1", "r2"}
    MaxReads = 2
    MaxEvents = 2
    LastCutoff = 1
PROPERTIES
    CompactionsLoseNothing
