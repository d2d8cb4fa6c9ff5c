SPECIFICATION FairSpec
CONSTANTS
    k1 = k1
    k2 = k2
    sched = sched
    c1 = c1
    Connectors <- MCConnectors
    Order <- MCOrder
    Callers <- OneCaller
    Scheduler = sched
    MaxFailures = 1
    MaxWrites = 1
INVARIANTS
    HealthRecordsAgree
    NoFailureIsForgotten
PROPERTIES
    RefreshSettles
    RebuildsCollectAfresh
