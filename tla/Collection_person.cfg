SPECIFICATION Spec
CONSTANTS
    k1 = k1
    k2 = k2
    sched = sched
    c1 = c1
    Connectors <- MCConnectors
    Order <- MCOrder
    Callers <- OneCaller
    Scheduler = sched
    MaxFailures = 1
    MaxWrites = 0
PROPERTIES
    PeopleGetFreshData
