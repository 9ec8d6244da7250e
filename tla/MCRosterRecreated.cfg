SPECIFICATION RecreateSpec
CONSTANTS
    c1 = c1
    c2 = c2
    Clients <- MCClients
    Versioned <- MCVersioned
    Capacity = 1
    MaxVersion = 1
    MaxSessions = 2
INVARIANT UnchangedMeansCurrent
CHECK_DEADLOCK FALSE
