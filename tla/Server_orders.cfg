CONSTANTS
    p1 = p1
    p2 = p2
    t1 = t1
    t2 = t2
    None = None
    Proc <- TwoProcs
    Task <- TwoTasks
    Actors <- Everybody
    May <- Visits
    MaxFaults = 2
    MaxOrders = 1
    MaxDuty = 2
    MaxInbox = 2
SPECIFICATION Spec
INVARIANTS OneProcess DownMeansDown UpdateAlone
PROPERTIES FlagRestored
CHECK_DEADLOCK FALSE
