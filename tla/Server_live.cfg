CONSTANTS
    p1 = p1
    p2 = p2
    t1 = t1
    t2 = t2
    None = None
    Proc <- TwoProcs
    Task <- TwoTasks
    Actors <- Scheduled
    May <- Troubles
    MaxFaults = 3
    MaxOrders = 0
    MaxDuty = 3
    MaxInbox = 2
SPECIFICATION FairSpec
INVARIANT OneProcess
PROPERTIES RunningInY OfflineInN
CHECK_DEADLOCK FALSE
