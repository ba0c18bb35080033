SPECIFICATION ListSpec
CONSTANTS
    m1 = m1
    m2 = m2
    m3 = m3
    t1 = t1
    t2 = t2
    Nil = Nil
    Name <- ThreeMissions
    Task <- TwoTasks
    MayHappen <- Orderly
    MaxOrders = 3
    MaxStops = 1
SYMMETRY Alike
INVARIANTS ListIsWanted
PROPERTY StartsWhatWasAsked
CHECK_DEADLOCK FALSE
