SPECIFICATION FairSpec
CONSTANTS
    n1 = n1
    n2 = n2
    None = None
    Name <- TwoNames
    Remote = {TRUE, FALSE}
    May <- Everything
    MaxEvents = 5
    MaxRenames = 2
    MaxQueues = 4
INVARIANTS OneAtATime QueueServed
PROPERTIES HandledInOrder EventuallyTaken
CHECK_DEADLOCK FALSE
