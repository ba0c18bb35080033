SPECIFICATION FairSpec
CONSTANTS
    a1 = a1
    Master = Master
    None = None
    Agent <- OneAgent
    May <- Deaths
    MaxProxies = 5
    MaxFaults = 2
PROPERTIES NodeRegistered NodeForgotten NeverLost
CHECK_DEADLOCK FALSE
