SPECIFICATION Spec
CONSTANTS
    Player = {p1}
    Server = {s1}
    None = None
    Home <- HomeOf
    May <- Missing
    MaxLives = 3
    MaxFire = 4
    MaxQueue = 4
INVARIANTS KilledOnce HitsCount Watched
CHECK_DEADLOCK FALSE
