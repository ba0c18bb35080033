SPECIFICATION Spec
CONSTANTS
    Player = {p1, p2}
    Server = {s1}
    Task = {t1, t2, t3}
    None = None
    Payback = TRUE
    Cost = 2
    Kill = 1
    Gift = 2
    MaxPoints = 5
    Start <- Rows
    May <- Nothing
    MaxEvents = 8
    MaxOrders = 3
SYMMETRY Symmetry
INVARIANTS Ledger GiftsArePaid FlightsArePaid
CHECK_DEADLOCK FALSE
