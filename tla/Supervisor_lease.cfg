\* Two requests at the process that created the session, one at another; processes die
\* before the clock ticks, leases expire, and the surviving process is asked again and again.
SPECIFICATION FairSpec
CONSTANTS
    p1 = p1  p2 = p2  g1 = g1  g2 = g2  g3 = g3
    NoFile = NoFile  Empty = Empty  Garbled = Garbled
    Creator = p1
    Process = {p1, p2}
    Request = {g1, g2, g3}
    Home <- MostAtCreator
    TTL = 1
    Horizon = 0
    MaxAsks = 3
    MaxTime = 2
INVARIANTS
    TypeOK
    OneProcessRunsInTime
    OneTurnPerProcess
    CancelReachesTurn
PROPERTY Takeover
\* Every process may have crashed.
CHECK_DEADLOCK FALSE
