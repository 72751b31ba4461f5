\* A turn at each of two processes, in a time that exceeds the TTL of a lease.
SPECIFICATION Spec
CONSTANTS
    p1 = p1  p2 = p2  g1 = g1  g2 = g2  g3 = g3
    NoFile = NoFile  Empty = Empty  Garbled = Garbled
    Creator = p1
    Process = {p1, p2}
    Request = {g1, g2}
    Home <- OneEach
    TTL = 1
    Horizon = 1
    MaxAsks = 2
    MaxTime = 3
INVARIANT OneProcessRuns
\* Every process may have crashed.
CHECK_DEADLOCK FALSE
