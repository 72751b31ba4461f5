\* A cancelled turn ends, whatever fails.
SPECIFICATION FairSpec
CONSTANTS
    t1 = t1  t2 = t2  c1 = c1  c2 = c2
    Turn = {t1, t2}
    NoTurn = NoTurn
    Connection = {c1, c2}
    Owner <- OwnConnections
    Fault = {"lookup", "record", "append", "read", "gone"}
    MaxDeltas = 1
    MaxTroubles <- OneOfEach
PROPERTIES
    CancelEndsTurn
    RecordedCancelAnnounced
CHECK_DEADLOCK FALSE
