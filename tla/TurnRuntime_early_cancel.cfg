\* A cancel that comes between the registration of a turn and its start.
SPECIFICATION Spec
CONSTANTS
    t1 = t1  t2 = t2  c1 = c1  c2 = c2
    Turn = {t1, t2}
    NoTurn = NoTurn
    Connection = {c1, c2}
    Owner <- OwnConnections
    Fault = {}
    MaxDeltas = 1
    MaxTroubles <- OneCancel
INVARIANTS
    NoActiveTurnAtRest
CHECK_DEADLOCK FALSE
