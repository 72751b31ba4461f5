\* Two turns: two cancels, two faults of any kind, or one of each.
SPECIFICATION Spec
CONSTANTS
    t1 = t1  t2 = t2  c1 = c1  c2 = c2
    Turn = {t1, t2}
    NoTurn = NoTurn
    Connection = {c1, c2}
    Owner <- OwnConnections
    Fault = {"lookup", "record", "append", "read", "gone"}
    MaxDeltas = 1
    MaxTroubles <- FaultsOrCancels
INVARIANTS
    TypeOK
    OneTurnRuns
    TurnsDoNotInterleave
    ActiveWhileRunning
    QuietAtRest
    RecordAgreesWithLog
    HeededCancelAnnouncedOnce
PROPERTIES
    ImplementsTurnProtocol
SYMMETRY Alike
CHECK_DEADLOCK FALSE
