\* A page creates a session, runs and cancels turns, attaches and reconnects.
SPECIFICATION Spec
CONSTANTS
    t1 = t1  t2 = t2
    Turn = {t1, t2}
    NoTurn = NoTurn
    SeenLimit = 5
    MaxConns = 2
    Budget <- Budgets
INVARIANTS
    TypeOK
    NoPieceTwice
    NothingMissed
    InOrderShowsTheLog
    PendingSettles
SYMMETRY Alike
CHECK_DEADLOCK FALSE
