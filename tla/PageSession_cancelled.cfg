\* What the page shows of a turn it has cancelled.
SPECIFICATION Spec
CONSTANTS
    t1 = t1  t2 = t2
    Turn = {t1, t2}
    NoTurn = NoTurn
    SeenLimit = 5
    MaxConns = 2
    Budget <- CancelBudget
INVARIANTS
    StreamingEnds
CHECK_DEADLOCK FALSE
