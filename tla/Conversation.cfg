\* Three turns under two ids, up to two deltas each, and a reload or a cancellation; a
\* prompt has room for one earlier turn.
SPECIFICATION Spec
CONSTANTS
    t1 = t1  t2 = t2  m1 = m1  m2 = m2  m3 = m3
    NoTurn = NoTurn
    Turn = {t1, t2}
    Model = {m1, m2, m3}
    DefaultModel = m1
    Keyless = {m3}
    Limit = 4
    MaxRuns = 3
    MaxWords = 2
    MaxBeside = 1
SYMMETRY Alike
INVARIANTS
    TypeOK
    PromptIsRecent
    AnswerIsDeltas
    ClaimsAreTrue
\* The turns may all have ended.
CHECK_DEADLOCK FALSE
