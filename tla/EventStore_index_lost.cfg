\* state.json as an index: a crash between the two writes of AppendEvent.
SPECIFICATION Spec
CONSTANTS
    p1 = p1  a1 = a1  a2 = a2  r1 = r1  t1 = t1  t2 = t2
    Turn = {t1, t2}
    NoTurn = NoTurn
    Nobody = Nobody
    Process = {p1}
    Appender = {a1, a2}
    Attacher = {}
    Home <- OneProcess
    Offered <- Plain
    Fault = {"crash"}
    MaxFaults = 1
    MaxEvents = 3
INVARIANTS
    SeqIsPosition
CHECK_DEADLOCK FALSE
