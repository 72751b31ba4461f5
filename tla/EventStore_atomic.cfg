\* AppendEvent among concurrent appends and attaches, with the faults that leave
\* events.jsonl and state.json in step.
SPECIFICATION Spec
CONSTANTS
    p1 = p1  a1 = a1  a2 = a2  r1 = r1  t1 = t1  t2 = t2
    Turn = {t1, t2}
    NoTurn = NoTurn
    Nobody = Nobody
    Process = {p1}
    Appender = {a1, a2}
    Attacher = {r1}
    Home <- OneProcess
    Offered <- StartsAndEnds
    Fault = {"load", "manifest"}
    MaxFaults = 1
    MaxEvents = 3
INVARIANTS
    TypeOK
    SeqIsPosition
    IndexReflectsLog
    AttachGapless
PROPERTIES
    ImplementsEventLog
SYMMETRY Alike
CHECK_DEADLOCK FALSE
