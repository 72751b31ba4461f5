\* Torn lines, failed writes of state.json and crashes between two writes: what is left of the
\* numbering, and whether every AppendEvent still returns.
SPECIFICATION FairSpec
CONSTANTS
    p1 = p1  a1 = a1  a2 = a2  r1 = r1  t1 = t1  t2 = t2
    Turn = {t1, t2}
    NoTurn = NoTurn
    Nobody = Nobody
    Process = {p1}
    Appender = {a1, a2}
    Attacher = {}
    Home <- OneProcess
    Offered <- Plain
    Fault = {"load", "torn", "state", "manifest", "crash"}
    MaxFaults = 2
    MaxEvents = 4
INVARIANTS
    AckedSeqsDistinct
    IndexedEventsPresent
PROPERTIES
    AppendReturns
CHECK_DEADLOCK FALSE
