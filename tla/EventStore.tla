----------------------------- MODULE EventStore -----------------------------
(***************************************************************************)
(* The event log of one session directory as internal/session/store.go     *)
(* keeps it: AppendEvent in the steps another goroutine, another process   *)
(* or a crash can come between, and the attach path (LoadSession, then     *)
(* ReadEventsAfter), which takes no lock.                                  *)
(*                                                                         *)
(* Store.mu belongs to a process.  Two processes on one directory share    *)
(* the files and not the mutex; keeping them apart is the lease's task.    *)
(*                                                                         *)
(* A fault is one of                                                       *)
(*   "load"      LoadSession or the open of events.jsonl fails             *)
(*   "torn"      the write of the line stops short (disk full)             *)
(*   "state"     the write or the rename of state.json fails               *)
(*   "manifest"  the write or the rename of manifest.json fails            *)
(*   "crash"     the process dies; the files stay as they are              *)
(***************************************************************************)
EXTENDS SessionEvents, FiniteSetsExt

CONSTANTS
    Process,        \* server processes that use the session directory
    Appender,       \* goroutines that call AppendEvent
    Attacher,       \* goroutines that attach the session and replay its log
    Home,           \* Home[g]: the process goroutine g runs in
    Nobody,         \* a mutex nobody holds
    Offered,        \* the requests the callers make
    Fault,          \* the faults that can happen
    MaxFaults,      \* bound: how many of them in one behaviour
    MaxEvents       \* bound: how many lines events.jsonl may grow to

ASSUME StoreAssumption ==
    /\ Home \in [Appender \cup Attacher -> Process]
    /\ Nobody \notin Appender
    /\ Offered \subseteq Request
    /\ Fault \subseteq {"load", "torn", "state", "manifest", "crash"}
    /\ MaxFaults \in Nat /\ MaxEvents \in Nat

VARIABLES
    lines,          \* events.jsonl
    torn,           \* events.jsonl ends in a fragment without its newline
    index,          \* state.json
    mu,             \* mu[p]: the appender that holds the Store.mu of process p
    pc,             \* pc[a]: how far the AppendEvent of a has come
    request,        \* request[a]: the event a appends
    stored,         \* stored[a]: the state.json a has loaded
    row,            \* history: the number of the line a has written
    acked,          \* history: the lines whose AppendEvent returned no error
    view,           \* view[r]: the attach of r and the Ready it returns
    faults          \* the faults so far

vars == <<lines, torn, index, mu, pc, request, stored, row, acked, view, faults>>

\* A line that does not parse: a fragment with the next event run into it.
Garbage == [type |-> "garbage", turn |-> NoTurn, seq |-> 0]
Line == Event \cup {Garbage}

Phase == {"idle", "waiting", "locked", "written", "indexed"}
NoView == [phase |-> "none", after |-> 0, latest |-> 0, rows |-> {}]

Init ==
    /\ lines = << >> /\ torn = FALSE
    /\ index = InitIndex
    /\ mu = [p \in Process |-> Nobody]
    /\ pc = [a \in Appender |-> "idle"]
    /\ request \in [Appender -> Offered]
    /\ stored = [a \in Appender |-> InitIndex]
    /\ row = [a \in Appender |-> 0]
    /\ acked = {}
    /\ view = [r \in Attacher |-> NoView]
    /\ faults = 0

-----------------------------------------------------------------------------
(* AppendEvent *)

Goto(a, from, to) ==
    /\ pc[a] = from
    /\ pc' = [pc EXCEPT ![a] = to]

\* The deferred unlock, run by every return of AppendEvent.
Unlocked_Forgotten(a) == mu
Unlocked(a) == [mu EXCEPT ![Home[a]] = Nobody]

Calls(a, req) ==
    /\ Goto(a, "idle", "waiting")
    /\ Len(lines) + Cardinality({b \in Appender : pc[b] \in {"waiting", "locked"}})
            < MaxEvents
    /\ request' = [request EXCEPT ![a] = req]
    /\ UNCHANGED <<lines, torn, index, mu, stored, row, acked, view, faults>>

\* s.mu.Lock() and LoadSession: only a holder of the lock writes state.json.
LockFree_Unlocked(a) == TRUE
LockFree(a) == mu[Home[a]] = Nobody

LockAndLoad(a) ==
    /\ Goto(a, "waiting", "locked")
    /\ LockFree(a)
    /\ mu' = [mu EXCEPT ![Home[a]] = a]
    /\ stored' = [stored EXCEPT ![a] = index]
    /\ UNCHANGED <<lines, torn, index, request, row, acked, view, faults>>

NextSeq_Reused(state) == state.latestSeq
NextSeq(state) == state.latestSeq + 1

\* The O_APPEND write of the encoded event and its newline.  After a torn write
\* the new event lands on the fragment's line.
NewLine(e) == IF torn THEN Garbage ELSE e

WriteLine(a) ==
    /\ Goto(a, "locked", "written")
    /\ lines' = Append(lines, NewLine(Stamp(request[a], NextSeq(stored[a]))))
    /\ torn' = FALSE
    /\ row' = [row EXCEPT ![a] = Len(lines) + 1]
    /\ UNCHANGED <<index, mu, request, stored, acked, view, faults>>

\* writeJSONAtomic(state.json): a new file renamed over the old one.
WriteState(a) ==
    /\ Goto(a, "written", "indexed")
    /\ index' = ApplyEvent(stored[a], Stamp(request[a], NextSeq(stored[a])))
    /\ UNCHANGED <<lines, torn, mu, request, stored, row, acked, view, faults>>

\* writeJSONAtomic(manifest.json) and the return.
WriteManifest(a) ==
    /\ Goto(a, "indexed", "idle")
    /\ mu' = Unlocked(a)
    /\ acked' = acked \cup {row[a]}
    /\ UNCHANGED <<lines, torn, index, request, stored, row, view, faults>>

-----------------------------------------------------------------------------
(* The error returns of AppendEvent, and the death of the process *)

Strikes(kind) ==
    /\ kind \in Fault /\ faults < MaxFaults
    /\ faults' = faults + 1

\* The call returns its error; the deferred unlock runs.
Fails(a, kind, from) ==
    /\ Strikes(kind)
    /\ Goto(a, from, "idle")
    /\ mu' = Unlocked(a)
    /\ UNCHANGED <<lines, index, request, stored, row, acked, view>>

LoadFails(a)     == Fails(a, "load", "locked")      /\ UNCHANGED torn
WriteTorn(a)     == Fails(a, "torn", "locked")      /\ torn' = TRUE
StateFails(a)    == Fails(a, "state", "written")    /\ UNCHANGED torn
ManifestFails(a) == Fails(a, "manifest", "indexed") /\ UNCHANGED torn

\* Every goroutine of the process is gone, and its mutex with it.
Crash(p) ==
    /\ Strikes("crash")
    /\ pc' = [a \in Appender |-> IF Home[a] = p THEN "idle" ELSE pc[a]]
    /\ view' = [r \in Attacher |-> IF Home[r] = p THEN NoView ELSE view[r]]
    /\ mu' = [mu EXCEPT ![p] = Nobody]
    /\ UNCHANGED <<lines, torn, index, request, stored, row, acked>>

-----------------------------------------------------------------------------
(* AttachSession: state.json first, events.jsonl second, and no lock *)

\* LoadSession.  The client says from which sequence number on it wants events.
AttachLoad(r, after) ==
    /\ view[r].phase # "loaded"
    /\ view' = [view EXCEPT ![r] = [phase |-> "loaded", after |-> after,
                                    latest |-> index.latestSeq, rows |-> {}]]
    /\ UNCHANGED <<lines, torn, index, mu, pc, request, stored, row, acked, faults>>

\* ReadEventsAfter.  One line that does not parse fails the whole read.
Readable == ~torn /\ \A i \in 1..Len(lines) : lines[i] # Garbage

\* The rows of events.jsonl the reader keeps, in the order of the file.
RowsAfter(after) == {i \in 1..Len(lines) : lines[i].seq > after}

\* The lastSeq of Ready: the last event read, or else what state.json said.
LatestOf_StateOnly(rows, latest) == latest
LatestOf(rows, latest) == IF rows = {} THEN latest ELSE lines[Max(rows)].seq

AttachRead(r) ==
    /\ view[r].phase = "loaded"
    /\ LET rows == RowsAfter(view[r].after)
       IN  view' = [view EXCEPT ![r] =
               IF Readable
               THEN [phase |-> "ready", after |-> view[r].after, rows |-> rows,
                     latest |-> LatestOf(rows, view[r].latest)]
               ELSE [NoView EXCEPT !.phase = "failed"]]
    /\ UNCHANGED <<lines, torn, index, mu, pc, request, stored, row, acked, faults>>

-----------------------------------------------------------------------------

Next ==
    \/ \E a \in Appender :
        \/ \E req \in Offered : Calls(a, req)
        \/ LockAndLoad(a) \/ WriteLine(a) \/ WriteState(a) \/ WriteManifest(a)
        \/ LoadFails(a) \/ WriteTorn(a) \/ StateFails(a) \/ ManifestFails(a)
    \/ \E r \in Attacher :
        \/ \E after \in 0..MaxEvents : AttachLoad(r, after)
        \/ AttachRead(r)
    \/ \E p \in Process : Crash(p)

Spec == Init /\ [][Next]_vars

\* A goroutine that is inside AppendEvent goes on running, and sync.Mutex hands
\* the lock to a waiter that has been passed over for long.
Fairness ==
    \A a \in Appender :
        /\ SF_vars(LockAndLoad(a))
        /\ WF_vars(WriteLine(a)) /\ WF_vars(WriteState(a)) /\ WF_vars(WriteManifest(a))

FairSpec == Spec /\ Fairness

-----------------------------------------------------------------------------
(* Properties *)

\* Types of the files, of the locals of AppendEvent and of the attach results.
TypeOK ==
    /\ lines \in Seq(Line) /\ torn \in BOOLEAN
    /\ index \in Index
    /\ mu \in [Process -> Appender \cup {Nobody}]
    /\ pc \in [Appender -> Phase]
    /\ request \in [Appender -> Request]
    /\ stored \in [Appender -> Index]
    /\ row \in [Appender -> Nat]
    /\ acked \in SUBSET Nat
    /\ view \in [Attacher -> [phase : {"none", "loaded", "ready", "failed"},
                              after : Nat, latest : Nat, rows : SUBSET Nat]]
    /\ faults \in Nat

\* The event on line i has sequence number i: no number is used twice or skipped,
\* whoever appends and in whatever order the appenders get the lock.
SeqIsPosition == \A i \in 1..Len(lines) : lines[i].seq = i

\* state.json says what events.jsonl says, except between the two writes of an
\* AppendEvent, when it is exactly one event behind.
Unindexed == IF \E a \in Appender : pc[a] = "written" THEN 1 ELSE 0
IndexReflectsLog == IndexFor(index, lines, Len(lines) - Unindexed)

\* An attach that runs into an AppendEvent still gives the client one piece of
\* the log: every event after the one it named up to the lastSeq it is told.
AttachGapless ==
    \A r \in Attacher :
        view[r].phase = "ready" => view[r].rows = (view[r].after + 1)..view[r].latest

\* Whatever fails or crashes: two events that can be read back and whose AppendEvent
\* returned without error never carry the same sequence number.
AckedSeqsDistinct ==
    \A i, j \in {k \in acked : lines[k] # Garbage} : lines[i].seq = lines[j].seq => i = j

\* Whatever fails or crashes: state.json counts no event that events.jsonl lacks, but
\* for one event for each torn line, the one that was run into it.
Missing == {n \in 1..index.latestSeq : \A i \in 1..Len(lines) : lines[i].seq # n}
IndexedEventsPresent ==
    Cardinality(Missing) <= Cardinality({i \in 1..Len(lines) : lines[i] = Garbage})

\* Every AppendEvent returns, also when others fail while they hold the lock.
AppendReturns == \A a \in Appender : pc[a] = "waiting" ~> pc[a] = "idle"

\* The promise of the store to the runtime.
Stage(p) ==
    CASE p = "idle" -> "idle"
      [] p \in {"waiting", "locked"} -> "called"
      [] p \in {"written", "indexed"} -> "committed"

Promise == INSTANCE EventLog WITH
    log <- lines, stage <- [a \in Appender |-> Stage(pc[a])]

ImplementsEventLog == Promise!Spec

=============================================================================
