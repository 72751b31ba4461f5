---------------------------- MODULE TurnRuntime ----------------------------
(***************************************************************************)
(* The turns of one session: the goroutine that handleTurnStart spawns for *)
(* each turn (internal/transport/ws/server.go), Runtime.RunTurn,           *)
(* Runtime.CancelTurn and completeWithError (internal/session/runtime.go), *)
(* and the connections whose reader goroutines start and cancel turns.     *)
(*                                                                         *)
(* An append is one step here: EventStore shows that it looks like one to  *)
(* its callers.  Every step ends where another goroutine can come in: at a *)
(* lock, a file, the model's stream or the socket.                         *)
(*                                                                         *)
(* A fault is one of                                                       *)
(*   "lookup"  Supervisor finds no runtime, owner or lease for the request *)
(*   "record"  turns/<turnId>.json cannot be written                       *)
(*   "append"  AppendEvent returns an error: nothing is written, or a part *)
(*             of the line, or the line, or state.json as well             *)
(*   "read"    the history cannot be read                                  *)
(*   "gone"    a connection breaks                                         *)
(***************************************************************************)
EXTENDS SessionEvents, FiniteSets

CONSTANTS
    Connection,     \* the websocket connections attached to the session
    Owner,          \* Owner[t]: the connection that starts turn t
    Fault,          \* the faults that can happen
    MaxDeltas,      \* bound: how many deltas the model streams in a turn
    MaxTroubles     \* bounds: how many of these faults and how many turn.cancel
                    \* messages there may be together, in several combinations

ASSUME RuntimeAssumption ==
    /\ Owner \in [Turn -> Connection] /\ IsFiniteSet(Connection)
    /\ Fault \subseteq {"lookup", "record", "append", "read", "gone"}
    /\ MaxDeltas \in Nat /\ MaxTroubles \subseteq [faults : Nat, cancels : Nat]

VARIABLES
    log,            \* the events that have been written whole to events.jsonl
    index,          \* state.json
    torn,           \* events.jsonl has a part of a line, to which the next is glued: nobody
                    \* can read the file any more
    running,        \* Runtime.running: the turn registered in the runtime
    cancelEmitted,  \* the flag of the running turn
    pc,             \* pc[t]: where the goroutine of turn t stands
    cancelled,      \* cancelled[t]: the context of turn t is cancelled
    status,         \* status[t]: what completeWithError made of the error
    deltas,         \* deltas[t]: how many deltas have been streamed
    record,         \* record[t]: the status in turns/<t>.json
    handler,        \* handler[c]: the turn.cancel the reader of c works on
    open,           \* open[c]: connection c is not broken
    cancels,        \* the turn.cancel messages so far
    faults,         \* the faults so far
    asked,          \* history: the turns their own connection has cancelled
    accepted,       \* history: accepted[t]: how often CancelTurn accepted t
    heeded          \* history: the turns it accepted before their goroutines looked at
                    \* cancelEmitted

store == <<log, index, torn>>
goroutine == <<pc, cancelled, status, deltas, record>>
history == <<asked, accepted, heeded>>
vars == <<store, running, cancelEmitted, goroutine, handler, open, cancels, faults, history>>

Stage == {"new", "accepted", "starting", "recorded", "reading", "streaming",
          "completed", "answered", "ending", "failing", "classified",
          "reporting", "leaving", "closing", "done"}

\* Between the registration in Runtime.running and the deferred removal.
Registered == Stage \ {"new", "accepted", "closing", "done"}

Idle == [turn |-> NoTurn, at |-> "idle"]

Init ==
    /\ log = << >> /\ index = InitIndex /\ torn = FALSE
    /\ running = NoTurn /\ cancelEmitted = FALSE
    /\ pc = [t \in Turn |-> "new"]
    /\ cancelled = [t \in Turn |-> FALSE]
    /\ status = [t \in Turn |-> "none"]
    /\ deltas = [t \in Turn |-> 0]
    /\ record = [t \in Turn |-> "none"]
    /\ handler = [c \in Connection |-> Idle]
    /\ open = [c \in Connection |-> TRUE]
    /\ cancels = 0 /\ faults = 0
    /\ asked = {} /\ accepted = [t \in Turn |-> 0] /\ heeded = {}

-----------------------------------------------------------------------------
(* Store and socket, as the runtime uses them *)

\* AppendEvent numbers the event after state.json.
Line(type, t) == Stamp([type |-> type, turn |-> t], index.latestSeq + 1)

\* AppendEvent: one more event, and state.json with it.
Logs(type, t) ==
    /\ log' = Append(log, Line(type, t))
    /\ index' = ApplyEvent(index, Line(type, t))
    /\ UNCHANGED torn

\* The event sink writes to the connection of the turn.  A broken connection may
\* still swallow a message; a sound one takes it.
SinkOutcomes(t) == IF open[Owner[t]] THEN {TRUE} ELSE BOOLEAN

Goto(t, from, to) ==
    /\ pc[t] = from
    /\ pc' = [pc EXCEPT ![t] = to]

\* Append an event of the running turn and hand it to the sink.
Emits(t, type, from, sent, lost) ==
    /\ Logs(type, t)
    /\ \E ok \in SinkOutcomes(t) : Goto(t, from, IF ok THEN sent ELSE lost)
    /\ UNCHANGED <<running, cancelEmitted, cancelled, status, record, handler,
                   open, cancels, faults, history>>

\* A step of the goroutine that only changes its own place.
Proceeds(t, from, to) ==
    /\ Goto(t, from, to)
    /\ UNCHANGED <<store, running, cancelEmitted, cancelled, status, deltas,
                   record, handler, open, cancels, faults, history>>

Bounded(n, m) == \E b \in MaxTroubles : n <= b.faults /\ m <= b.cancels

Strikes(kind) ==
    /\ kind \in Fault /\ Bounded(faults + 1, cancels)
    /\ faults' = faults + 1

-----------------------------------------------------------------------------
(* A turn *)

\* handleTurnStart.  A reader goroutine handles one message at a time.
StartTurn(t) ==
    /\ open[Owner[t]] /\ handler[Owner[t]] = Idle
    /\ Proceeds(t, "new", "accepted")

\* RunTurn registers the turn unless another one is running.
Free_Unchecked == TRUE
Free == running = NoTurn

Register(t) ==
    /\ Goto(t, "accepted", "starting")
    /\ Free
    /\ running' = t /\ cancelEmitted' = FALSE
    /\ UNCHANGED <<store, cancelled, status, deltas, record, handler, open,
                   cancels, faults, history>>

\* turn_in_progress
Reject(t) == ~Free /\ Proceeds(t, "accepted", "closing")

\* WriteTurn
Records(t, from, value, to) ==
    /\ Goto(t, from, to)
    /\ record' = [record EXCEPT ![t] = value]
    /\ UNCHANGED <<store, running, cancelEmitted, cancelled, status, deltas,
                   handler, open, cancels, faults, history>>

RecordRunning(t) == Records(t, "starting", "running", "recorded")

EmitStarted(t) ==
    /\ Emits(t, "turn.started", "recorded", "reading", "leaving")
    /\ UNCHANGED deltas

\* A part of a line in events.jsonl is an error to readConversationHistory.
ReadHistory(t) == ~torn /\ Proceeds(t, "reading", "streaming")
HistoryUnreadable(t) == torn /\ Proceeds(t, "reading", "leaving")

\* The callback of Client.Stream; its error becomes the error of Stream.
EmitDelta(t) ==
    /\ deltas[t] < MaxDeltas
    /\ Emits(t, "assistant.delta", "streaming", "streaming", "failing")
    /\ deltas' = [deltas EXCEPT ![t] = @ + 1]

\* The model may finish although the context has been cancelled meanwhile, and
\* may break off at any time.
StreamEnds(t) == Proceeds(t, "streaming", "completed")
StreamBreaks(t) == Proceeds(t, "streaming", "failing")

RecordCompleted_StatusKept(t) == Records(t, "completed", "running", "answered")
RecordCompleted(t) == Records(t, "completed", "completed", "answered")

EmitMessage_Retried(t) ==
    /\ Emits(t, "assistant.message", "answered", "ending", "answered")
    /\ UNCHANGED deltas

EmitMessage(t) ==
    /\ Emits(t, "assistant.message", "answered", "ending", "leaving")
    /\ UNCHANGED deltas

EmitCompleted(t) ==
    /\ Emits(t, "turn.completed", "ending", "leaving", "leaving")
    /\ UNCHANGED deltas

\* completeWithError: the context decides between "cancelled" and "failed"; the
\* error of WriteTurn is dropped.
StatusOf(t) == IF cancelled[t] THEN "cancelled" ELSE "failed"

Classify(t) ==
    /\ Goto(t, "failing", "classified")
    /\ status' = [status EXCEPT ![t] = StatusOf(t)]
    /\ \/ record' = [record EXCEPT ![t] = StatusOf(t)] /\ UNCHANGED faults
       \/ Strikes("record") /\ UNCHANGED record
    /\ UNCHANGED <<store, running, cancelEmitted, cancelled, deltas, handler,
                   open, cancels, history>>

\* CancelTurn announces the end itself, unless it came too late to be seen here.
Announced_Assumed(t) == status[t] = "cancelled"
Announced(t) == status[t] = "cancelled" /\ running # NoTurn /\ cancelEmitted

LeaveToCancel(t) == Announced(t) /\ Proceeds(t, "classified", "leaving")
Report(t) == ~Announced(t) /\ Proceeds(t, "classified", "reporting")

EmitStatus(t) ==
    /\ Emits(t, IF status[t] = "cancelled" THEN "turn.cancelled" ELSE "turn.failed",
             "reporting", "leaving", "leaving")
    /\ UNCHANGED deltas

\* The deferred function of RunTurn.
Leave(t) ==
    /\ Goto(t, "leaving", "closing")
    /\ running' = NoTurn /\ cancelEmitted' = FALSE
    /\ UNCHANGED <<store, cancelled, status, deltas, record, handler, open,
                   cancels, faults, history>>

\* The deferred function of handleTurnStart's goroutine drops the cancel function.
Close(t) == Proceeds(t, "closing", "done")

-----------------------------------------------------------------------------
(* turn.cancel, from the connection of the turn or from another one *)

HandlerAt(c, at) == handler[c].at = at
HandlerDone(c) == handler' = [handler EXCEPT ![c] = Idle]

\* handleTurnCancel cancels the context it has stored for the turn, if any.
Stored(c, t) == c = Owner[t] /\ pc[t] \notin {"new", "done"}

AskCancel(c, t) ==
    /\ open[c] /\ HandlerAt(c, "idle")
    /\ Bounded(faults, cancels + 1)
    /\ cancels' = cancels + 1
    /\ handler' = [handler EXCEPT ![c] = [turn |-> t, at |-> "asked"]]
    /\ cancelled' = [cancelled EXCEPT ![t] = @ \/ Stored(c, t)]
    /\ asked' = IF Stored(c, t) THEN asked \cup {t} ELSE asked
    /\ UNCHANGED <<store, running, cancelEmitted, pc, status, deltas, record,
                   open, faults, accepted, heeded>>

\* Runtime.CancelTurn, under the mutex: mark and cancel the running turn.
MarkEmitted_Forgotten == cancelEmitted
MarkEmitted == TRUE

CancelTurn(c) ==
    /\ HandlerAt(c, "asked") /\ running = handler[c].turn
    /\ cancelEmitted' = MarkEmitted
    /\ cancelled' = [cancelled EXCEPT ![running] = TRUE]
    /\ handler' = [handler EXCEPT ![c].at = "emitting"]
    /\ accepted' = [accepted EXCEPT ![running] = @ + 1]
    /\ heeded' = IF pc[running] \in {"reporting", "leaving"} THEN heeded ELSE heeded \cup {running}
    /\ UNCHANGED <<store, running, pc, status, deltas, record, open, cancels,
                   faults, asked>>

\* turn_not_found
TurnNotFound(c) ==
    /\ HandlerAt(c, "asked") /\ running # handler[c].turn
    /\ HandlerDone(c)
    /\ UNCHANGED <<store, running, cancelEmitted, goroutine, open, cancels,
                   faults, history>>

\* The append of CancelTurn, outside the mutex.
EmitCancelled(c) ==
    /\ HandlerAt(c, "emitting")
    /\ Logs("turn.cancelled", handler[c].turn)
    /\ HandlerDone(c)
    /\ UNCHANGED <<running, cancelEmitted, goroutine, open, cancels, faults, history>>

-----------------------------------------------------------------------------
(* Errors *)

\* The error return of RunTurn at some point, without a further event.
Errs(t, kind, from, to) ==
    /\ Strikes(kind)
    /\ Goto(t, from, to)
    /\ UNCHANGED <<running, cancelEmitted, cancelled, status, deltas, record, handler,
                   open, cancels, history>>

LookupFails(t) == Errs(t, "lookup", "accepted", "closing") /\ UNCHANGED store
ReadFails(t) == Errs(t, "read", "reading", "leaving") /\ UNCHANGED store

RecordFails(t) ==
    /\ \E from \in {"starting", "completed"} : Errs(t, "record", from, "leaving")
    /\ UNCHANGED store

\* AppendEvent fails before it writes anything, in the line, behind the line, so that the
\* next event gets the same number, or behind state.json.
StopsShort(type, t) ==
    \/ UNCHANGED store
    \/ torn' = TRUE /\ UNCHANGED <<log, index>>
    \/ log' = Append(log, Line(type, t)) /\ UNCHANGED <<index, torn>>
    \/ Logs(type, t)

AppendFails(t) ==
    \/ Errs(t, "append", "recorded", "leaving") /\ StopsShort("turn.started", t)
    \/ Errs(t, "append", "streaming", "failing") /\ StopsShort("assistant.delta", t)
    \/ Errs(t, "append", "answered", "leaving") /\ StopsShort("assistant.message", t)
    \/ Errs(t, "append", "ending", "leaving") /\ StopsShort("turn.completed", t)
    \/ /\ Errs(t, "append", "reporting", "leaving")
       /\ StopsShort(IF status[t] = "cancelled" THEN "turn.cancelled" ELSE "turn.failed", t)

CancelFails(c) ==
    /\ \/ HandlerAt(c, "asked") /\ Strikes("lookup") /\ UNCHANGED store
       \/ /\ HandlerAt(c, "emitting") /\ Strikes("append")
          /\ StopsShort("turn.cancelled", handler[c].turn)
    /\ HandlerDone(c)
    /\ UNCHANGED <<running, cancelEmitted, goroutine, open, cancels, history>>

\* The connection breaks.  Its turn goes on until it next writes to it.
Breaks(c) ==
    /\ open[c] /\ Strikes("gone")
    /\ open' = [open EXCEPT ![c] = FALSE]
    /\ UNCHANGED <<store, running, cancelEmitted, goroutine, handler, cancels,
                   history>>

-----------------------------------------------------------------------------

\* What the goroutine of a turn does on its own account.
Runs(t) ==
    \/ Register(t) \/ Reject(t) \/ RecordRunning(t) \/ EmitStarted(t)
    \/ ReadHistory(t) \/ HistoryUnreadable(t)
    \/ RecordCompleted(t) \/ EmitMessage(t) \/ EmitCompleted(t)
    \/ Classify(t) \/ LeaveToCancel(t) \/ Report(t) \/ EmitStatus(t)
    \/ Leave(t) \/ Close(t)

\* What the model's answer makes it do.
Streams(t) == EmitDelta(t) \/ StreamEnds(t) \/ StreamBreaks(t)

Handles(c) == CancelTurn(c) \/ TurnNotFound(c) \/ EmitCancelled(c)

Next ==
    \/ \E t \in Turn :
        \/ StartTurn(t) \/ Runs(t) \/ Streams(t)
        \/ LookupFails(t) \/ ReadFails(t) \/ RecordFails(t) \/ AppendFails(t)
    \/ \E c \in Connection :
        \/ \E t \in Turn : AskCancel(c, t)
        \/ Handles(c) \/ CancelFails(c) \/ Breaks(c)

Spec == Init /\ [][Next]_vars

\* Goroutines keep running.  A model that is not answering is cut off only by the
\* context: there is no timeout.
CutOff_Detached(t) == FALSE
CutOff(t) == cancelled[t] /\ StreamBreaks(t)

Fairness ==
    /\ \A t \in Turn : WF_vars(Runs(t)) /\ WF_vars(CutOff(t))
    /\ \A c \in Connection : WF_vars(Handles(c))

FairSpec == Spec /\ Fairness

-----------------------------------------------------------------------------
(* Properties *)

\* Types of the files, of the runtime and of the goroutines' locals.
TypeOK ==
    /\ log \in Seq(Event) /\ index \in Index /\ torn \in BOOLEAN
    /\ running \in Turn \cup {NoTurn} /\ cancelEmitted \in BOOLEAN
    /\ pc \in [Turn -> Stage]
    /\ cancelled \in [Turn -> BOOLEAN]
    /\ status \in [Turn -> {"none", "failed", "cancelled"}]
    /\ deltas \in [Turn -> Nat]
    /\ record \in [Turn -> {"none", "running", "completed", "failed", "cancelled"}]
    /\ handler \in [Connection -> [turn : Turn, at : {"asked", "emitting"}] \cup {Idle}]
    /\ open \in [Connection -> BOOLEAN]
    /\ cancels \in Nat /\ faults \in Nat
    /\ asked \subseteq Turn /\ heeded \subseteq Turn /\ accepted \in [Turn -> Nat]

Rows(type, t) == {i \in 1..Len(log) : log[i].type = type /\ log[i].turn = t}
Logged(type, t) == Rows(type, t) # {}

\* Whatever fails: no turn is between registration and removal but the running one.
OneTurnRuns == \A t \in Turn : pc[t] \in Registered <=> running = t

\* Whatever fails: between two events of a turn stands no event of another turn,
\* except that a turn.cancelled may come late.
TurnsDoNotInterleave ==
    \A i, k \in 1..Len(log) : \A j \in i..k :
        (/\ log[i].turn = log[k].turn
         /\ "turn.cancelled" \notin {log[i].type, log[j].type, log[k].type})
        => log[j].turn = log[i].turn

\* Whatever fails: state.json names the turn that is under way, and a late
\* turn.cancelled of an earlier turn does not clear it.
UnderWay == {"reading", "streaming", "completed", "answered", "ending", "failing",
             "classified", "reporting"}
ActiveWhileRunning ==
    \A t \in Turn : pc[t] \in UnderWay =>
        index.activeTurn = t \/ Logged("turn.cancelled", t)

\* The announcements of a cancellation: in the log, or on their way to it.
Pending(t) == Cardinality({c \in Connection : handler[c] = [turn |-> t, at |-> "emitting"]})
Announcements(t) == Cardinality(Rows("turn.cancelled", t)) + Pending(t)

\* Whatever fails: a turn is announced as cancelled no more often than CancelTurn accepted
\* a cancel of it, and the goroutine of the turn adds none of its own, unless the turn's
\* connection has cancelled it and nothing had been accepted when the goroutine looked at
\* cancelEmitted.  In that case one turn.cancel can be announced twice: handleTurnCancel
\* cancels the context, the goroutine announces, and then CancelTurn, called by the same
\* handler, finds the turn still registered and announces it again.
HeededCancelAnnouncedOnce ==
    \A t \in Turn :
        Announcements(t) <= accepted[t] + (IF t \in asked \ heeded THEN 1 ELSE 0)

\* Without faults, a session at rest has ended every turn it has started, and
\* state.json names no active turn, unless that turn was cancelled between its
\* registration and its turn.started.
AtRest == running = NoTurn /\ \A c \in Connection : handler[c] = Idle
CancelledEarly(t) ==
    \E i \in Rows("turn.cancelled", t), j \in Rows("turn.started", t) : i < j
QuietAtRest ==
    AtRest /\ faults = 0 =>
        /\ \A t \in Turn : Logged("turn.started", t) =>
               \E type \in TerminalType : Logged(type, t)
        /\ index.activeTurn # NoTurn => CancelledEarly(index.activeTurn)

\* Without faults, no turn is active in a session at rest: a cancel leaves the
\* session as free as a completed turn does.
NoActiveTurnAtRest == AtRest => index.activeTurn = NoTurn

\* Without faults, the record of a finished turn is completed or failed just when the log
\* has that end.  The log also has, now or soon, a turn.cancelled for every cancel that was
\* accepted, so that it may contradict the record of a turn that had its end already; and
\* one more for a record that says cancelled, unless the goroutine left it to CancelTurn.
RecordAgreesWithLog ==
    \A t \in Turn : pc[t] = "done" /\ faults = 0 =>
        /\ record[t] = "completed" <=> Logged("turn.completed", t)
        /\ record[t] = "failed" <=> Logged("turn.failed", t)
        /\ Announcements(t) =
               accepted[t] + (IF record[t] = "cancelled" /\ t \notin heeded THEN 1 ELSE 0)

\* A turn whose context is cancelled ends, whatever fails: the session is free
\* again although nothing bounds the time the model takes to answer.
CancelEndsTurn ==
    \A t \in Turn : (cancelled[t] /\ pc[t] \in Registered) ~> running # t

\* Without faults, a turn recorded as cancelled is announced as cancelled: the
\* goroutine that leaves the announcement to CancelTurn can rely on it.
RecordedCancelAnnounced ==
    \A t \in Turn : record[t] = "cancelled" ~> Logged("turn.cancelled", t) \/ faults > 0

\* The promise of the runtime to the readers of the log.  It is about what follows what:
\* the number an event carries is its position unless an append fails, see EventStore.
PhaseOf(stage) ==
    CASE stage \in {"starting", "recorded"} -> "taken"
      [] stage = "ending" -> "answered"
      [] stage = "leaving" -> "over"
      [] OTHER -> "open"

Renumbered(events) == [i \in DOMAIN events |-> [events[i] EXCEPT !.seq = i]]

Protocol == INSTANCE TurnProtocol WITH
    log <- Renumbered(log),
    current <- running,
    phase <- IF running = NoTurn THEN "none" ELSE PhaseOf(pc[running]),
    pending <- [t \in Turn |-> Pending(t)]

ImplementsTurnProtocol == Protocol!Spec

=============================================================================
