-------------------------- MODULE TurnRuntimeProofs -------------------------
(***************************************************************************)
(* Proofs about TurnRuntime, for any turns, connections, faults and        *)
(* bounds: whatever fails, one turn runs at a time, state.json names it,   *)
(* its events are not mixed with those of another turn, and the order of   *)
(* the log obeys TurnProtocol; unless an append fails, events carry their  *)
(* positions.                                                              *)
(***************************************************************************)
EXTENDS TurnRuntime, FiniteSetTheorems, SequenceTheorems, TLAPS

-----------------------------------------------------------------------------
(* Types *)

\* AppendEvent writes a line, and state.json may follow it.
Writes(type, t) ==
    /\ log' = Append(log, Line(type, t))
    /\ index' \in {index, ApplyEvent(index, Line(type, t))}

LEMMA AppendWrites ==
    ASSUME NEW type, NEW t
    PROVE  /\ Logs(type, t) => Writes(type, t) /\ UNCHANGED torn
           /\ StopsShort(type, t) => /\ Writes(type, t) \/ UNCHANGED <<log, index>>
                                     /\ torn' \in {torn, TRUE}
BY DEF Logs, StopsShort, Writes, store

\* AppendEvent keeps the types of events.jsonl and state.json.
LEMMA WritesType ==
    ASSUME log \in Seq(Event), index \in Index,
           NEW type \in EventType, NEW t \in Turn, Writes(type, t)
    PROVE  log' \in Seq(Event) /\ index' \in Index
<1>1. Line(type, t) \in Event
  BY DEF Line, Stamp, Event, Index
<1>2. ApplyEvent(index, Line(type, t)) \in Index
  BY <1>1 DEF ApplyEvent, ActiveAfter, Index, Event
<1>3. QED
  BY <1>1, <1>2 DEF Writes

\* The files, the runtime and the goroutines' locals keep their types, whatever
\* fails.
THEOREM TypeCorrect == Spec => []TypeOK
<1> USE RuntimeAssumption, NoTurnAssumption
<1>1. Init => TypeOK
  <2> SUFFICES ASSUME Init PROVE TypeOK
    OBVIOUS
  <2>1. log \in Seq(Event) /\ index \in Index
    BY DEF Init, InitIndex, Index
  <2>2. QED
    BY <2>1 DEF Init, TypeOK, Stage, Idle
<1>2. TypeOK /\ [Next]_vars => TypeOK'
  <2> SUFFICES ASSUME TypeOK, [Next]_vars PROVE TypeOK'
    OBVIOUS
  <2>1. ASSUME NEW t \in Turn, NEW from \in Stage, NEW to \in Stage, Proceeds(t, from, to)
        PROVE  TypeOK'
    BY <2>1 DEF TypeOK, Goto, Stage, Proceeds, store, history
  <2>2. ASSUME NEW t \in Turn, NEW from \in Stage, NEW to \in Stage,
               NEW value \in {"running", "completed"}, Records(t, from, value, to)
        PROVE  TypeOK'
    BY <2>2 DEF TypeOK, Goto, Stage, Records, store, history
  <2>3. ASSUME NEW t \in Turn, NEW type \in EventType, NEW from \in Stage,
               NEW sent \in Stage, NEW lost \in Stage, Emits(t, type, from, sent, lost),
               deltas' \in [Turn -> Nat]
        PROVE  TypeOK'
    <3>1. log' \in Seq(Event) /\ index' \in Index /\ UNCHANGED torn
      BY <2>3, AppendWrites, WritesType DEF Emits, TypeOK
    <3>2. pc' \in [Turn -> Stage]
      <4>1. PICK ok : Goto(t, from, IF ok THEN sent ELSE lost)
        BY <2>3, Zenon DEF Emits
      <4>2. CASE ok
        BY <4>1, <4>2 DEF TypeOK, Goto
      <4>3. CASE ~ok
        BY <4>1, <4>3 DEF TypeOK, Goto
      <4>4. QED BY <4>2, <4>3
    <3>3. UNCHANGED <<running, cancelEmitted, cancelled, status, record, handler,
                      open, cancels, faults, history>>
      BY <2>3, Zenon DEF Emits
    <3>4. QED BY <2>3, <3>1, <3>2, <3>3 DEF TypeOK, history
  <2>4. ASSUME NEW t \in Turn, NEW kind, NEW from \in Stage, NEW to \in Stage,
               Errs(t, kind, from, to), log' \in Seq(Event), index' \in Index,
               torn' \in BOOLEAN
        PROVE  TypeOK'
    BY <2>4 DEF TypeOK, Goto, Stage, Errs, Strikes, store, history
  <2>5. ASSUME NEW t \in Turn, StartTurn(t) \/ Runs(t) \/ Streams(t) PROVE TypeOK'
    <3>1. ASSUME \/ StartTurn(t) \/ Reject(t) \/ ReadHistory(t) \/ HistoryUnreadable(t)
                 \/ StreamEnds(t) \/ StreamBreaks(t) \/ LeaveToCancel(t) \/ Report(t)
                 \/ Close(t)
          PROVE  TypeOK'
      BY <2>1, <3>1 DEF StartTurn, Reject, ReadHistory, HistoryUnreadable, StreamEnds,
                        StreamBreaks, LeaveToCancel, Report, Close, Stage
    <3>2. ASSUME RecordRunning(t) \/ RecordCompleted(t) PROVE TypeOK'
      BY <2>2, <3>2 DEF RecordRunning, RecordCompleted, Stage
    <3>3. ASSUME EmitStarted(t) \/ EmitMessage(t) \/ EmitCompleted(t) \/ EmitStatus(t)
          PROVE  TypeOK'
      <4>1. deltas' \in [Turn -> Nat]
        BY <3>3 DEF EmitStarted, EmitMessage, EmitCompleted, EmitStatus, TypeOK
      <4>2. \E type \in EventType : \E from, sent, lost \in Stage :
                Emits(t, type, from, sent, lost)
        BY <3>3 DEF EmitStarted, EmitMessage, EmitCompleted, EmitStatus, EventType,
                    TerminalType, Stage
      <4>3. QED BY <2>3, <4>1, <4>2
    <3>4. ASSUME EmitDelta(t) PROVE TypeOK'
      <4>1. deltas' \in [Turn -> Nat]
        BY <3>4 DEF EmitDelta, TypeOK
      <4>2. Emits(t, "assistant.delta", "streaming", "streaming", "failing")
        BY <3>4 DEF EmitDelta
      <4>3. QED BY <2>3, <4>1, <4>2 DEF EventType, Stage
    <3>5. ASSUME Register(t) PROVE TypeOK'
      BY <3>5 DEF TypeOK, Goto, Stage, Register, store, history
    <3>6. ASSUME Leave(t) PROVE TypeOK'
      BY <3>6 DEF TypeOK, Goto, Stage, Leave, store, history
    <3>7. ASSUME Classify(t) PROVE TypeOK'
      <4>1. StatusOf(t) \in {"failed", "cancelled"}
        BY DEF StatusOf
      <4>2. status' \in [Turn -> {"none", "failed", "cancelled"}] /\ faults' \in Nat
        BY <3>7, <4>1 DEF Classify, Strikes, TypeOK
      <4>3. record' \in [Turn -> {"none", "running", "completed", "failed", "cancelled"}]
        BY <3>7, <4>1 DEF Classify, TypeOK
      <4>4. QED BY <3>7, <4>2, <4>3 DEF TypeOK, Goto, Stage, Classify, store, history
    <3>8. QED
      BY <2>5, <3>1, <3>2, <3>3, <3>4, <3>5, <3>6, <3>7 DEF Runs, Streams
  <2>6. ASSUME NEW t \in Turn, NEW type \in EventType, StopsShort(type, t)
        PROVE  log' \in Seq(Event) /\ index' \in Index /\ torn' \in BOOLEAN
    <3>1. log' \in Seq(Event) /\ index' \in Index
      BY <2>6, AppendWrites, WritesType DEF TypeOK
    <3>2. torn' \in BOOLEAN
      BY <2>6, AppendWrites, Zenon DEF TypeOK
    <3>3. QED BY <3>1, <3>2
  <2>7. ASSUME NEW t \in Turn,
               LookupFails(t) \/ ReadFails(t) \/ RecordFails(t) \/ AppendFails(t)
        PROVE  TypeOK'
    <3>1. log' \in Seq(Event) /\ index' \in Index /\ torn' \in BOOLEAN
      BY <2>6, <2>7 DEF LookupFails, ReadFails, RecordFails, AppendFails, EventType,
                        TerminalType, TypeOK, store
    <3>2. PICK kind \in {"lookup", "read", "record", "append"} :
              \E from, to \in Stage : Errs(t, kind, from, to)
      BY <2>7 DEF LookupFails, ReadFails, RecordFails, AppendFails, Stage
    <3>3. QED BY <2>4, <3>1, <3>2
  <2>8. ASSUME NEW c \in Connection, NEW t \in Turn, AskCancel(c, t) PROVE TypeOK'
    BY <2>8 DEF TypeOK, goroutine, AskCancel, store, history
  <2>9. ASSUME NEW c \in Connection, CancelTurn(c) PROVE TypeOK'
    <3>1. running \in Turn /\ handler[c] \in [turn : Turn, at : {"asked", "emitting"}]
      BY <2>9 DEF CancelTurn, HandlerAt, Idle, TypeOK
    <3>2. handler' \in [Connection -> [turn : Turn, at : {"asked", "emitting"}] \cup {Idle}]
      BY <2>9, <3>1 DEF CancelTurn, TypeOK
    <3>3. QED BY <2>9, <3>1, <3>2 DEF CancelTurn, MarkEmitted, TypeOK, store, history
  <2>10. ASSUME NEW c \in Connection, TurnNotFound(c) PROVE TypeOK'
    BY <2>10 DEF TypeOK, goroutine, TurnNotFound, HandlerDone, store, history
  <2>11. ASSUME NEW c \in Connection, EmitCancelled(c) PROVE TypeOK'
    <3>1. handler[c].turn \in Turn
      BY <2>11 DEF EmitCancelled, HandlerAt, Idle, TypeOK
    <3>2. log' \in Seq(Event) /\ index' \in Index /\ UNCHANGED torn
      BY <2>11, <3>1, AppendWrites, WritesType DEF EmitCancelled, EventType, TerminalType, TypeOK
    <3>3. QED BY <2>11, <3>2 DEF TypeOK, goroutine, EmitCancelled, HandlerDone, store, history
  <2>12. ASSUME NEW c \in Connection, CancelFails(c) PROVE TypeOK'
    <3>1. handler[c].turn \in Turn
      BY <2>12 DEF CancelFails, HandlerAt, Idle, TypeOK
    <3>2. log' \in Seq(Event) /\ index' \in Index /\ torn' \in BOOLEAN
      BY <2>12, <2>6, <3>1 DEF CancelFails, EventType, TerminalType, TypeOK, store
    <3>3. QED
      BY <2>12, <3>2 DEF TypeOK, goroutine, CancelFails, HandlerDone, Strikes, store, history
  <2>13. ASSUME NEW c \in Connection, Breaks(c) PROVE TypeOK'
    BY <2>13 DEF TypeOK, goroutine, Breaks, Strikes, store, history
  <2>14. CASE UNCHANGED vars
    BY <2>14 DEF TypeOK, goroutine, vars, store, history
  <2>15. QED
    BY <2>5, <2>7, <2>8, <2>9, <2>10, <2>11, <2>12, <2>13, <2>14 DEF Next, Handles
<1>3. QED
  BY <1>1, <1>2, PTL DEF Spec

-----------------------------------------------------------------------------
(* What a step does to the log, the runtime and the goroutines *)

Waiting == {"new", "accepted"}

\* A goroutine goes on without a word.
MovesOn(t) ==
    \E from, to \in Stage :
        /\ Goto(t, from, to) /\ UNCHANGED <<log, index, running>>
        /\ from \in Registered <=> to \in Registered
        /\ to \in UnderWay => from \in UnderWay
        /\ to \in Waiting => from \in Waiting

\* A goroutine goes on and logs an event of its turn.
SpeaksUp(t) ==
    \E from, to \in Stage, type \in EventType :
        /\ Goto(t, from, to) /\ Writes(type, t) /\ UNCHANGED running
        /\ from \in Registered /\ to \in UnderWay \cup {"leaving"}
        /\ from \in UnderWay \/ type = "turn.started"
        /\ type = "turn.started" => from = "recorded"
        /\ type = "turn.started" => index'.activeTurn = t \/ to = "leaving"
        /\ type \in TerminalType => to = "leaving"

\* A cancel handler announces a cancellation.
CancelLogged(t) == Writes("turn.cancelled", t) /\ UNCHANGED <<running, pc>>

Silent == UNCHANGED <<log, index, running, pc>>

\* Every step is of one of these kinds, registers a turn or removes it.
LEMMA StepKinds ==
    ASSUME TypeOK, [Next]_vars
    PROVE  \/ Silent
           \/ \E t \in Turn :
                  Register(t) \/ Leave(t) \/ MovesOn(t) \/ SpeaksUp(t) \/ CancelLogged(t)
<1> USE DEF Registered, Stage, UnderWay, Waiting
<1>1. ASSUME NEW t \in Turn, NEW from \in Stage, NEW to \in Stage, Proceeds(t, from, to),
             from \in Registered <=> to \in Registered, to \in UnderWay => from \in UnderWay,
             to \in Waiting => from \in Waiting
      PROVE  MovesOn(t)
  BY <1>1 DEF MovesOn, Proceeds, store
<1>2. ASSUME NEW t \in Turn, \/ StartTurn(t) \/ Reject(t) \/ ReadHistory(t)
                             \/ HistoryUnreadable(t) \/ StreamEnds(t) \/ StreamBreaks(t)
                             \/ LeaveToCancel(t) \/ Report(t) \/ Close(t)
      PROVE  MovesOn(t) \/ SpeaksUp(t)
  BY <1>1, <1>2 DEF StartTurn, Reject, ReadHistory, HistoryUnreadable, StreamEnds,
                    StreamBreaks, LeaveToCancel, Report, Close
<1>3. ASSUME NEW t \in Turn, RecordRunning(t) \/ RecordCompleted(t) \/ Classify(t)
      PROVE  MovesOn(t)
  BY <1>3 DEF MovesOn, RecordRunning, RecordCompleted, Records, Classify, store
<1>4. ASSUME NEW t \in Turn, NEW from \in Registered, NEW sent \in UnderWay \cup {"leaving"},
             NEW lost \in UnderWay \cup {"leaving"}, NEW type \in EventType,
             Emits(t, type, from, sent, lost),
             from \in UnderWay \/ type = "turn.started",
             type = "turn.started" => from = "recorded",
             type \in TerminalType => sent = "leaving" /\ lost = "leaving"
      PROVE  SpeaksUp(t)
  <2>1. PICK ok : Goto(t, from, IF ok THEN sent ELSE lost)
    BY <1>4, Zenon DEF Emits
  <2>2. Writes(type, t) /\ UNCHANGED running
    BY <1>4, AppendWrites DEF Emits
  <2>2a. type = "turn.started" => index'.activeTurn = t
    BY <1>4 DEF Emits, Logs, Line, ApplyEvent, ActiveAfter, Starts, Stamp
  <2>3. CASE ok
    <3>1. Goto(t, from, sent)
      BY <2>1, <2>3
    <3>2. QED BY <1>4, <2>2, <2>2a, <3>1 DEF SpeaksUp
  <2>4. CASE ~ok
    <3>1. Goto(t, from, lost)
      BY <2>1, <2>4
    <3>2. QED BY <1>4, <2>2, <2>2a, <3>1 DEF SpeaksUp
  <2>5. QED BY <2>3, <2>4
<1>5. ASSUME NEW t \in Turn, \/ EmitStarted(t) \/ EmitDelta(t) \/ EmitMessage(t)
                             \/ EmitCompleted(t) \/ EmitStatus(t)
      PROVE  SpeaksUp(t)
  BY <1>4, <1>5 DEF EmitStarted, EmitDelta, EmitMessage, EmitCompleted, EmitStatus,
                    EventType, TerminalType
<1>6. ASSUME NEW t \in Turn, NEW kind, NEW from \in Registered,
             NEW to \in {"failing", "leaving"}, NEW type \in EventType,
             Errs(t, kind, from, to), StopsShort(type, t),
             to = "failing" => from \in UnderWay /\ type # "turn.started",
             from \in UnderWay \/ type = "turn.started",
             type = "turn.started" => from = "recorded",
             type \in TerminalType => to = "leaving"
      PROVE  MovesOn(t) \/ SpeaksUp(t)
  <2>1. Goto(t, from, to) /\ UNCHANGED running
    BY <1>6 DEF Errs
  <2>2. CASE Writes(type, t)
    BY <1>6, <2>1, <2>2 DEF SpeaksUp
  <2>3. CASE UNCHANGED <<log, index>>
    BY <1>6, <2>1, <2>3 DEF MovesOn
  <2>4. QED BY <1>6, <2>2, <2>3, AppendWrites
<1>7. ASSUME NEW t \in Turn, AppendFails(t) PROVE MovesOn(t) \/ SpeaksUp(t)
  BY <1>6, <1>7 DEF AppendFails, EventType, TerminalType
<1>8. ASSUME NEW t \in Turn, LookupFails(t) \/ ReadFails(t) \/ RecordFails(t)
      PROVE  MovesOn(t)
  BY <1>8 DEF LookupFails, ReadFails, RecordFails, Errs, MovesOn, store
<1>9. ASSUME NEW c \in Connection, EmitCancelled(c) \/ CancelFails(c)
      PROVE  Silent \/ \E t \in Turn : CancelLogged(t)
  <2>1. CASE HandlerAt(c, "emitting")
    <3>1. handler[c].turn \in Turn
      BY <2>1 DEF HandlerAt, Idle, TypeOK
    <3>2. QED
      BY <1>9, <2>1, <3>1, AppendWrites
         DEF EmitCancelled, CancelFails, HandlerAt, CancelLogged, Silent, goroutine
  <2>2. CASE ~HandlerAt(c, "emitting")
    BY <1>9, <2>2 DEF EmitCancelled, CancelFails, Silent, goroutine, store
  <2>3. QED BY <2>1, <2>2
<1>10. ASSUME NEW c \in Connection, NEW t \in Turn, AskCancel(c, t) PROVE Silent
  BY <1>10 DEF AskCancel, Silent, store
<1>11. ASSUME NEW c \in Connection, CancelTurn(c) \/ TurnNotFound(c) \/ Breaks(c)
       PROVE  Silent
  BY <1>11 DEF CancelTurn, TurnNotFound, Breaks, Silent, goroutine, store
<1>12. CASE UNCHANGED vars
  BY <1>12 DEF vars, goroutine, Silent, store
<1>13. QED
  BY <1>2, <1>3, <1>5, <1>7, <1>8, <1>9, <1>10, <1>11, <1>12
     DEF Next, Runs, Streams, Handles

-----------------------------------------------------------------------------
(* One turn at a time *)

\* The turn in Runtime.running is the one between registration and removal, so
\* that a session never runs two turns, whatever fails.
THEOREM OneTurnRunsHolds == Spec => []OneTurnRuns
<1>1. Init => OneTurnRuns
  <2> SUFFICES ASSUME Init, NEW t \in Turn PROVE pc[t] \notin Registered /\ running # t
    BY DEF OneTurnRuns
  <2>1. pc[t] = "new" /\ running = NoTurn
    BY DEF Init
  <2>2. QED
    BY <2>1, NoTurnAssumption DEF Registered
<1>2. TypeOK /\ OneTurnRuns /\ [Next]_vars => OneTurnRuns'
  <2> SUFFICES ASSUME TypeOK, OneTurnRuns, [Next]_vars PROVE OneTurnRuns'
    OBVIOUS
  <2> USE NoTurnAssumption DEF OneTurnRuns, TypeOK, Goto
  <2>1. CASE Silent
    BY <2>1 DEF Silent
  <2>2. ASSUME NEW t \in Turn, Register(t) PROVE OneTurnRuns'
    BY <2>2 DEF Register, Free, Registered, Stage
  <2>3. ASSUME NEW t \in Turn, Leave(t) PROVE OneTurnRuns'
    BY <2>3 DEF Leave, Registered, Stage
  <2>4. ASSUME NEW t \in Turn, MovesOn(t) PROVE OneTurnRuns'
    BY <2>4 DEF MovesOn
  <2>5. ASSUME NEW t \in Turn, SpeaksUp(t) PROVE OneTurnRuns'
    <3>1. UnderWay \cup {"leaving"} \subseteq Registered
      BY DEF UnderWay, Registered, Stage
    <3>2. QED BY <2>5, <3>1 DEF SpeaksUp
  <2>6. ASSUME NEW t \in Turn, CancelLogged(t) PROVE OneTurnRuns'
    BY <2>6 DEF CancelLogged
  <2>7. QED
    BY <2>1, <2>2, <2>3, <2>4, <2>5, <2>6, StepKinds
<1>3. QED
  BY <1>1, <1>2, TypeCorrect, PTL DEF Spec

-----------------------------------------------------------------------------
(* The active turn of state.json *)

\* An event of another turn leaves the active turn alone, and so does a delta or
\* a message of its own.
LEMMA ActiveKept ==
    ASSUME TypeOK, NEW type \in EventType, NEW u \in Turn, Writes(type, u),
           type # "turn.started", index.activeTurn # u \/ type \notin TerminalType
    PROVE  index'.activeTurn = index.activeTurn
BY DEF Writes, Line, Stamp, ApplyEvent, ActiveAfter, Starts, Ends, TerminalType

\* What the log holds it keeps, and the new event is in it.
LEMMA LogGrows ==
    ASSUME TypeOK, NEW type \in EventType, NEW u \in Turn, Writes(type, u)
    PROVE  /\ Len(log') = Len(log) + 1
           /\ \A i \in 1..Len(log) : log'[i] = log[i]
           /\ log'[Len(log) + 1].type = type /\ log'[Len(log) + 1].turn = u
<1> DEFINE e == Line(type, u)
<1>1. log' = Append(log, e)
  BY DEF Writes
<1>2. e \in Event
  BY DEF Line, Stamp, Event, TypeOK, Index
<1>3. e.type = type /\ e.turn = u
  BY DEF Line, Stamp
<1>4. log \in Seq(Event)
  BY DEF TypeOK
<1> HIDE DEF e
<1>5. QED
  BY <1>1, <1>2, <1>3, <1>4, AppendProperties

\* state.json names the turn that is under way, unless its cancellation has been
\* announced already; a late turn.cancelled of another turn does not clear it.
THEOREM ActiveWhileRunningHolds == Spec => []ActiveWhileRunning
<1>1. Init => ActiveWhileRunning
  BY DEF Init, ActiveWhileRunning, UnderWay
<1>2. TypeOK /\ OneTurnRuns /\ ActiveWhileRunning /\ [Next]_vars => ActiveWhileRunning'
  <2> SUFFICES ASSUME TypeOK, OneTurnRuns, ActiveWhileRunning, [Next]_vars,
                      NEW t \in Turn, pc'[t] \in UnderWay
               PROVE  index'.activeTurn = t \/ Logged("turn.cancelled", t)'
    BY DEF ActiveWhileRunning
  <2>1. CASE Silent
    BY <2>1 DEF Silent, ActiveWhileRunning, Logged, Rows
  <2>2. ASSUME NEW u \in Turn, Register(u) \/ Leave(u) \/ MovesOn(u)
        PROVE  index'.activeTurn = t \/ Logged("turn.cancelled", t)'
    <3>1. pc[t] \in UnderWay
      BY <2>2 DEF Register, Leave, MovesOn, Goto, TypeOK, UnderWay
    <3>2. UNCHANGED <<log, index>>
      BY <2>2 DEF Register, Leave, MovesOn, store
    <3>3. QED BY <3>1, <3>2 DEF ActiveWhileRunning, Logged, Rows
  <2>3. ASSUME NEW u \in Turn, NEW type \in EventType, Writes(type, u),
               Logged("turn.cancelled", t)
        PROVE  Logged("turn.cancelled", t)'
    <3>1. Len(log') = Len(log) + 1 /\ \A i \in 1..Len(log) : log'[i] = log[i]
      BY <2>3, LogGrows
    <3>2. Len(log) \in Nat
      BY DEF TypeOK
    <3>3. PICK i \in Rows("turn.cancelled", t) : TRUE
      BY <2>3 DEF Logged
    <3>4. i \in Rows("turn.cancelled", t)'
      BY <3>1, <3>2, <3>3 DEF Rows
    <3>5. QED BY <3>4 DEF Logged
  <2>4. ASSUME NEW u \in Turn, SpeaksUp(u)
        PROVE  index'.activeTurn = t \/ Logged("turn.cancelled", t)'
    <3>1. PICK from \in Stage, to \in Stage, type \in EventType :
              /\ Goto(u, from, to) /\ Writes(type, u)
              /\ from \in Registered /\ to \in UnderWay \cup {"leaving"}
              /\ from \in UnderWay \/ type = "turn.started"
              /\ type = "turn.started" => from = "recorded"
              /\ type = "turn.started" => index'.activeTurn = u \/ to = "leaving"
              /\ type \in TerminalType => to = "leaving"
      BY <2>4 DEF SpeaksUp
    <3>2. u = t
      <4>1. ASSUME u # t PROVE FALSE
        <5>1. pc[t] \in Registered /\ pc[u] \in Registered
          BY <3>1, <4>1 DEF Goto, TypeOK, UnderWay, Registered, Stage
        <5>2. QED BY <4>1, <5>1 DEF OneTurnRuns
      <4>2. QED BY <4>1
    <3>3. CASE type = "turn.started"
      BY <3>1, <3>2, <3>3 DEF Goto, TypeOK, UnderWay
    <3>4. CASE type # "turn.started"
      <4>1. pc[t] \in UnderWay
        BY <3>1, <3>2, <3>4 DEF Goto
      <4>2. type \notin TerminalType
        BY <3>1, <3>2 DEF Goto, UnderWay, TypeOK
      <4>3. CASE Logged("turn.cancelled", t)
        BY <2>3, <3>1, <4>3
      <4>4. CASE index.activeTurn = t
        BY <3>1, <3>4, <4>2, <4>4, ActiveKept
      <4>5. QED BY <4>1, <4>3, <4>4 DEF ActiveWhileRunning
    <3>5. QED BY <3>3, <3>4
  <2>5. ASSUME NEW u \in Turn, CancelLogged(u)
        PROVE  index'.activeTurn = t \/ Logged("turn.cancelled", t)'
    <3>1. Writes("turn.cancelled", u) /\ pc[t] \in UnderWay /\ "turn.cancelled" \in EventType
      BY <2>5 DEF CancelLogged, EventType, TerminalType
    <3>2. CASE u = t
      <4>1. Len(log') \in Rows("turn.cancelled", t)'
        BY <3>1, <3>2, LogGrows, LenProperties DEF Rows, TypeOK
      <4>2. QED BY <4>1 DEF Logged
    <3>3. CASE u # t /\ Logged("turn.cancelled", t)
      BY <2>3, <3>1, <3>3
    <3>4. CASE u # t /\ index.activeTurn = t
      BY <3>1, <3>4, ActiveKept
    <3>5. QED BY <3>1, <3>2, <3>3, <3>4 DEF ActiveWhileRunning
  <2>6. QED
    BY <2>1, <2>2, <2>4, <2>5, StepKinds
<1>3. QED
  BY <1>1, <1>2, TypeCorrect, OneTurnRunsHolds, PTL DEF Spec

-----------------------------------------------------------------------------
(* The order of events *)

\* Row i is an event of its turn other than a cancellation.
Own(i) == log[i].type # "turn.cancelled"

\* A turn that waits has said nothing yet.
FreshInv ==
    \A t \in Turn : pc[t] \in Waiting =>
        \A i \in 1..Len(log) : log[i].turn = t => ~Own(i)

\* Once the running turn has said something, no other turn has.
LastWordInv ==
    \A t \in Turn : pc[t] \in Registered =>
        \A i \in 1..Len(log) : log[i].turn = t /\ Own(i) =>
            \A j \in i..Len(log) : Own(j) => log[j].turn = t

OrderInv == FreshInv /\ LastWordInv /\ TurnsDoNotInterleave

LEMMA OrderHolds == Spec => []OrderInv
<1>1. Init => OrderInv
  BY DEF Init, OrderInv, FreshInv, LastWordInv, TurnsDoNotInterleave
<1>2. TypeOK /\ OneTurnRuns /\ OrderInv /\ [Next]_vars => OrderInv'
  <2> SUFFICES ASSUME TypeOK, OneTurnRuns, OrderInv, [Next]_vars PROVE OrderInv'
    OBVIOUS
  <2> DEFINE n == Len(log)
  <2>1. n \in Nat
    BY DEF TypeOK
  <2>2. ASSUME UNCHANGED log,
               \A t \in Turn : pc'[t] \in Waiting => pc[t] \in Waiting,
               \A t \in Turn : pc'[t] \in Registered =>
                                  pc[t] \in Registered \/ pc[t] \in Waiting
        PROVE  OrderInv'
    <3>1. FreshInv'
      BY <2>2 DEF OrderInv, FreshInv, Own
    <3>2. LastWordInv'
      BY <2>2 DEF OrderInv, FreshInv, LastWordInv, Own
    <3>3. TurnsDoNotInterleave'
      BY <2>2 DEF OrderInv, TurnsDoNotInterleave
    <3>4. QED BY <3>1, <3>2, <3>3 DEF OrderInv
  <2>3. ASSUME Silent PROVE OrderInv'
    BY <2>2, <2>3 DEF Silent
  <2>4. ASSUME NEW t \in Turn, Register(t) \/ Leave(t) \/ MovesOn(t) PROVE OrderInv'
    BY <2>2, <2>4 DEF Register, Leave, MovesOn, Goto, TypeOK, Waiting, Registered, Stage, store
  <2>5. ASSUME NEW t \in Turn, NEW type \in EventType, Writes(type, t),
               \A u \in Turn : pc'[u] \in Waiting => pc[u] \in Waiting /\ u # t,
               \A u \in Turn : pc'[u] \in Registered <=> u = t,
               pc[t] \in Registered, type # "turn.cancelled"
        PROVE  OrderInv'
    <3>1. /\ Len(log') = n + 1 /\ \A i \in 1..n : log'[i] = log[i]
          /\ log'[n + 1].turn = t
      BY <2>5, LogGrows
    <3> HIDE DEF n
    <3>2. FreshInv'
      BY <2>1, <2>5, <3>1 DEF OrderInv, FreshInv, Own, n
    <3>3. LastWordInv'
      BY <2>1, <2>5, <3>1 DEF OrderInv, LastWordInv, Own, n
    <3>4. TurnsDoNotInterleave'
      <4> SUFFICES ASSUME NEW i \in 1..(n + 1), NEW k \in 1..(n + 1), NEW j \in i..k,
                          log'[i].turn = log'[k].turn,
                          "turn.cancelled" \notin {log'[i].type, log'[j].type, log'[k].type}
                   PROVE  log'[j].turn = log'[i].turn
        BY <3>1 DEF TurnsDoNotInterleave
      <4>1. CASE k <= n
        BY <2>1, <3>1, <4>1 DEF OrderInv, TurnsDoNotInterleave, n
      <4>2. CASE k = n + 1 /\ (i = n + 1 \/ j = n + 1)
        BY <2>1, <3>1, <4>2
      <4>3. CASE k = n + 1 /\ i <= n /\ j <= n
        <5>1. log[i].turn = t /\ Own(i) /\ Own(j) /\ i \in 1..n /\ j \in i..n
          BY <2>1, <3>1, <4>3 DEF Own
        <5>2. log[j].turn = t
          BY <2>5, <5>1 DEF OrderInv, LastWordInv, n
        <5>3. QED BY <2>1, <3>1, <5>1, <5>2
      <4>4. QED BY <2>1, <4>1, <4>2, <4>3
    <3>5. QED BY <3>2, <3>3, <3>4 DEF OrderInv
  <2>6. ASSUME NEW t \in Turn, NEW type \in EventType, Writes(type, t),
               \A u \in Turn : pc'[u] \in Waiting => pc[u] \in Waiting,
               \A u \in Turn : pc'[u] \in Registered => pc[u] \in Registered,
               type = "turn.cancelled"
        PROVE  OrderInv'
    <3>1. /\ Len(log') = n + 1 /\ \A i \in 1..n : log'[i] = log[i]
          /\ log'[n + 1].type = "turn.cancelled"
      BY <2>6, LogGrows
    <3> HIDE DEF n
    <3>2. FreshInv'
      BY <2>1, <2>6, <3>1 DEF OrderInv, FreshInv, Own, n
    <3>3. LastWordInv'
      BY <2>1, <2>6, <3>1 DEF OrderInv, LastWordInv, Own, n
    <3>4. TurnsDoNotInterleave'
      BY <2>1, <2>6, <3>1 DEF OrderInv, TurnsDoNotInterleave, n
    <3>5. QED BY <3>2, <3>3, <3>4 DEF OrderInv
  <2>7. ASSUME NEW t \in Turn, SpeaksUp(t) PROVE OrderInv'
    <3>1. PICK from \in Stage, to \in Stage, type \in EventType :
              /\ Goto(t, from, to) /\ Writes(type, t)
              /\ from \in Registered /\ to \in UnderWay \cup {"leaving"}
      BY <2>7 DEF SpeaksUp
    <3>2. to \in Registered /\ to \notin Waiting
      BY <3>1 DEF UnderWay, Registered, Waiting, Stage
    <3>3. \A u \in Turn : pc[u] \in Registered <=> u = t
      BY <3>1 DEF OneTurnRuns, Goto
    <3>4. /\ \A u \in Turn : pc'[u] \in Waiting => pc[u] \in Waiting /\ u # t
          /\ \A u \in Turn : pc'[u] \in Registered <=> u = t
          /\ pc[t] \in Registered
      BY <3>1, <3>2, <3>3 DEF Goto, TypeOK
    <3>5. QED BY <2>5, <2>6, <3>1, <3>3, <3>4
  <2>8. ASSUME NEW t \in Turn, CancelLogged(t) PROVE OrderInv'
    BY <2>6, <2>8 DEF CancelLogged, EventType, TerminalType
  <2>9. QED
    BY <2>3, <2>4, <2>7, <2>8, StepKinds
<1>3. QED
  BY <1>1, <1>2, TypeCorrect, OneTurnRunsHolds, PTL DEF Spec

\* Whatever fails, between two events of a turn stands no event of another turn,
\* cancellations apart: turns run one after the other, and a turn says nothing
\* before its registration or after its removal.
THEOREM TurnsDoNotInterleaveHolds == Spec => []TurnsDoNotInterleave
<1>1. OrderInv => TurnsDoNotInterleave
  BY DEF OrderInv
<1>2. QED
  BY <1>1, OrderHolds, PTL

-----------------------------------------------------------------------------
(* The numbers of events *)

\* An append that does not fail writes the line and the index.
LEMMA WholeAppends ==
    ASSUME TypeOK, [Next]_vars, "append" \notin Fault \/ faults' = 0
    PROVE  \/ UNCHANGED <<log, index>>
           \/ \E type \in EventType, t \in Turn : Logs(type, t)
<1>1. ~Strikes("append")
  BY DEF Strikes, TypeOK
<1>2. ASSUME NEW t \in Turn, StartTurn(t) \/ Runs(t) \/ Streams(t)
      PROVE  UNCHANGED <<log, index>> \/ \E type \in EventType : Logs(type, t)
  BY <1>2 DEF StartTurn, Runs, Streams, Proceeds, Register, Reject, RecordRunning, Records,
              EmitStarted, ReadHistory, HistoryUnreadable, RecordCompleted, EmitMessage,
              EmitCompleted, Classify, LeaveToCancel, Report, EmitStatus, Leave, Close,
              EmitDelta, StreamEnds, StreamBreaks, Emits, EventType, TerminalType, store
<1>3. ASSUME NEW t \in Turn, LookupFails(t) \/ ReadFails(t) \/ RecordFails(t) \/ AppendFails(t)
      PROVE  UNCHANGED <<log, index>>
  BY <1>1, <1>3 DEF LookupFails, ReadFails, RecordFails, AppendFails, Errs, store
<1>4. ASSUME NEW c \in Connection, EmitCancelled(c)
      PROVE  \E type \in EventType, t \in Turn : Logs(type, t)
  <2>1. handler[c].turn \in Turn
    BY <1>4 DEF EmitCancelled, HandlerAt, Idle, TypeOK
  <2>2. QED BY <1>4, <2>1 DEF EmitCancelled, EventType, TerminalType
<1>5. ASSUME NEW c \in Connection,
             \/ \E t \in Turn : AskCancel(c, t)
             \/ CancelTurn(c) \/ TurnNotFound(c) \/ CancelFails(c) \/ Breaks(c)
      PROVE  UNCHANGED <<log, index>>
  BY <1>1, <1>5 DEF AskCancel, CancelTurn, TurnNotFound, CancelFails, Breaks, store
<1>6. CASE UNCHANGED vars
  BY <1>6 DEF vars, store
<1>7. QED
  BY <1>2, <1>3, <1>4, <1>5, <1>6 DEF Next, Handles

\* Every event carries its position, and state.json the number of the last one.
NumbersArePositions ==
    /\ index.latestSeq = Len(log)
    /\ \A i \in 1..Len(log) : log[i].seq = i

\* Unless an append fails, the numbers of the events are their positions, so that the
\* renumbered log of the refinement is the log itself.
THEOREM NumbersArePositionsHolds ==
    ASSUME "append" \notin Fault
    PROVE  Spec => []NumbersArePositions
<1>1. Init => NumbersArePositions
  BY DEF Init, InitIndex, NumbersArePositions
<1>2. TypeOK /\ NumbersArePositions /\ [Next]_vars => NumbersArePositions'
  <2> SUFFICES ASSUME TypeOK, NumbersArePositions, [Next]_vars PROVE NumbersArePositions'
    OBVIOUS
  <2>1. ASSUME NEW t \in Turn, NEW type \in EventType, Logs(type, t)
        PROVE  NumbersArePositions'
    <3>1. log' = Append(log, Line(type, t)) /\ index'.latestSeq = index.latestSeq + 1
      BY <2>1 DEF Logs, ApplyEvent, Line, Stamp
    <3>2. Line(type, t).seq = Len(log) + 1
      BY DEF Line, Stamp, NumbersArePositions
    <3>3. log \in Seq(Event)
      BY DEF TypeOK
    <3>4. /\ Len(log') = Len(log) + 1 /\ log'[Len(log) + 1] = Line(type, t)
          /\ \A i \in 1..Len(log) : log'[i] = log[i]
      BY <3>1, <3>3
    <3>5. QED BY <3>1, <3>2, <3>3, <3>4 DEF NumbersArePositions
  <2>2. ASSUME UNCHANGED <<log, index>> PROVE NumbersArePositions'
    BY <2>2 DEF NumbersArePositions
  <2>3. QED
    BY <2>1, <2>2, WholeAppends
<1>3. QED
  BY <1>1, <1>2, TypeCorrect, PTL DEF Spec

-----------------------------------------------------------------------------
(* The refinement of TurnProtocol.  The protocol's log is events.jsonl with its
   events renumbered, its holder is Runtime.running, what it has said is read off
   the place of its goroutine, and a pending cancellation of a turn is a cancel
   handler that has yet to append its turn.cancelled. *)

\* The substitutions of the refinement mapping.
Phase == IF running = NoTurn THEN "none" ELSE PhaseOf(pc[running])
Emitters(t) == {c \in Connection : handler[c] = [turn |-> t, at |-> "emitting"]}
PendingMap == [t \in Turn |-> Pending(t)]

-----------------------------------------------------------------------------
(* The log *)

LEMMA RenumberedAppend ==
    ASSUME NEW events \in Seq(Event), NEW e \in Event
    PROVE  /\ Len(Renumbered(events)) = Len(events)
           /\ Renumbered(Append(events, e))
                 = Append(Renumbered(events), [e EXCEPT !.seq = Len(events) + 1])
<1> DEFINE n == Len(events)
           more == Append(events, e)
           last == [e EXCEPT !.seq = n + 1]
           old == Renumbered(events)
<1>1. n \in Nat /\ DOMAIN events = 1..n /\ \A i \in 1..n : events[i] \in Event
  OBVIOUS
<1>2. /\ DOMAIN more = 1..(n + 1) /\ more[n + 1] = e
      /\ \A i \in 1..n : more[i] = events[i]
  OBVIOUS
<1>3. old = [i \in 1..n |-> [events[i] EXCEPT !.seq = i]]
  BY <1>1 DEF Renumbered
<1>4. old \in Seq(Event) /\ Len(old) = n /\ last \in Event
  <2>1. ASSUME NEW i \in 1..n PROVE [events[i] EXCEPT !.seq = i] \in Event
    <3>1. events[i] \in Event /\ i \in Nat
      BY <1>1
    <3>2. QED BY <3>1 DEF Event
  <2>2. old \in [1..n -> Event]
    BY <1>3, <2>1
  <2>3. last \in Event
    BY <1>1 DEF Event
  <2>4. QED BY <1>1, <2>2, <2>3
<1>5. Renumbered(more) = [i \in 1..(n + 1) |-> [more[i] EXCEPT !.seq = i]]
  BY <1>2 DEF Renumbered
<1>6. Append(old, last) = [i \in 1..(n + 1) |-> IF i = n + 1 THEN last ELSE old[i]]
  BY <1>1, <1>4
<1>7. ASSUME NEW i \in 1..(n + 1)
      PROVE  [more[i] EXCEPT !.seq = i] = IF i = n + 1 THEN last ELSE old[i]
  <2>1. CASE i = n + 1
    BY <1>2, <2>1
  <2>2. CASE i # n + 1
    <3>1. i \in 1..n /\ more[i] = events[i]
      BY <1>1, <1>2, <2>2
    <3>2. QED BY <1>3, <2>2, <3>1
  <2>3. QED BY <2>1, <2>2
<1>8. QED
  BY <1>4, <1>5, <1>6, <1>7

\* A line the runtime writes is an event the protocol adds.
LEMMA WritesAdds ==
    ASSUME TypeOK, NEW type \in EventType, NEW t \in Turn, Writes(type, t)
    PROVE  Protocol!Adds(type, t)
<1>1. Line(type, t) \in Event /\ log \in Seq(Event) /\ log' = Append(log, Line(type, t))
  BY DEF Line, Stamp, Event, TypeOK, Index, Writes
<1>2. [Line(type, t) EXCEPT !.seq = Len(log) + 1]
          = Stamp([type |-> type, turn |-> t], Len(log) + 1)
  BY DEF Line, Stamp
<1>3. Renumbered(log)' = Renumbered(Append(log, Line(type, t)))
  BY <1>1 DEF Renumbered
<1>4. QED
  BY <1>1, <1>2, <1>3, RenumberedAppend DEF Protocol!Adds, Protocol!Stamp, Stamp

-----------------------------------------------------------------------------
(* The holder and what it has said *)

\* Where the goroutine of the holder stands tells what the turn has said.
LEMMA PhaseTable ==
    /\ PhaseOf("starting") = "taken" /\ PhaseOf("recorded") = "taken"
    /\ PhaseOf("reading") = "open" /\ PhaseOf("streaming") = "open"
    /\ PhaseOf("completed") = "open" /\ PhaseOf("answered") = "open"
    /\ PhaseOf("failing") = "open" /\ PhaseOf("classified") = "open"
    /\ PhaseOf("reporting") = "open"
    /\ PhaseOf("ending") = "answered" /\ PhaseOf("leaving") = "over"
BY DEF PhaseOf

\* A step of the registered goroutine moves the holder from phase to phase.
LEMMA HolderMoves ==
    ASSUME TypeOK, OneTurnRuns, NEW t \in Turn, NEW from \in Registered, NEW to,
           Goto(t, from, to), UNCHANGED running
    PROVE  /\ running = t /\ running # NoTurn /\ running' = t
           /\ Phase = PhaseOf(from) /\ Phase' = PhaseOf(to)
<1>1. running = t
  BY DEF Goto, OneTurnRuns
<1>2. running # NoTurn
  BY <1>1, NoTurnAssumption
<1>3. pc[t] = from /\ pc'[t] = to
  BY DEF Goto, TypeOK
<1>4. PhaseOf(pc[running])' = PhaseOf(to)
  BY <1>1, <1>3 DEF PhaseOf
<1>5. QED
  BY <1>1, <1>2, <1>3, <1>4 DEF Phase

\* A step of a goroutine that is not registered leaves the holder alone.
LEMMA OthersMove ==
    ASSUME TypeOK, OneTurnRuns, NEW t \in Turn, NEW from \in Stage \ Registered, NEW to,
           Goto(t, from, to), UNCHANGED running
    PROVE  Phase' = Phase
<1>1. CASE running = NoTurn
  BY <1>1 DEF Phase
<1>2. CASE running # NoTurn
  <2>1. running \in Turn /\ running # t
    BY <1>2 DEF TypeOK, OneTurnRuns, Goto
  <2>2. pc'[running] = pc[running]
    BY <2>1 DEF Goto, TypeOK
  <2>3. PhaseOf(pc[running])' = PhaseOf(pc[running])
    BY <2>2 DEF PhaseOf
  <2>4. QED BY <1>2, <2>3 DEF Phase
<1>3. QED BY <1>1, <1>2

-----------------------------------------------------------------------------
(* Pending cancellations *)

\* A handler that neither starts nor ends an announcement leaves them as they are.
LEMMA PendingSame ==
    ASSUME \A c \in Connection, t \in Turn : c \in Emitters(t)' <=> c \in Emitters(t)
    PROVE  PendingMap' = PendingMap
<1>1. \A t \in Turn : Emitters(t)' = Emitters(t)
  BY DEF Emitters
<1>2. \A t \in Turn : Pending(t)' = Pending(t)
  BY <1>1 DEF Emitters, Pending
<1>3. QED
  BY <1>2 DEF PendingMap

\* Finitely many handlers announce the cancellation of a turn.
LEMMA EmittersFinite ==
    ASSUME NEW t PROVE IsFiniteSet(Emitters(t)) /\ Pending(t) = Cardinality(Emitters(t))
<1>1. IsFiniteSet(Connection) /\ Emitters(t) \subseteq Connection
  BY RuntimeAssumption DEF Emitters
<1>2. QED
  BY <1>1, FS_Subset DEF Emitters, Pending

-----------------------------------------------------------------------------
(* Steps of the runtime as steps of the protocol *)

Follows == [Protocol!Next]_(Protocol!vars)

\* What the protocol does not see.
LEMMA Unseen ==
    ASSUME UNCHANGED <<log, running>>, Phase' = Phase, PendingMap' = PendingMap
    PROVE  Follows
BY DEF Follows, Protocol!vars, Phase, PendingMap, Renumbered

\* The holder goes on without a word, or gives up.
LEMMA GoesOn ==
    ASSUME TypeOK, OneTurnRuns, NEW t \in Turn, NEW from \in Registered, NEW to,
           Goto(t, from, to), UNCHANGED <<log, running>>, PendingMap' = PendingMap,
           \/ PhaseOf(to) = PhaseOf(from)
           \/ PhaseOf(from) \in {"taken", "open", "answered"} /\ PhaseOf(to) = "over"
    PROVE  Follows
<1>1. Phase = PhaseOf(from) /\ Phase' = PhaseOf(to)
  BY HolderMoves
<1>2. CASE PhaseOf(to) = PhaseOf(from)
  BY <1>1, <1>2, Unseen
<1>3. CASE PhaseOf(from) \in {"taken", "open", "answered"} /\ PhaseOf(to) = "over"
  <2>1. Protocol!FallSilent
    BY <1>1, <1>3 DEF Protocol!FallSilent, Phase, PendingMap, Renumbered
  <2>2. QED BY <2>1 DEF Follows, Protocol!Next
<1>4. QED BY <1>2, <1>3

\* The holder says something.
LEMMA Speaks ==
    ASSUME TypeOK, OneTurnRuns, NEW t \in Turn, NEW from \in Registered, NEW to,
           NEW type \in EventType, Goto(t, from, to), Writes(type, t), UNCHANGED running,
           PendingMap' = PendingMap,
           LET now == PhaseOf(from)  next == PhaseOf(to)
           IN  \/ type = "turn.started" /\ now = "taken" /\ next \in {"open", "over"}
               \/ type = "assistant.delta" /\ now = "open" /\ next = "open"
               \/ type = "assistant.message" /\ now = "open" /\ next \in {"answered", "over"}
               \/ type = "turn.completed" /\ now = "answered" /\ next = "over"
               \/ type = "turn.failed" /\ now = "open" /\ next = "over"
               \/ type = "turn.cancelled" /\ now = "open" /\ next = "over"
    PROVE  Follows
<1>1. /\ running = t /\ running # NoTurn /\ running' = running
      /\ Phase = PhaseOf(from) /\ Phase' = PhaseOf(to)
  BY HolderMoves
<1>2. Protocol!Adds(type, running)
  BY <1>1, WritesAdds
<1>3. ASSUME NEW said, NEW before, NEW after, type = said, Phase = before,
             Phase' \in {after, "over"}
      PROVE  Protocol!Says(said, before, after)
  BY <1>1, <1>2, <1>3 DEF Protocol!Says, Phase, PendingMap
<1>4. Protocol!Speaks
  <2>1. CASE type = "assistant.delta"
    <3>1. Phase = "open" /\ Phase' = "open"
      BY <1>1, <2>1
    <3>2. Protocol!Says("assistant.delta", "open", "open")
      BY <1>3, <2>1, <3>1
    <3>3. QED BY <3>1, <3>2 DEF Protocol!Speaks, Protocol!Streams, Phase
  <2>2. CASE type # "assistant.delta"
    BY <1>1, <1>3, <2>2 DEF Protocol!Speaks
  <2>3. QED BY <2>1, <2>2
<1>5. QED BY <1>4 DEF Follows, Protocol!Next

\* A turn that is not registered goes on: the protocol does not see it.
LEMMA Outside ==
    ASSUME TypeOK, OneTurnRuns, NEW t \in Turn, NEW from \in Stage \ Registered, NEW to,
           Goto(t, from, to), UNCHANGED <<log, running>>, PendingMap' = PendingMap
    PROVE  Follows
BY OthersMove, Unseen

\* A cancel handler that leaves the runtime, the goroutines and the log alone.
LEMMA HandlerMoves ==
    ASSUME UNCHANGED <<log, running, pc>>, PendingMap' = PendingMap
    PROVE  Follows
<1>1. Phase' = Phase
  BY DEF Phase, PhaseOf
<1>2. QED BY <1>1, Unseen

\* Registering a turn and removing it.
LEMMA TakesAndLeaves ==
    ASSUME TypeOK, OneTurnRuns, NEW t \in Turn, Register(t) \/ Leave(t)
    PROVE  Follows
<1>1. PendingMap' = PendingMap
  BY PendingSame DEF Register, Leave, Emitters
<1>2. CASE Register(t)
  <2>1. running = NoTurn /\ running' = t /\ running' # NoTurn /\ UNCHANGED log
    BY <1>2, NoTurnAssumption DEF Register, Free, store
  <2>2. pc'[t] = "starting"
    BY <1>2 DEF Register, Goto, TypeOK
  <2>3. Phase' = "taken"
    BY <2>1, <2>2 DEF Phase, PhaseOf
  <2>4. Protocol!Take(t)
    BY <1>1, <2>1, <2>3 DEF Protocol!Take, Phase, PendingMap, Renumbered
  <2>5. QED BY <2>4 DEF Follows, Protocol!Next
<1>3. CASE Leave(t)
  <2>1. running = t /\ running # NoTurn /\ pc[t] = "leaving"
    BY <1>3, NoTurnAssumption DEF Leave, Goto, OneTurnRuns, Registered, Stage
  <2>2. Phase = "over" /\ Phase' = "none" /\ running' = NoTurn /\ UNCHANGED log
    BY <1>3, <2>1, PhaseTable DEF Leave, Phase, store
  <2>3. Protocol!Leave
    BY <1>1, <2>2 DEF Protocol!Leave, Phase, PendingMap, Renumbered
  <2>4. QED BY <2>3 DEF Follows, Protocol!Next
<1>4. QED BY <1>2, <1>3

\* CancelTurn accepts: one announcement more is pending.
LEMMA OnePendingMore ==
    ASSUME TypeOK, NEW c \in Connection, CancelTurn(c)
    PROVE  \E t \in Turn :
               /\ running = t /\ Pending(t) \in Nat /\ Pending(t)' = Pending(t) + 1
               /\ \A u \in Turn : u # t => Pending(u)' = Pending(u)
<1>1. PICK t \in Turn : running = t /\ handler[c] = [turn |-> t, at |-> "asked"]
  BY DEF CancelTurn, HandlerAt, Idle, TypeOK
<1>2. handler' = [handler EXCEPT ![c] = [turn |-> t, at |-> "emitting"]]
  <2>1. handler' = [handler EXCEPT ![c] = [handler[c] EXCEPT !.at = "emitting"]]
    BY DEF CancelTurn
  <2>2. [handler[c] EXCEPT !.at = "emitting"] = [turn |-> t, at |-> "emitting"]
    BY <1>1
  <2>3. QED BY <2>1, <2>2
<1>3. /\ c \notin Emitters(t) /\ Emitters(t)' = Emitters(t) \cup {c}
      /\ \A u \in Turn : u # t => Emitters(u)' = Emitters(u)
  BY <1>1, <1>2 DEF Emitters, CancelTurn, TypeOK
<1>4. Pending(t)' = Cardinality(Emitters(t)')
  BY DEF CancelTurn, Pending, Emitters
<1>5. /\ Cardinality(Emitters(t)') = Cardinality(Emitters(t)) + 1
      /\ Cardinality(Emitters(t)) \in Nat
  BY <1>3, EmittersFinite, FS_AddElement, FS_CardinalityType
<1>6. \A u \in Turn : u # t => Pending(u)' = Pending(u)
  BY <1>3 DEF Pending, Emitters
<1>7. QED BY <1>1, <1>4, <1>5, <1>6, EmittersFinite

LEMMA Accepts ==
    ASSUME TypeOK, NEW c \in Connection, CancelTurn(c)
    PROVE  Follows
<1>1. PICK t \in Turn :
          /\ running = t /\ Pending(t)' = Pending(t) + 1
          /\ \A u \in Turn : u # t => Pending(u)' = Pending(u)
  BY OnePendingMore
<1>2. PendingMap' = [PendingMap EXCEPT ![t] = @ + 1]
  BY <1>1 DEF PendingMap
<1>3. UNCHANGED <<log, running>> /\ Phase' = Phase
  BY DEF CancelTurn, Phase, PhaseOf, store
<1>4. Protocol!AcceptCancel(t)
  BY <1>1, <1>2, <1>3 DEF Protocol!AcceptCancel, Phase, PendingMap, Renumbered
<1>5. QED BY <1>1, <1>4 DEF Follows, Protocol!Next

\* A handler at its append settles one pending announcement, with or without the
\* event.
LEMMA OnePendingLess ==
    ASSUME TypeOK, NEW c \in Connection, HandlerAt(c, "emitting"), HandlerDone(c)
    PROVE  \E t \in Turn :
               /\ t = handler[c].turn
               /\ Pending(t) \in Nat /\ Pending(t) > 0 /\ Pending(t)' = Pending(t) - 1
               /\ \A u \in Turn : u # t => Pending(u)' = Pending(u)
<1>1. PICK t \in Turn : handler[c] = [turn |-> t, at |-> "emitting"]
  BY DEF HandlerAt, Idle, TypeOK
<1>2. handler' = [handler EXCEPT ![c] = Idle] /\ Idle.at = "idle"
  BY DEF HandlerDone, Idle
<1>3. /\ c \in Emitters(t) /\ Emitters(t)' = Emitters(t) \ {c}
      /\ \A u \in Turn : u # t => Emitters(u)' = Emitters(u)
  BY <1>1, <1>2 DEF Emitters, TypeOK
<1>4. Pending(t)' = Cardinality(Emitters(t)')
  BY DEF Pending, Emitters
<1>5. Cardinality(Emitters(t)') = Cardinality(Emitters(t)) - 1
  BY <1>3, EmittersFinite, FS_RemoveElement
<1>6. Cardinality(Emitters(t)) \in Nat /\ Cardinality(Emitters(t)) # 0
  BY <1>3, EmittersFinite, FS_CardinalityType, FS_EmptySet
<1>7. \A u \in Turn : u # t => Pending(u)' = Pending(u)
  BY <1>3 DEF Pending, Emitters
<1>8. t = handler[c].turn
  BY <1>1
<1>9. QED BY <1>4, <1>5, <1>6, <1>7, <1>8, EmittersFinite

LEMMA Settles ==
    ASSUME TypeOK, NEW c \in Connection, HandlerAt(c, "emitting"), HandlerDone(c),
           Writes("turn.cancelled", handler[c].turn) \/ UNCHANGED log,
           UNCHANGED <<running, pc>>
    PROVE  Follows
<1>1. PICK t \in Turn :
          /\ t = handler[c].turn /\ Pending(t) > 0 /\ Pending(t)' = Pending(t) - 1
          /\ \A u \in Turn : u # t => Pending(u)' = Pending(u)
  BY OnePendingLess
<1>2. PendingMap[t] > 0 /\ PendingMap' = [PendingMap EXCEPT ![t] = @ - 1]
  BY <1>1 DEF PendingMap
<1>3. Protocol!Adds("turn.cancelled", t) \/ UNCHANGED Renumbered(log)
  BY <1>1, WritesAdds DEF Renumbered, EventType, TerminalType
<1>4. UNCHANGED running /\ Phase' = Phase
  BY DEF Phase, PhaseOf
<1>5. Protocol!SettleCancel(t)
  BY <1>2, <1>3, <1>4 DEF Protocol!SettleCancel, Phase, PendingMap
<1>6. QED BY <1>1, <1>5 DEF Follows, Protocol!Next

-----------------------------------------------------------------------------

\* Every step of a goroutine is a step of the protocol.
LEMMA GoroutineFollows ==
    ASSUME TypeOK, OneTurnRuns, NEW t \in Turn,
           \/ StartTurn(t) \/ Runs(t) \/ Streams(t)
           \/ LookupFails(t) \/ ReadFails(t) \/ RecordFails(t) \/ AppendFails(t)
    PROVE  Follows
<1> USE PhaseTable DEF Registered, Stage, EventType, TerminalType
<1>1. ASSUME UNCHANGED handler PROVE PendingMap' = PendingMap
  BY <1>1, PendingSame DEF Emitters
<1>2. ASSUME NEW from \in Stage, NEW to \in Stage, Proceeds(t, from, to),
             \/ from \notin Registered
             \/ PhaseOf(to) = PhaseOf(from)
             \/ PhaseOf(from) \in {"taken", "open", "answered"} /\ PhaseOf(to) = "over"
      PROVE  Follows
  BY <1>1, <1>2, Outside, GoesOn DEF Proceeds, store
<1>3. ASSUME \/ StartTurn(t) \/ Reject(t) \/ ReadHistory(t) \/ HistoryUnreadable(t)
             \/ StreamEnds(t) \/ StreamBreaks(t) \/ LeaveToCancel(t) \/ Report(t) \/ Close(t)
      PROVE  Follows
  BY <1>2, <1>3 DEF StartTurn, Reject, ReadHistory, HistoryUnreadable, StreamEnds,
                    StreamBreaks, LeaveToCancel, Report, Close
<1>4. ASSUME RecordRunning(t) \/ RecordCompleted(t) \/ Classify(t) PROVE Follows
  <2>1. UNCHANGED <<log, running, handler>>
    BY <1>4 DEF RecordRunning, RecordCompleted, Records, Classify, store
  <2>2. \/ Goto(t, "starting", "recorded") \/ Goto(t, "completed", "answered")
        \/ Goto(t, "failing", "classified")
    BY <1>4 DEF RecordRunning, RecordCompleted, Records, Classify
  <2>3. QED BY <1>1, <2>1, <2>2, GoesOn
<1>5. ASSUME NEW type, NEW from, NEW sent, NEW lost, Emits(t, type, from, sent, lost)
      PROVE  /\ Writes(type, t) /\ UNCHANGED running /\ PendingMap' = PendingMap
             /\ Goto(t, from, sent) \/ Goto(t, from, lost)
  <2>1. PICK ok : Goto(t, from, IF ok THEN sent ELSE lost)
    BY <1>5, Zenon DEF Emits
  <2>2. Goto(t, from, sent) \/ Goto(t, from, lost)
    BY <2>1
  <2>3. QED
    BY <1>1, <1>5, <2>2, AppendWrites DEF Emits
<1>6. ASSUME EmitStarted(t) PROVE Follows
  <2>1. /\ Writes("turn.started", t) /\ UNCHANGED running /\ PendingMap' = PendingMap
        /\ Goto(t, "recorded", "reading") \/ Goto(t, "recorded", "leaving")
    BY <1>5, <1>6 DEF EmitStarted
  <2>2. QED BY <2>1, Speaks
<1>7. ASSUME EmitDelta(t) PROVE Follows
  <2>1. /\ Writes("assistant.delta", t) /\ UNCHANGED running /\ PendingMap' = PendingMap
        /\ Goto(t, "streaming", "streaming") \/ Goto(t, "streaming", "failing")
    BY <1>5, <1>7 DEF EmitDelta
  <2>2. QED BY <2>1, Speaks
<1>8. ASSUME EmitMessage(t) PROVE Follows
  <2>1. /\ Writes("assistant.message", t) /\ UNCHANGED running /\ PendingMap' = PendingMap
        /\ Goto(t, "answered", "ending") \/ Goto(t, "answered", "leaving")
    BY <1>5, <1>8 DEF EmitMessage
  <2>2. QED BY <2>1, Speaks
<1>9. ASSUME EmitCompleted(t) PROVE Follows
  <2>1. /\ Writes("turn.completed", t) /\ UNCHANGED running /\ PendingMap' = PendingMap
        /\ Goto(t, "ending", "leaving")
    BY <1>5, <1>9 DEF EmitCompleted
  <2>2. QED BY <2>1, Speaks
<1>10. ASSUME EmitStatus(t) PROVE Follows
  <2>1. PICK type \in {"turn.cancelled", "turn.failed"} :
            Emits(t, type, "reporting", "leaving", "leaving")
    BY <1>10 DEF EmitStatus
  <2>2. /\ Writes(type, t) /\ UNCHANGED running /\ PendingMap' = PendingMap
        /\ Goto(t, "reporting", "leaving")
    BY <1>5, <2>1
  <2>3. QED BY <2>2, Speaks
<1>11. ASSUME LookupFails(t) \/ ReadFails(t) \/ RecordFails(t) PROVE Follows
  <2>1. UNCHANGED <<log, running, handler>>
    BY <1>11 DEF LookupFails, ReadFails, RecordFails, Errs, store
  <2>2. \/ Goto(t, "accepted", "closing") \/ Goto(t, "reading", "leaving")
        \/ Goto(t, "starting", "leaving") \/ Goto(t, "completed", "leaving")
    BY <1>11 DEF LookupFails, ReadFails, RecordFails, Errs
  <2>3. QED BY <1>1, <2>1, <2>2, GoesOn, Outside
<1>12. ASSUME NEW from \in Registered, NEW to, NEW kind, NEW type,
              Errs(t, kind, from, to), StopsShort(type, t),
              Goto(t, from, to) /\ Writes(type, t) /\ UNCHANGED running
                  /\ PendingMap' = PendingMap => Follows,
              Goto(t, from, to) /\ UNCHANGED <<log, running>>
                  /\ PendingMap' = PendingMap => Follows
       PROVE  Follows
  BY <1>1, <1>12, AppendWrites DEF Errs
<1>13. ASSUME AppendFails(t) PROVE Follows
  <2>1. CASE Errs(t, "append", "recorded", "leaving") /\ StopsShort("turn.started", t)
    BY <1>12, <2>1, Speaks, GoesOn
  <2>2. CASE Errs(t, "append", "streaming", "failing") /\ StopsShort("assistant.delta", t)
    BY <1>12, <2>2, Speaks, GoesOn
  <2>3. CASE Errs(t, "append", "answered", "leaving") /\ StopsShort("assistant.message", t)
    BY <1>12, <2>3, Speaks, GoesOn
  <2>4. CASE Errs(t, "append", "ending", "leaving") /\ StopsShort("turn.completed", t)
    BY <1>12, <2>4, Speaks, GoesOn
  <2>5. CASE /\ Errs(t, "append", "reporting", "leaving")
             /\ StopsShort(IF status[t] = "cancelled" THEN "turn.cancelled" ELSE "turn.failed", t)
    BY <1>12, <2>5, Speaks, GoesOn
  <2>6. QED BY <1>13, <2>1, <2>2, <2>3, <2>4, <2>5 DEF AppendFails
<1>14. QED
  BY <1>3, <1>4, <1>6, <1>7, <1>8, <1>9, <1>10, <1>11, <1>13, TakesAndLeaves
     DEF Runs, Streams

\* Whatever fails, the order of the events in the log obeys TurnProtocol: RunTurn,
\* CancelTurn and completeWithError together never append an event out of its place,
\* whether an AppendEvent that fails has left nothing, a part of its line, the line
\* without the index, or both.
THEOREM TurnRefinement == Spec => ImplementsTurnProtocol
<1>1. Init => Protocol!Init
  <2> SUFFICES ASSUME Init PROVE Protocol!Init
    OBVIOUS
  <2>1. \A t \in Turn : Emitters(t) = {}
    BY DEF Init, Emitters, Idle
  <2>2. PendingMap = [t \in Turn |-> 0]
    BY <2>1, EmittersFinite, FS_EmptySet DEF PendingMap
  <2>3. QED BY <2>2 DEF Init, Protocol!Init, PendingMap, Renumbered
<1>2. TypeOK /\ OneTurnRuns /\ [Next]_vars => [Protocol!Next]_(Protocol!vars)
  <2> SUFFICES ASSUME TypeOK, OneTurnRuns, [Next]_vars PROVE Follows
    BY DEF Follows
  <2>1. ASSUME NEW c \in Connection, NEW t \in Turn, AskCancel(c, t) PROVE Follows
    <3>1. PendingMap' = PendingMap
      BY <2>1, PendingSame DEF AskCancel, HandlerAt, Emitters, TypeOK
    <3>2. QED BY <2>1, <3>1, HandlerMoves DEF AskCancel, store
  <2>2. ASSUME NEW c \in Connection, TurnNotFound(c) PROVE Follows
    <3>1. PendingMap' = PendingMap
      BY <2>2, PendingSame DEF TurnNotFound, HandlerAt, HandlerDone, Emitters, Idle, TypeOK
    <3>2. QED BY <2>2, <3>1, HandlerMoves DEF TurnNotFound, goroutine, store
  <2>3. ASSUME NEW c \in Connection, EmitCancelled(c) PROVE Follows
    BY <2>3, Settles, AppendWrites DEF EmitCancelled, goroutine
  <2>4. ASSUME NEW c \in Connection, CancelFails(c) PROVE Follows
    <3>1. CASE HandlerAt(c, "emitting")
      BY <2>4, <3>1, Settles, AppendWrites DEF CancelFails, HandlerAt, goroutine
    <3>2. CASE ~HandlerAt(c, "emitting")
      <4>1. PendingMap' = PendingMap
        BY <2>4, <3>2, PendingSame DEF CancelFails, HandlerAt, HandlerDone, Emitters, Idle, TypeOK
      <4>2. QED BY <2>4, <3>2, <4>1, HandlerMoves DEF CancelFails, goroutine, store
    <3>3. QED BY <3>1, <3>2
  <2>5. ASSUME NEW c \in Connection, Breaks(c) PROVE Follows
    BY <2>5, PendingSame, HandlerMoves DEF Breaks, Emitters, goroutine, store
  <2>6. CASE UNCHANGED vars
    BY <2>6, PendingSame, HandlerMoves DEF vars, Emitters, goroutine, store
  <2>7. QED
    BY <2>1, <2>2, <2>3, <2>4, <2>5, <2>6, GoroutineFollows, Accepts DEF Next, Handles
<1>3. QED
  BY <1>1, <1>2, TypeCorrect, OneTurnRunsHolds, PTL
     DEF Spec, ImplementsTurnProtocol, Protocol!Spec

=============================================================================
