---------------------------- MODULE TurnEndProofs ----------------------------
(***************************************************************************)
(* Proofs about how turns end, for any turns, connections and bounds: how  *)
(* many turn.cancelled a turn gets, and what its record and the log say of *)
(* its end while nothing fails.                                            *)
(*                                                                         *)
(* A cancellation has two announcers: the handler of an accepted cancel,   *)
(* and the goroutine of the turn if its own connection has cancelled its   *)
(* context and no handler had told the runtime when it looked at           *)
(* cancelEmitted.  A handler that comes later announces it again.          *)
(***************************************************************************)
EXTENDS TurnRuntimeProofs

Past == {"leaving", "closing", "done"}
Early == Stage \ ({"classified", "reporting"} \cup Past)

\* What the goroutine has to know before it announces a cancellation itself: a handler
\* that was accepted before it looked has left cancelEmitted behind.
Known ==
    \A t \in Turn :
        /\ pc[t] \in Waiting => accepted[t] = 0 /\ t \notin heeded
        /\ cancelled[t] => t \in asked \/ accepted[t] > 0
        /\ running = t /\ (accepted[t] > 0 \/ t \in heeded) => cancelEmitted
        /\ running = t /\ cancelEmitted /\ pc[t] \notin {"reporting", "leaving"} => t \in heeded
        /\ pc[t] \in Early => status[t] = "none"
        /\ pc[t] = "classified" /\ status[t] = "cancelled" => cancelled[t]
        /\ pc[t] = "reporting" /\ status[t] = "cancelled" => t \in asked \ heeded
        /\ pc[t] \in Past /\ status[t] = "cancelled" => t \in asked \cup heeded

\* The goroutine's own announcement, which it makes unless its append fails.
OwnWord(t) == IF pc[t] \in Past /\ status[t] = "cancelled" /\ t \notin heeded THEN 1 ELSE 0

Cancellations(t) == Rows("turn.cancelled", t)

Balance(t) ==
    /\ Announcements(t) <= accepted[t] + OwnWord(t)
    /\ faults = 0 => Announcements(t) = accepted[t] + OwnWord(t)
Balanced == \A t \in Turn : Balance(t)

\* The faults are counted.
LEMMA FaultsStay == ASSUME TypeOK, [Next]_vars, faults' = 0 PROVE faults = 0
<1>1. faults' = faults \/ faults' = faults + 1
  BY DEF Next, vars, Runs, Streams, Handles, Strikes, StartTurn, Register, Reject, Records,
         RecordRunning, EmitStarted, ReadHistory, HistoryUnreadable, EmitDelta, StreamEnds,
         StreamBreaks, RecordCompleted, EmitMessage, EmitCompleted, Classify, LeaveToCancel, Report,
         EmitStatus, Leave, Close, Proceeds, Emits, Errs, LookupFails, ReadFails, RecordFails,
         AppendFails, AskCancel, CancelTurn, TurnNotFound, EmitCancelled, CancelFails, Breaks
<1>2. QED BY <1>1 DEF TypeOK

\* Whoever sees no fault was not struck.
LEMMA NotStruck ==
    ASSUME TypeOK, faults' = 0, NEW kind PROVE ~Strikes(kind)
BY DEF Strikes, TypeOK

-----------------------------------------------------------------------------
(* What the goroutine knows *)

\* A goroutine moves on, and not to a place where Known says more.
LEMMA KnownMoves ==
    ASSUME TypeOK, Known, NEW t \in Turn, NEW from, NEW to, Goto(t, from, to),
           to \notin {"classified", "reporting"}, to \in Waiting => from \in Waiting,
           to \in Early => from \in Early, from \in {"reporting", "leaving"} => to = "leaving",
           \/ to \notin Past \/ from \in Past \cup Early \cup {"reporting"} \/ t \in heeded,
           UNCHANGED <<running, cancelEmitted, cancelled, status, history>>
    PROVE  Known'
<1>1. UNCHANGED <<asked, accepted, heeded>>
  BY DEF history
<1>2. pc[t] = from /\ pc'[t] = to /\ \A u \in Turn : u # t => pc'[u] = pc[u]
  BY DEF Goto, TypeOK
<1>3. QED
  BY <1>1, <1>2 DEF Known, Past

LEMMA KnownGoroutine ==
    ASSUME TypeOK, OneTurnRuns, Known, NEW t \in Turn,
           \/ StartTurn(t) \/ Runs(t) \/ Streams(t)
           \/ LookupFails(t) \/ ReadFails(t) \/ RecordFails(t) \/ AppendFails(t)
    PROVE  Known'
<1> USE DEF Waiting, Early, Past, Stage
<1>1. ASSUME \/ StartTurn(t) \/ Reject(t) \/ ReadHistory(t) \/ HistoryUnreadable(t)
             \/ StreamEnds(t) \/ StreamBreaks(t) \/ Close(t)
      PROVE  Known'
  BY <1>1, KnownMoves DEF StartTurn, Reject, ReadHistory, HistoryUnreadable, StreamEnds,
                          StreamBreaks, Close, Proceeds
<1>1a. ASSUME LeaveToCancel(t) PROVE Known'
  <2>1. pc[t] = "classified" /\ cancelEmitted
    BY <1>1a DEF LeaveToCancel, Announced, Proceeds, Goto
  <2>2. running = t
    BY <2>1 DEF OneTurnRuns, Registered
  <2>3. t \in heeded
    BY <2>1, <2>2 DEF Known
  <2>4. QED BY <1>1a, <2>3, KnownMoves DEF LeaveToCancel, Proceeds
<1>2. ASSUME NEW type, NEW from, NEW sent, NEW lost, Emits(t, type, from, sent, lost),
             from \in Early \cup {"reporting"}, sent \in {"leaving"} \cup (Early \ Waiting),
             lost \in {"leaving"} \cup (Early \ Waiting),
             from = "reporting" => sent = "leaving" /\ lost = "leaving"
      PROVE  Known'
  <2>1. PICK ok : Goto(t, from, IF ok THEN sent ELSE lost)
    BY <1>2, Zenon DEF Emits
  <2>2. UNCHANGED <<running, cancelEmitted, cancelled, status, history>>
    BY <1>2 DEF Emits
  <2>3. Goto(t, from, sent) \/ Goto(t, from, lost)
    BY <2>1
  <2>4. QED BY <1>2, <2>2, <2>3, KnownMoves
<1>3. ASSUME EmitStarted(t) \/ EmitDelta(t) \/ EmitMessage(t) \/ EmitCompleted(t) \/ EmitStatus(t)
      PROVE  Known'
  BY <1>2, <1>3 DEF EmitStarted, EmitDelta, EmitMessage, EmitCompleted, EmitStatus
<1>4. ASSUME RecordRunning(t) \/ RecordCompleted(t) PROVE Known'
  BY <1>4, KnownMoves DEF RecordRunning, RecordCompleted, Records
<1>5. ASSUME NEW kind, NEW from, NEW to, Errs(t, kind, from, to),
             from \in Early \cup {"reporting"}, to \in {"closing", "leaving", "failing"},
             from = "reporting" => to = "leaving"
      PROVE  Known'
  BY <1>5, KnownMoves DEF Errs
<1>6. ASSUME LookupFails(t) \/ ReadFails(t) \/ RecordFails(t) \/ AppendFails(t) PROVE Known'
  BY <1>5, <1>6 DEF LookupFails, ReadFails, RecordFails, AppendFails
<1>7. ASSUME Classify(t) PROVE Known'
  <2>1. /\ pc' = [pc EXCEPT ![t] = "classified"] /\ status' = [status EXCEPT ![t] = StatusOf(t)]
        /\ pc[t] = "failing"
        /\ UNCHANGED <<running, cancelEmitted, cancelled, asked, accepted, heeded>>
    BY <1>7 DEF Classify, Goto, history
  <2>2. StatusOf(t) = "cancelled" => cancelled[t]
    BY DEF StatusOf
  <2>3. QED BY <2>1, <2>2 DEF Known, TypeOK
\* It reports only what no handler will: the handler would have been accepted.
<1>8. ASSUME Report(t) PROVE Known'
  <2>1. /\ pc[t] = "classified" /\ pc' = [pc EXCEPT ![t] = "reporting"] /\ ~Announced(t)
        /\ UNCHANGED <<running, cancelEmitted, cancelled, status, asked, accepted, heeded>>
    BY <1>8 DEF Report, Proceeds, Goto, history
  <2>2. running = t /\ running # NoTurn
    BY <2>1, NoTurnAssumption DEF OneTurnRuns, Registered
  <2>3. status[t] = "cancelled" => t \in asked \ heeded
    BY <2>1, <2>2 DEF Known, Announced
  <2>4. QED BY <2>1, <2>3 DEF Known, TypeOK
<1>9. ASSUME Register(t) PROVE Known'
  <2>1. /\ pc[t] = "accepted" /\ pc' = [pc EXCEPT ![t] = "starting"] /\ running' = t
        /\ ~cancelEmitted' /\ UNCHANGED <<cancelled, status, asked, accepted, heeded>>
    BY <1>9 DEF Register, Goto, history
  <2>2. accepted[t] = 0 /\ t \notin heeded
    BY <2>1 DEF Known
  <2>3. QED BY <2>1, <2>2 DEF Known, TypeOK
<1>10. ASSUME Leave(t) PROVE Known'
  <2>1. /\ pc[t] = "leaving" /\ pc' = [pc EXCEPT ![t] = "closing"] /\ running' = NoTurn
        /\ UNCHANGED <<cancelled, status, asked, accepted, heeded>>
    BY <1>10 DEF Leave, Goto, history
  <2>2. QED BY <2>1, NoTurnAssumption DEF Known, TypeOK
<1>11. QED
  BY <1>1, <1>1a, <1>3, <1>4, <1>6, <1>7, <1>8, <1>9, <1>10 DEF Runs, Streams

LEMMA KnownHolds == Spec => []Known
<1>1. Init => Known
  <2> SUFFICES ASSUME Init PROVE Known
    OBVIOUS
  <2>1. \A t \in Turn : pc[t] = "new" /\ status[t] = "none"
    BY DEF Init
  <2>2. \A t \in Turn : accepted[t] = 0 /\ ~(accepted[t] > 0)
    <3> TAKE t \in Turn
    <3>1. accepted[t] = 0
      BY DEF Init
    <3>2. QED BY <3>1
  <2>3. \A t \in Turn : ~cancelled[t]
    BY Zenon DEF Init
  <2>4. ~cancelEmitted /\ heeded = {} /\ running = NoTurn
    BY DEF Init
  <2>5. QED BY <2>1, <2>2, <2>3, <2>4, NoTurnAssumption DEF Known, Past
<1>2. TypeOK /\ OneTurnRuns /\ Known /\ [Next]_vars => Known'
  <2> SUFFICES ASSUME TypeOK, OneTurnRuns, Known, [Next]_vars PROVE Known'
    OBVIOUS
  <2>1. ASSUME NEW c \in Connection, NEW t \in Turn, AskCancel(c, t) PROVE Known'
    <3>1. /\ cancelled' = [cancelled EXCEPT ![t] = @ \/ Stored(c, t)]
          /\ asked' = IF Stored(c, t) THEN asked \cup {t} ELSE asked
          /\ UNCHANGED <<running, cancelEmitted, pc, status, accepted, heeded>>
      BY <2>1 DEF AskCancel
    <3>2. CASE Stored(c, t)
      BY <3>1, <3>2 DEF Known, TypeOK
    <3>3. CASE ~Stored(c, t)
      <4>1. UNCHANGED <<cancelled, asked>>
        BY <3>1, <3>3 DEF TypeOK
      <4>2. QED BY <3>1, <4>1 DEF Known
    <3>4. QED BY <3>2, <3>3
  <2>2. ASSUME NEW c \in Connection, CancelTurn(c) PROVE Known'
    <3>1. PICK t \in Turn : running = t /\ handler[c] = [turn |-> t, at |-> "asked"]
      BY <2>2 DEF CancelTurn, HandlerAt, Idle, TypeOK
    <3>2. /\ cancelEmitted' /\ cancelled' = [cancelled EXCEPT ![t] = TRUE]
          /\ accepted' = [accepted EXCEPT ![t] = @ + 1]
          /\ heeded' = IF pc[t] \in {"reporting", "leaving"} THEN heeded ELSE heeded \cup {t}
          /\ UNCHANGED <<running, pc, status, asked>>
      BY <2>2, <3>1 DEF CancelTurn, MarkEmitted
    <3>3. pc[t] \in Registered /\ pc[t] \notin Waiting
      BY <3>1 DEF OneTurnRuns, Registered, Waiting
    <3>4. accepted[t] \in Nat /\ accepted'[t] > 0
      BY <3>2 DEF TypeOK
    <3>5. QED BY <3>1, <3>2, <3>3, <3>4 DEF Known, TypeOK, Past
  <2>3. ASSUME NEW c \in Connection,
               TurnNotFound(c) \/ EmitCancelled(c) \/ CancelFails(c) \/ Breaks(c)
        PROVE  Known'
    BY <2>3 DEF Known, TurnNotFound, EmitCancelled, CancelFails, Breaks, goroutine, history
  <2>4. CASE UNCHANGED vars
    BY <2>4 DEF Known, vars, goroutine, history
  <2>5. QED
    BY <2>1, <2>2, <2>3, <2>4, KnownGoroutine DEF Next, Handles
<1>3. QED
  BY <1>1, <1>2, TypeCorrect, OneTurnRunsHolds, PTL DEF Spec

-----------------------------------------------------------------------------
(* The balance of announcements *)

LEMMA PendingCounted == \A t \in Turn : Pending(t) \in Nat
<1> TAKE t \in Turn
<1>1. IsFiniteSet(Emitters(t)) /\ Pending(t) = Cardinality(Emitters(t))
  BY EmittersFinite
<1>2. QED
  BY <1>1, FS_CardinalityType

LEMMA CancellationsFinite ==
    ASSUME TypeOK, NEW t
    PROVE  IsFiniteSet(Cancellations(t)) /\ Cardinality(Cancellations(t)) \in Nat
<1>1. IsFiniteSet(1..Len(log))
  BY FS_Interval, LenProperties DEF TypeOK
<1>2. Cancellations(t) \subseteq 1..Len(log)
  BY DEF Cancellations, Rows
<1>3. QED
  BY <1>1, <1>2, FS_Subset, FS_CardinalityType

\* An event in the log is one announcement more, or concerns another turn.
LEMMA SomethingElse ==
    ASSUME TypeOK, NEW type \in EventType, NEW u \in Turn, Writes(type, u),
           NEW t \in Turn, type # "turn.cancelled" \/ u # t
    PROVE  Cancellations(t)' = Cancellations(t)
<1>1. Len(log) \in Nat
  BY LenProperties DEF TypeOK
<1>2. QED
  BY <1>1, LogGrows DEF Cancellations, Rows

LEMMA OneCancellationMore ==
    ASSUME TypeOK, NEW t \in Turn, Writes("turn.cancelled", t)
    PROVE  Cardinality(Cancellations(t))' = Cardinality(Cancellations(t)) + 1
<1>1. Len(log) \in Nat /\ "turn.cancelled" \in EventType
  BY LenProperties DEF TypeOK, EventType, TerminalType
<1>2. /\ Len(log') = Len(log) + 1 /\ \A i \in 1..Len(log) : log'[i] = log[i]
      /\ log'[Len(log) + 1].type = "turn.cancelled" /\ log'[Len(log) + 1].turn = t
  BY <1>1, LogGrows
<1>3. Cancellations(t)' = Cancellations(t) \cup {Len(log) + 1}
  BY <1>1, <1>2 DEF Cancellations, Rows
<1>4. Len(log) + 1 \notin Cancellations(t)
  BY <1>1 DEF Cancellations, Rows
<1>5. QED
  BY <1>3, <1>4, CancellationsFinite, FS_AddElement

\* All but an announcement and an accepted cancel.
LEMMA BalanceSame ==
    ASSUME TypeOK, TypeOK', NEW t \in Turn, Balance(t),
           Cancellations(t)' = Cancellations(t), Pending(t)' = Pending(t),
           UNCHANGED accepted, faults' = 0 => faults = 0,
           OwnWord(t)' = OwnWord(t) \/ (OwnWord(t) = 0 /\ faults' # 0)
    PROVE  Balance(t)'
<1>1. OwnWord(t) \in {0, 1} /\ OwnWord(t)' \in {0, 1}
  BY DEF OwnWord
<1>2. /\ Cardinality(Cancellations(t))' = Cardinality(Cancellations(t))
      /\ Cardinality(Cancellations(t)) \in Nat /\ accepted[t] \in Nat
  BY CancellationsFinite DEF TypeOK
<1>3. Pending(t) \in Nat
  BY PendingCounted
<1>4. Announcements(t)' = Announcements(t) /\ Announcements(t) \in Nat
  BY <1>2, <1>3 DEF Announcements, Cancellations
<1>5. QED
  BY <1>1, <1>2, <1>4 DEF Balance

\* The announcements stay, and so do the pending ones.
LEMMA QuietBalance ==
    ASSUME TypeOK, TypeOK', Balanced, UNCHANGED <<log, accepted>>, PendingMap' = PendingMap,
           faults' = 0 => faults = 0,
           \A t \in Turn : OwnWord(t)' = OwnWord(t) \/ (OwnWord(t) = 0 /\ faults' # 0)
    PROVE  Balanced'
<1> SUFFICES ASSUME NEW t \in Turn PROVE Balance(t)'
  BY DEF Balanced
<1>1. Cancellations(t)' = Cancellations(t)
  BY DEF Cancellations, Rows
<1>2. Pending(t)' = Pending(t)
  <2>1. PendingMap[t] = Pending(t) /\ PendingMap'[t] = Pending(t)'
    BY DEF PendingMap
  <2>2. QED BY <2>1
<1>3. QED
  BY <1>1, <1>2, BalanceSame DEF Balanced

\* A step that writes an event: the announcement of u in its goroutine's own word, or an
\* event that announces no cancellation.
LEMMA SpokenBalance ==
    ASSUME TypeOK, TypeOK', Balanced, NEW u \in Turn, NEW type \in EventType,
           Writes(type, u), UNCHANGED <<handler, accepted>>, faults' = 0 => faults = 0,
           \A t \in Turn : t # u \/ type # "turn.cancelled" => OwnWord(t)' = OwnWord(t),
           type = "turn.cancelled" => OwnWord(u) = 0 /\ OwnWord(u)' = 1
    PROVE  Balanced'
<1> SUFFICES ASSUME NEW t \in Turn PROVE Balance(t)'
  BY DEF Balanced
<1>1. Pending(t)' = Pending(t)
  BY DEF Pending
<1>2. CASE type # "turn.cancelled" \/ t # u
  BY <1>1, <1>2, SomethingElse, BalanceSame DEF Balanced
<1>3. CASE type = "turn.cancelled" /\ t = u
  <2>1. Cardinality(Cancellations(t))' = Cardinality(Cancellations(t)) + 1
    BY <1>3, OneCancellationMore
  <2>2. /\ Cardinality(Cancellations(t)) \in Nat /\ Pending(t) \in Nat
        /\ accepted[t] \in Nat /\ accepted'[t] = accepted[t]
    BY CancellationsFinite, PendingCounted DEF TypeOK
  <2>3. Announcements(t)' = Announcements(t) + 1 /\ Announcements(t) \in Nat
    BY <1>1, <2>1, <2>2 DEF Announcements, Cancellations
  <2>4. Balance(t)
    BY DEF Balanced
  <2>5. QED BY <1>3, <2>2, <2>3, <2>4 DEF Balance
<1>4. QED BY <1>2, <1>3

\* A goroutine that goes on has said its own word only when it leaves "reporting" after a
\* cancellation that nobody else was going to announce.
LEMMA OwnWordMoves ==
    ASSUME TypeOK, Known, NEW u \in Turn, NEW from, NEW to, Goto(u, from, to),
           UNCHANGED heeded, from \in Past => to \in Past,
           to \in Past => UNCHANGED status, \A t \in Turn : t # u => status'[t] = status[t]
    PROVE  /\ \A t \in Turn : t # u => OwnWord(t)' = OwnWord(t)
           /\ \/ to \notin Past \/ from \in Past \cup Early \/ u \in heeded
              \/ status[u] # "cancelled"
              => OwnWord(u)' = OwnWord(u)
           /\ from = "reporting" /\ to = "leaving" /\ status[u] = "cancelled"
              => OwnWord(u) = 0 /\ OwnWord(u)' = 1
           /\ from = "reporting" => OwnWord(u) = 0
<1>1. pc[u] = from /\ pc'[u] = to /\ \A t \in Turn : t # u => pc'[t] = pc[t]
  BY DEF Goto, TypeOK
<1>2. from \in Early => status[u] = "none" /\ from \notin Past
  BY <1>1 DEF Known, Early, Past
<1>3. from = "reporting" /\ status[u] = "cancelled" => u \notin heeded
  BY <1>1 DEF Known
<1>4. QED
  BY <1>1, <1>2, <1>3, Zenon DEF OwnWord, Past

LEMMA GoroutineBalance ==
    ASSUME TypeOK, TypeOK', OneTurnRuns, Known, Balanced, faults' = 0 => faults = 0,
           NEW t \in Turn,
           \/ StartTurn(t) \/ Runs(t) \/ Streams(t)
           \/ LookupFails(t) \/ ReadFails(t) \/ RecordFails(t) \/ AppendFails(t)
    PROVE  Balanced'
<1> USE DEF Past, Early, Stage
<1>1. ASSUME NEW from, NEW to, Goto(t, from, to), from \in Past => to \in Past,
             to \in Past => from \in Past \cup Early \/ t \in heeded,
             to \in Past => UNCHANGED status, \A u \in Turn : u # t => status'[u] = status[u],
             UNCHANGED <<log, handler, accepted, heeded>>
      PROVE  Balanced'
  <2>1. PendingMap' = PendingMap
    BY <1>1, PendingSame DEF Emitters
  <2>2. \A u \in Turn : OwnWord(u)' = OwnWord(u)
    BY <1>1, OwnWordMoves
  <2>3. QED BY <1>1, <2>1, <2>2, QuietBalance
<1>2. ASSUME \/ StartTurn(t) \/ Reject(t) \/ ReadHistory(t) \/ HistoryUnreadable(t)
             \/ StreamEnds(t) \/ StreamBreaks(t) \/ Report(t) \/ Close(t)
      PROVE  Balanced'
  BY <1>1, <1>2 DEF StartTurn, Reject, ReadHistory, HistoryUnreadable, StreamEnds,
                    StreamBreaks, Report, Close, Proceeds, store, history
\* It has seen that a handler will announce the cancellation.
<1>3. ASSUME LeaveToCancel(t) PROVE Balanced'
  <2>1. pc[t] = "classified" /\ cancelEmitted
    BY <1>3 DEF LeaveToCancel, Announced, Proceeds, Goto
  <2>2. running = t
    BY <2>1 DEF OneTurnRuns, Registered
  <2>3. t \in heeded
    BY <2>1, <2>2 DEF Known
  <2>4. QED BY <1>1, <1>3, <2>3 DEF LeaveToCancel, Proceeds, store, history
<1>4. ASSUME RecordRunning(t) \/ RecordCompleted(t) \/ Register(t) \/ Leave(t)
      PROVE  Balanced'
  BY <1>1, <1>4 DEF RecordRunning, RecordCompleted, Records, Register, Leave, store, history
<1>5. ASSUME Classify(t) PROVE Balanced'
  <2>1. \A u \in Turn : u # t => status'[u] = status[u]
    BY <1>5 DEF Classify, TypeOK
  <2>2. QED BY <1>1, <1>5, <2>1 DEF Classify, store, history
<1>6. ASSUME NEW type \in EventType, NEW from, NEW to, Goto(t, from, to), Writes(type, t),
             UNCHANGED <<handler, status, accepted, heeded>>, from \in Early \cup {"reporting"},
             type = "turn.cancelled" <=> from = "reporting" /\ status[t] = "cancelled",
             from = "reporting" => to = "leaving"
      PROVE  Balanced'
  <2>1. \A u \in Turn : u # t \/ type # "turn.cancelled" => OwnWord(u)' = OwnWord(u)
    BY <1>6, OwnWordMoves
  <2>2. type = "turn.cancelled" => OwnWord(t) = 0 /\ OwnWord(t)' = 1
    BY <1>6, OwnWordMoves
  <2>3. QED BY <1>6, <2>1, <2>2, SpokenBalance
<1>7. ASSUME NEW type \in EventType, NEW from, NEW sent, NEW lost,
             Emits(t, type, from, sent, lost), from \in Early \cup {"reporting"},
             type = "turn.cancelled" <=> from = "reporting" /\ status[t] = "cancelled",
             from = "reporting" => sent = "leaving" /\ lost = "leaving"
      PROVE  Balanced'
  <2>1. PICK ok : Goto(t, from, IF ok THEN sent ELSE lost)
    BY <1>7, Zenon DEF Emits
  <2>2. Writes(type, t) /\ UNCHANGED <<handler, status, accepted, heeded>>
    BY <1>7, AppendWrites DEF Emits, history
  <2>3. Goto(t, from, sent) \/ Goto(t, from, lost)
    BY <2>1
  <2>4. QED BY <1>6, <1>7, <2>2, <2>3
<1>8. ASSUME EmitStarted(t) \/ EmitDelta(t) \/ EmitMessage(t) \/ EmitCompleted(t)
      PROVE  Balanced'
  BY <1>7, <1>8 DEF EmitStarted, EmitDelta, EmitMessage, EmitCompleted, EventType, TerminalType
<1>9. ASSUME EmitStatus(t) PROVE Balanced'
  <2>1. PICK type \in {"turn.cancelled", "turn.failed"} :
            /\ Emits(t, type, "reporting", "leaving", "leaving")
            /\ type = "turn.cancelled" <=> status[t] = "cancelled"
    BY <1>9 DEF EmitStatus
  <2>2. QED BY <1>7, <2>1 DEF EventType, TerminalType
<1>10. ASSUME NEW kind, NEW from, NEW to, Errs(t, kind, from, to), UNCHANGED log,
              from \in Early \cup {"reporting"}, from = "reporting" => to = "leaving"
       PROVE  Balanced'
  <2>1. /\ Goto(t, from, to) /\ UNCHANGED <<handler, status, accepted, heeded>>
        /\ faults' # 0
    BY <1>10 DEF Errs, Strikes, history, TypeOK
  <2>2. CASE from \in Early
    BY <1>1, <1>10, <2>1, <2>2
  <2>3. CASE from = "reporting"
    <3>1. PendingMap' = PendingMap
      BY <2>1, PendingSame DEF Emitters
    <3>2. \A u \in Turn : OwnWord(u)' = OwnWord(u) \/ OwnWord(u) = 0
      BY <2>1, <2>3, OwnWordMoves
    <3>3. QED BY <1>10, <2>1, <3>1, <3>2, QuietBalance
  <2>4. QED BY <1>10, <2>2, <2>3
<1>11. ASSUME LookupFails(t) \/ ReadFails(t) \/ RecordFails(t) PROVE Balanced'
  BY <1>10, <1>11 DEF LookupFails, ReadFails, RecordFails, store
<1>12. ASSUME NEW type \in EventType, NEW from, NEW to, Errs(t, "append", from, to),
              StopsShort(type, t), from \in Early \cup {"reporting"},
              type = "turn.cancelled" <=> from = "reporting" /\ status[t] = "cancelled",
              from = "reporting" => to = "leaving"
       PROVE  Balanced'
  <2>1. Goto(t, from, to) /\ UNCHANGED <<handler, status, accepted, heeded>>
    BY <1>12 DEF Errs, history
  <2>2. CASE Writes(type, t)
    BY <1>6, <1>12, <2>1, <2>2
  <2>3. CASE UNCHANGED log
    BY <1>10, <1>12, <2>3
  <2>4. QED BY <1>12, <2>2, <2>3, AppendWrites
<1>13. ASSUME AppendFails(t) PROVE Balanced'
  <2>1. CASE \/ Errs(t, "append", "recorded", "leaving") /\ StopsShort("turn.started", t)
             \/ Errs(t, "append", "streaming", "failing") /\ StopsShort("assistant.delta", t)
             \/ Errs(t, "append", "answered", "leaving") /\ StopsShort("assistant.message", t)
             \/ Errs(t, "append", "ending", "leaving") /\ StopsShort("turn.completed", t)
    BY <1>12, <2>1 DEF EventType, TerminalType
  <2>2. CASE /\ Errs(t, "append", "reporting", "leaving")
             /\ StopsShort(IF status[t] = "cancelled" THEN "turn.cancelled" ELSE "turn.failed", t)
    <3>1. PICK type \in {"turn.cancelled", "turn.failed"} :
              StopsShort(type, t) /\ (type = "turn.cancelled" <=> status[t] = "cancelled")
      BY <2>2
    <3>2. QED BY <1>12, <2>2, <3>1 DEF EventType, TerminalType
  <2>3. QED BY <1>13, <2>1, <2>2 DEF AppendFails
<1>14. QED
  BY <1>2, <1>3, <1>4, <1>5, <1>8, <1>9, <1>11, <1>13 DEF Runs, Streams

\* An accepted cancel owes an announcement ...
LEMMA AcceptedBalance ==
    ASSUME TypeOK, TypeOK', OneTurnRuns, Balanced, NEW c \in Connection, CancelTurn(c)
    PROVE  Balanced'
<1>1. PICK u \in Turn :
          /\ running = u /\ Pending(u) \in Nat /\ Pending(u)' = Pending(u) + 1
          /\ \A t \in Turn : t # u => Pending(t)' = Pending(t)
  BY OnePendingMore
<1>2. /\ accepted' = [accepted EXCEPT ![u] = @ + 1] /\ UNCHANGED <<log, pc, status, faults>>
      /\ heeded' = IF pc[u] \in {"reporting", "leaving"} THEN heeded ELSE heeded \cup {u}
  BY <1>1 DEF CancelTurn, store
<1> SUFFICES ASSUME NEW t \in Turn PROVE Balance(t)'
  BY DEF Balanced
<1>3. Cardinality(Cancellations(t)) \in Nat
  BY CancellationsFinite
<1>4. pc[u] \in Registered
  BY <1>1 DEF OneTurnRuns
<1>5. OwnWord(t)' = OwnWord(t) /\ OwnWord(t) \in {0, 1}
  BY <1>2, <1>4 DEF OwnWord, Registered, Past
<1>6. Pending(t) \in Nat /\ accepted[t] \in Nat
  BY PendingCounted DEF TypeOK
<1>7. \/ Pending(t)' = Pending(t) + 1 /\ accepted'[t] = accepted[t] + 1
      \/ Pending(t)' = Pending(t) /\ accepted'[t] = accepted[t]
  BY <1>1, <1>2 DEF TypeOK
<1>8. /\ Announcements(t) \in Nat
      /\ Announcements(t)' = Announcements(t) + (Pending(t)' - Pending(t))
  <2>1. Rows("turn.cancelled", t)' = Rows("turn.cancelled", t)
    BY <1>2 DEF Rows
  <2>2. Announcements(t)' = Cardinality(Cancellations(t)) + Pending(t)'
    BY <2>1 DEF Announcements, Cancellations
  <2>3. QED BY <1>3, <1>6, <1>7, <2>2 DEF Announcements, Cancellations
<1>9. QED
  BY <1>2, <1>5, <1>6, <1>7, <1>8 DEF Balanced, Balance

\* ... which its handler makes, or fails to make.
LEMMA SettledBalance ==
    ASSUME TypeOK, TypeOK', Balanced, NEW c \in Connection, HandlerAt(c, "emitting"),
           HandlerDone(c), faults' = 0 => faults = 0,
           \/ Writes("turn.cancelled", handler[c].turn)
           \/ UNCHANGED log /\ faults' # 0,
           UNCHANGED <<pc, status, accepted, heeded>>
    PROVE  Balanced'
<1>1. PICK u \in Turn :
          /\ u = handler[c].turn
          /\ Pending(u) \in Nat /\ Pending(u) > 0 /\ Pending(u)' = Pending(u) - 1
          /\ \A t \in Turn : t # u => Pending(t)' = Pending(t)
  BY OnePendingLess
<1> SUFFICES ASSUME NEW t \in Turn PROVE Balance(t)'
  BY DEF Balanced
<1>2. Cardinality(Cancellations(t)) \in Nat /\ Pending(t) \in Nat /\ accepted[t] \in Nat
  BY CancellationsFinite, PendingCounted DEF TypeOK
<1>3. OwnWord(t)' = OwnWord(t) /\ OwnWord(t) \in {0, 1}
  BY DEF OwnWord
<1>4. /\ Announcements(t) \in Nat
      /\ \/ Announcements(t)' = Announcements(t)
         \/ faults' # 0 /\ Announcements(t)' = Announcements(t) - 1
  <2>1. CASE Writes("turn.cancelled", u) /\ t = u
    BY <1>1, <1>2, <2>1, OneCancellationMore DEF Announcements, Cancellations
  <2>2. CASE Writes("turn.cancelled", u) /\ t # u
    <3>1. Cancellations(t)' = Cancellations(t)
      BY <2>2, SomethingElse DEF EventType, TerminalType
    <3>2. QED BY <1>1, <1>2, <2>2, <3>1 DEF Announcements, Cancellations
  <2>3. CASE UNCHANGED log /\ faults' # 0
    <3>1. Cancellations(t)' = Cancellations(t)
      BY <2>3 DEF Cancellations, Rows
    <3>2. CASE t = u
      BY <1>1, <1>2, <2>3, <3>1, <3>2 DEF Announcements, Cancellations
    <3>3. CASE t # u
      BY <1>1, <1>2, <3>1, <3>3 DEF Announcements, Cancellations
    <3>4. QED BY <3>2, <3>3
  <2>4. QED BY <1>1, <2>1, <2>2, <2>3
<1>5. QED
  BY <1>2, <1>3, <1>4 DEF Balanced, Balance

\* Whatever fails, a turn gets no more announcements than accepted cancels and its
\* goroutine's own word; while nothing fails it gets just as many.
LEMMA BalancedHolds == Spec => []Balanced
<1>1. Init => Balanced
  <2> SUFFICES ASSUME Init, NEW t \in Turn PROVE Balance(t)
    BY DEF Balanced
  <2>1. Cancellations(t) = {} /\ Emitters(t) = {} /\ accepted[t] = 0 /\ OwnWord(t) = 0
    BY DEF Init, Cancellations, Rows, Emitters, Idle, OwnWord, Past
  <2>2. Announcements(t) = 0
    BY <2>1, EmittersFinite, FS_EmptySet DEF Announcements, Cancellations
  <2>3. QED BY <2>1, <2>2 DEF Balance
<1>2. TypeOK /\ TypeOK' /\ OneTurnRuns /\ Known /\ Balanced /\ [Next]_vars => Balanced'
  <2> SUFFICES ASSUME TypeOK, TypeOK', OneTurnRuns, Known, Balanced, [Next]_vars
               PROVE  Balanced'
    OBVIOUS
  <2>1. faults' = 0 => faults = 0
    BY FaultsStay
  <2>2. ASSUME PendingMap' = PendingMap, UNCHANGED <<log, pc, status, accepted, heeded>>
        PROVE  Balanced'
    <3>1. \A t \in Turn : OwnWord(t)' = OwnWord(t)
      BY <2>2 DEF OwnWord
    <3>2. QED BY <2>1, <2>2, <3>1, QuietBalance
  <2>3. ASSUME NEW c \in Connection, NEW t \in Turn, AskCancel(c, t) PROVE Balanced'
    <3>1. PendingMap' = PendingMap
      BY <2>3, PendingSame DEF AskCancel, HandlerAt, Emitters, TypeOK
    <3>2. QED BY <2>2, <2>3, <3>1 DEF AskCancel, store
  <2>4. ASSUME NEW c \in Connection, TurnNotFound(c) PROVE Balanced'
    <3>1. PendingMap' = PendingMap
      BY <2>4, PendingSame DEF TurnNotFound, HandlerAt, HandlerDone, Emitters, Idle, TypeOK
    <3>2. QED BY <2>2, <2>4, <3>1 DEF TurnNotFound, goroutine, store, history
  <2>5. ASSUME NEW c \in Connection, EmitCancelled(c) PROVE Balanced'
    BY <2>1, <2>5, SettledBalance, AppendWrites DEF EmitCancelled, goroutine, history
  <2>6. ASSUME NEW c \in Connection, CancelFails(c) PROVE Balanced'
    <3>1. faults' # 0 /\ HandlerDone(c) /\ UNCHANGED <<pc, status, accepted, heeded>>
      BY <2>6 DEF CancelFails, Strikes, TypeOK, goroutine, history
    <3>2. CASE HandlerAt(c, "emitting")
      <4>1. StopsShort("turn.cancelled", handler[c].turn)
        BY <2>6, <3>2 DEF CancelFails, HandlerAt
      <4>2. QED BY <3>1, <3>2, <4>1, SettledBalance, AppendWrites
    <3>3. CASE ~HandlerAt(c, "emitting")
      <4>1. PendingMap' = PendingMap
        BY <2>6, <3>3, PendingSame DEF CancelFails, HandlerAt, HandlerDone, Emitters, Idle, TypeOK
      <4>2. QED BY <2>2, <2>6, <3>1, <3>3, <4>1 DEF CancelFails, store
    <3>4. QED BY <3>2, <3>3
  <2>7. ASSUME NEW c \in Connection, Breaks(c) PROVE Balanced'
    <3>1. PendingMap' = PendingMap
      BY <2>7, PendingSame DEF Breaks, Emitters
    <3>2. QED BY <2>2, <2>7, <3>1 DEF Breaks, goroutine, store, history
  <2>8. CASE UNCHANGED vars
    <3>1. PendingMap' = PendingMap
      BY <2>8, PendingSame DEF vars, Emitters
    <3>2. QED BY <2>2, <2>8, <3>1 DEF vars, goroutine, store, history
  <2>9. QED
    BY <2>1, <2>3, <2>4, <2>5, <2>6, <2>7, <2>8, AcceptedBalance, GoroutineBalance
       DEF Next, Handles
<1>3. QED
  BY <1>1, <1>2, TypeCorrect, OneTurnRunsHolds, KnownHolds, PTL DEF Spec

\* Whatever fails, and however many cancels there are: there is one turn.cancelled for an
\* accepted cancel, and one more only if the turn's own connection has cancelled it and
\* nothing had been accepted when its goroutine looked.
THEOREM HeededCancelAnnouncedOnceHolds == Spec => []HeededCancelAnnouncedOnce
<1>1. TypeOK /\ Known /\ Balanced => HeededCancelAnnouncedOnce
  <2> SUFFICES ASSUME TypeOK, Known, Balanced, NEW t \in Turn
               PROVE  Announcements(t) <= accepted[t] + (IF t \in asked \ heeded THEN 1 ELSE 0)
    BY DEF HeededCancelAnnouncedOnce
  <2>1. Announcements(t) <= accepted[t] + OwnWord(t)
    BY DEF Balanced, Balance
  <2>2. Announcements(t) \in Nat /\ accepted[t] \in Nat
    BY CancellationsFinite, PendingCounted DEF Announcements, Cancellations, TypeOK
  <2>3. OwnWord(t) \in {0, 1} /\ (OwnWord(t) = 1 => t \in asked \ heeded)
    BY DEF Known, OwnWord
  <2>4. QED BY <2>1, <2>2, <2>3
<1>2. QED
  BY <1>1, TypeCorrect, BalancedHolds, KnownHolds, PTL

-----------------------------------------------------------------------------
(* The record of a turn and the log *)

\* A cancellation of the turn is in the log or on its way to it.
Cancelling(t) == Logged("turn.cancelled", t) \/ \E c \in Connection : c \in Emitters(t)

\* The place of the goroutine tells what is in the record, and the record how it ended.
Told(t) ==
    /\ pc[t] \in {"new", "accepted", "starting"} => record[t] = "none"
    /\ pc[t] \in {"recorded", "reading", "streaming", "completed", "failing"} =>
           record[t] = "running"
    /\ pc[t] \in {"answered", "ending"} => record[t] = "completed"
    /\ pc[t] \in {"classified", "reporting"} =>
           record[t] = status[t] /\ status[t] \in {"failed", "cancelled"}
    /\ Logged("turn.completed", t) <=> pc[t] \in Past /\ record[t] = "completed"
    /\ Logged("turn.failed", t) <=> pc[t] \in Past /\ record[t] = "failed"
    /\ pc[t] \in Past => (record[t] = "cancelled" <=> status[t] = "cancelled")
    /\ pc[t] \in Past /\ record[t] = "cancelled" => Cancelling(t)

\* Whoever has set cancelEmitted announces the cancellation.
Promised(t) == running = t /\ cancelEmitted => Cancelling(t)

Sound ==
    faults = 0 =>
        /\ ~torn /\ \A c \in Connection : open[c]
        /\ \A t \in Turn : Told(t) /\ Promised(t)

\* The log after an event.
LEMMA LoggedAfter ==
    ASSUME TypeOK, NEW type \in EventType, NEW u \in Turn, Writes(type, u),
           NEW kind, NEW t
    PROVE  Logged(kind, t)' <=> Logged(kind, t) \/ (kind = type /\ t = u)
<1>1. Len(log) \in Nat
  BY LenProperties DEF TypeOK
<1>2. /\ Len(log') = Len(log) + 1 /\ \A i \in 1..Len(log) : log'[i] = log[i]
      /\ log'[Len(log) + 1].type = type /\ log'[Len(log) + 1].turn = u
  BY LogGrows
<1>3. ASSUME Logged(kind, t)' PROVE Logged(kind, t) \/ (kind = type /\ t = u)
  <2>1. PICK i \in 1..Len(log') : log'[i].type = kind /\ log'[i].turn = t
    BY <1>3 DEF Logged, Rows
  <2>2. CASE i = Len(log) + 1
    BY <1>2, <2>1, <2>2
  <2>3. CASE i \in 1..Len(log)
    BY <1>2, <2>1, <2>3 DEF Logged, Rows
  <2>4. QED BY <1>1, <1>2, <2>1, <2>2, <2>3
<1>4. ASSUME Logged(kind, t) PROVE Logged(kind, t)'
  <2>1. PICK i \in 1..Len(log) : log[i].type = kind /\ log[i].turn = t
    BY <1>4 DEF Logged, Rows
  <2>2. i \in 1..Len(log') /\ log'[i].type = kind /\ log'[i].turn = t
    BY <1>1, <1>2, <2>1
  <2>3. QED BY <2>2 DEF Logged, Rows
<1>5. ASSUME kind = type, t = u PROVE Logged(kind, t)'
  <2>1. Len(log) + 1 \in 1..Len(log')
    BY <1>1, <1>2
  <2>2. QED BY <1>2, <1>5, <2>1 DEF Logged, Rows
<1>6. QED BY <1>3, <1>4, <1>5

LEMMA LoggedSame ==
    ASSUME UNCHANGED log, NEW kind, NEW t
    PROVE  Logged(kind, t)' <=> Logged(kind, t)
BY DEF Logged, Rows

\* What a goroutine does, cancellations stay announced or on their way.
LEMMA CancellingKept ==
    ASSUME TypeOK, UNCHANGED handler, NEW t,
           UNCHANGED log \/ \E type \in EventType, u \in Turn : Writes(type, u)
    PROVE  Cancelling(t) => Cancelling(t)'
<1>1. Logged("turn.cancelled", t) => Logged("turn.cancelled", t)'
  BY LoggedAfter, LoggedSame
<1>2. \A c \in Connection : c \in Emitters(t) => c \in Emitters(t)'
  BY DEF Emitters
<1>3. QED BY <1>1, <1>2 DEF Cancelling

\* The goroutine of u moves on and says something of u at most: others are not concerned.
LEMMA OthersTold ==
    ASSUME TypeOK, TypeOK', NEW u \in Turn, UNCHANGED handler,
           UNCHANGED log \/ \E type \in EventType : Writes(type, u),
           NEW t \in Turn, t # u, Told(t), UNCHANGED <<pc[t], record[t], status[t]>>
    PROVE  Told(t)'
<1>1. \A kind : Logged(kind, t)' <=> Logged(kind, t)
  BY LoggedAfter, LoggedSame
<1>2. Cancelling(t) => Cancelling(t)'
  BY CancellingKept
<1>3. pc'[t] = pc[t] /\ record'[t] = record[t] /\ status'[t] = status[t]
  OBVIOUS
<1>4. QED
  BY <1>1, <1>2, <1>3, Zenon DEF Told

\* The places between which a goroutine goes without a change of what Told says of them.
Alike(from, to) ==
    \/ {from, to} \subseteq {"new", "accepted", "starting"}
    \/ {from, to} \subseteq {"recorded", "reading", "streaming", "completed", "failing"}
    \/ {from, to} \subseteq {"answered", "ending"}
    \/ {from, to} \subseteq {"classified", "reporting"}
    \/ {from, to} \subseteq Past
    \/ from = "accepted" /\ to = "closing"

LEMMA ToldAlong ==
    ASSUME TypeOK, TypeOK', Known, NEW t \in Turn, Told(t), NEW from, NEW to,
           Goto(t, from, to), UNCHANGED <<handler, record, status>>,
           \/ UNCHANGED log
           \/ \E type \in EventType \ {"turn.completed", "turn.failed"} : Writes(type, t),
           \/ Alike(from, to)
           \/ from = "classified" /\ to = "leaving" /\ status[t] = "cancelled" /\ Cancelling(t)
           \/ /\ from = "reporting" /\ to = "leaving" /\ status[t] = "cancelled"
              /\ Writes("turn.cancelled", t)
    PROVE  Told(t)'
<1>1. /\ Logged("turn.completed", t)' <=> Logged("turn.completed", t)
      /\ Logged("turn.failed", t)' <=> Logged("turn.failed", t)
  BY LoggedAfter, LoggedSame
<1>2. Cancelling(t) => Cancelling(t)'
  BY CancellingKept
<1>3. /\ pc[t] = from /\ pc'[t] = to /\ record'[t] = record[t] /\ status'[t] = status[t]
  BY DEF Goto, TypeOK
<1>4. CASE Alike(from, to)
  <2>1. from = "accepted" => status[t] # "cancelled"
    BY <1>3 DEF Known, Early, Stage, Past
  <2>2. QED BY <1>1, <1>2, <1>3, <1>4, <2>1 DEF Told, Alike, Past
<1>5. CASE from = "classified" /\ to = "leaving" /\ status[t] = "cancelled" /\ Cancelling(t)
  BY <1>1, <1>2, <1>3, <1>5 DEF Told, Past
<1>6. CASE /\ from = "reporting" /\ to = "leaving" /\ status[t] = "cancelled"
           /\ Writes("turn.cancelled", t)
  <2>1. Cancelling(t)'
    BY <1>6, LoggedAfter DEF Cancelling, EventType, TerminalType
  <2>2. QED BY <1>1, <1>3, <1>6, <2>1 DEF Told, Past
<1>7. QED BY <1>4, <1>5, <1>6

\* The goroutine of a turn that is told keeps it told while nothing fails.
LEMMA GoroutineTells ==
    ASSUME TypeOK, TypeOK', OneTurnRuns, Known, faults' = 0, ~torn,
           \A c \in Connection : open[c], NEW t \in Turn, Told(t), Promised(t),
           StartTurn(t) \/ Runs(t) \/ Streams(t)
    PROVE  Told(t)'
<1> USE DEF Past
<1>1. ASSUME \/ StartTurn(t) \/ Reject(t) \/ ReadHistory(t) \/ StreamEnds(t)
             \/ StreamBreaks(t) \/ Report(t) \/ Close(t) \/ Register(t) \/ Leave(t)
      PROVE  Told(t)'
  <2>1. UNCHANGED <<log, handler, record, status>>
    BY <1>1 DEF StartTurn, Reject, ReadHistory, StreamEnds, StreamBreaks, Report,
                Close, Register, Leave, Proceeds, store
  <2>2. ASSUME NEW from, NEW to, Goto(t, from, to), Alike(from, to) PROVE Told(t)'
    BY <2>1, <2>2, ToldAlong
  <2>3. CASE StartTurn(t) \/ Reject(t) \/ Register(t) \/ Leave(t) \/ Close(t) \/ Report(t)
    BY <2>2, <2>3 DEF StartTurn, Reject, Register, Leave, Close, Report, Proceeds, Alike
  <2>4. CASE ReadHistory(t) \/ StreamEnds(t) \/ StreamBreaks(t)
    BY <2>2, <2>4 DEF ReadHistory, StreamEnds, StreamBreaks, Proceeds, Alike
  <2>5. QED BY <1>1, <2>3, <2>4
<1>1a. ~HistoryUnreadable(t)
  BY DEF HistoryUnreadable
<1>2. ASSUME LeaveToCancel(t) PROVE Told(t)'
  <2>1. pc[t] = "classified" /\ status[t] = "cancelled" /\ cancelEmitted
    BY <1>2 DEF LeaveToCancel, Announced, Proceeds, Goto
  <2>2. running = t
    BY <2>1 DEF OneTurnRuns, Registered, Stage
  <2>3. Cancelling(t)
    BY <2>1, <2>2 DEF Promised
  <2>4. QED BY <1>2, <2>1, <2>3, ToldAlong DEF LeaveToCancel, Proceeds, store
<1>3. ASSUME NEW value, NEW from, NEW to, Records(t, from, value, to),
             \/ from = "starting" /\ value = "running" /\ to = "recorded"
             \/ from = "completed" /\ value = "completed" /\ to = "answered"
      PROVE  Told(t)'
  <2>1. /\ pc[t] = from /\ pc'[t] = to /\ record'[t] = value /\ status'[t] = status[t]
        /\ UNCHANGED log
    BY <1>3 DEF Records, Goto, TypeOK, store
  <2>2. /\ Logged("turn.completed", t)' <=> Logged("turn.completed", t)
        /\ Logged("turn.failed", t)' <=> Logged("turn.failed", t)
    BY <2>1, LoggedSame
  <2>3. QED BY <1>3, <2>1, <2>2 DEF Told
<1>4. ASSUME RecordRunning(t) \/ RecordCompleted(t) PROVE Told(t)'
  BY <1>3, <1>4 DEF RecordRunning, RecordCompleted
<1>5. ASSUME Classify(t) PROVE Told(t)'
  <2>1. /\ pc[t] = "failing" /\ pc'[t] = "classified"
        /\ record'[t] = StatusOf(t) /\ status'[t] = StatusOf(t) /\ UNCHANGED log
    BY <1>5, NotStruck DEF Classify, Goto, TypeOK, store
  <2>2. /\ Logged("turn.completed", t)' <=> Logged("turn.completed", t)
        /\ Logged("turn.failed", t)' <=> Logged("turn.failed", t)
    BY <2>1, LoggedSame
  <2>3. StatusOf(t) \in {"failed", "cancelled"}
    BY DEF StatusOf
  <2>4. QED BY <2>1, <2>2, <2>3 DEF Told
<1>6. ASSUME NEW type, NEW from, NEW sent, NEW lost, Emits(t, type, from, sent, lost)
      PROVE  Goto(t, from, sent) /\ Writes(type, t) /\ UNCHANGED <<handler, record, status>>
  <2>1. open[Owner[t]]
    BY RuntimeAssumption
  <2>2. SinkOutcomes(t) = {TRUE}
    BY <2>1 DEF SinkOutcomes
  <2>3. QED BY <1>6, <2>2, AppendWrites DEF Emits
<1>7. ASSUME EmitStarted(t) \/ EmitDelta(t) \/ EmitMessage(t) PROVE Told(t)'
  <2>1. PICK type, from, to :
            /\ type \in {"turn.started", "assistant.delta", "assistant.message"}
            /\ Goto(t, from, to) /\ Writes(type, t) /\ UNCHANGED <<handler, record, status>>
            /\ Alike(from, to)
    BY <1>6, <1>7 DEF EmitStarted, EmitDelta, EmitMessage, Alike
  <2>2. QED BY <2>1, ToldAlong DEF EventType, TerminalType
<1>8. ASSUME NEW type \in {"turn.completed", "turn.failed"}, NEW from,
             Goto(t, from, "leaving"), Writes(type, t), UNCHANGED <<record, status>>,
             from = IF type = "turn.completed" THEN "ending" ELSE "reporting",
             type = "turn.failed" => status[t] = "failed"
      PROVE  Told(t)'
  <2>1. /\ pc[t] = from /\ pc'[t] = "leaving" /\ record'[t] = record[t]
    BY <1>8 DEF Goto, TypeOK
  <2>2. \A kind : Logged(kind, t)' <=> Logged(kind, t) \/ kind = type
    BY <1>8, LoggedAfter DEF EventType, TerminalType
  <2>3. record[t] = IF type = "turn.completed" THEN "completed" ELSE "failed"
    BY <1>8, <2>1 DEF Told
  <2>4. status'[t] = status[t] /\ status[t] # "cancelled"
    BY <1>8, <2>1 DEF Known, Early, Stage, Past
  <2>5. QED BY <1>8, <2>1, <2>2, <2>3, <2>4 DEF Told
<1>9. ASSUME EmitCompleted(t) PROVE Told(t)'
  BY <1>6, <1>8, <1>9 DEF EmitCompleted
<1>10. ASSUME EmitStatus(t) PROVE Told(t)'
  <2>1. pc[t] = "reporting"
    BY <1>10 DEF EmitStatus, Emits, Goto
  <2>2. status[t] \in {"failed", "cancelled"}
    BY <2>1 DEF Told
  <2>3. CASE status[t] = "cancelled"
    <3>1. Emits(t, "turn.cancelled", "reporting", "leaving", "leaving")
      BY <1>10, <2>3 DEF EmitStatus
    <3>2. QED BY <1>6, <2>3, <3>1, ToldAlong DEF EventType, TerminalType
  <2>4. CASE status[t] = "failed"
    <3>1. Emits(t, "turn.failed", "reporting", "leaving", "leaving")
      BY <1>10, <2>4 DEF EmitStatus
    <3>2. QED BY <1>6, <1>8, <2>4, <3>1
  <2>5. QED BY <2>2, <2>3, <2>4
<1>11. QED
  BY <1>1, <1>1a, <1>2, <1>4, <1>5, <1>7, <1>9, <1>10 DEF Runs, Streams

\* What a handler does leaves the goroutine where it is.
LEMMA StaysTold ==
    ASSUME TypeOK, NEW t \in Turn, Told(t), UNCHANGED <<pc, record, status>>,
           UNCHANGED log \/ \E u \in Turn : Writes("turn.cancelled", u),
           Cancelling(t) => Cancelling(t)'
    PROVE  Told(t)'
<1>1. /\ Logged("turn.completed", t)' <=> Logged("turn.completed", t)
      /\ Logged("turn.failed", t)' <=> Logged("turn.failed", t)
  BY LoggedAfter, LoggedSame DEF EventType, TerminalType
<1>2. QED
  BY <1>1 DEF Told

\* A handler that was not accepted announces nothing: nothing changes for the readers.
LEMMA UnheardTells ==
    ASSUME TypeOK, NEW t \in Turn, Told(t), Promised(t),
           UNCHANGED <<log, running, cancelEmitted, pc, record, status>>,
           Emitters(t) \subseteq Emitters(t)'
    PROVE  Told(t)' /\ Promised(t)'
<1>1. Logged("turn.cancelled", t)' <=> Logged("turn.cancelled", t)
  BY LoggedSame
<1>2. Cancelling(t) => Cancelling(t)'
  BY <1>1 DEF Cancelling
<1>3. QED
  BY <1>2, StaysTold DEF Promised

LEMMA AcceptedTells ==
    ASSUME TypeOK, TypeOK', NEW c \in Connection, CancelTurn(c),
           NEW t \in Turn, Told(t), Promised(t)
    PROVE  Told(t)' /\ Promised(t)'
<1>1. PICK u \in Turn : running = u /\ handler[c] = [turn |-> u, at |-> "asked"]
  BY DEF CancelTurn, HandlerAt, Idle, TypeOK
<1>2. /\ UNCHANGED <<log, running, pc, record, status>>
      /\ handler' = [handler EXCEPT ![c] = [turn |-> u, at |-> "emitting"]]
  <2>1. /\ UNCHANGED <<log, running, pc, record, status>>
        /\ handler' = [handler EXCEPT ![c] = [handler[c] EXCEPT !.at = "emitting"]]
    BY DEF CancelTurn, store
  <2>2. [handler[c] EXCEPT !.at = "emitting"] = [turn |-> u, at |-> "emitting"]
    BY <1>1
  <2>3. QED BY <2>1, <2>2
<1>3. Emitters(t) \subseteq Emitters(t)' /\ c \in Emitters(u)'
  BY <1>1, <1>2 DEF Emitters, TypeOK
<1>4. Logged("turn.cancelled", t)' <=> Logged("turn.cancelled", t)
  BY <1>2, LoggedSame
<1>5. (Cancelling(t) => Cancelling(t)') /\ (t = u => Cancelling(t)')
  BY <1>3, <1>4 DEF Cancelling
<1>6. QED
  BY <1>1, <1>2, <1>5, StaysTold DEF Promised

LEMMA AnnouncedTells ==
    ASSUME TypeOK, TypeOK', NEW c \in Connection, EmitCancelled(c),
           NEW t \in Turn, Told(t), Promised(t)
    PROVE  Told(t)' /\ Promised(t)'
<1>1. PICK u \in Turn : handler[c] = [turn |-> u, at |-> "emitting"]
  BY DEF EmitCancelled, HandlerAt, Idle, TypeOK
<1>2. /\ Writes("turn.cancelled", u) /\ handler' = [handler EXCEPT ![c] = Idle]
      /\ UNCHANGED <<running, cancelEmitted, pc, record, status>>
  <2>1. Logs("turn.cancelled", u)
    BY <1>1 DEF EmitCancelled
  <2>2. QED BY <2>1, AppendWrites DEF EmitCancelled, HandlerDone, goroutine
<1>3. /\ Logged("turn.cancelled", t) => Logged("turn.cancelled", t)'
      /\ t = u => Logged("turn.cancelled", t)'
  BY <1>2, LoggedAfter DEF EventType, TerminalType
<1>4. t # u => Emitters(t) \subseteq Emitters(t)'
  BY <1>1, <1>2 DEF Emitters, TypeOK
<1>5. Cancelling(t) => Cancelling(t)'
  BY <1>3, <1>4 DEF Cancelling
<1>6. QED
  BY <1>2, <1>5, StaysTold DEF Promised

\* What a goroutine leaves alone.
LEMMA GoroutineSpares ==
    ASSUME TypeOK, TypeOK', faults' = 0, NEW u \in Turn, StartTurn(u) \/ Runs(u) \/ Streams(u)
    PROVE  /\ UNCHANGED <<handler, open, faults, torn>>
           /\ UNCHANGED log \/ \E type \in EventType : Writes(type, u)
           /\ UNCHANGED <<running, cancelEmitted>> \/ ~cancelEmitted'
           /\ \A t \in Turn : t # u =>
                  pc'[t] = pc[t] /\ record'[t] = record[t] /\ status'[t] = status[t]
<1> DEFINE Spares == /\ UNCHANGED <<handler, open, faults, torn>>
                     /\ UNCHANGED log \/ \E type \in EventType : Writes(type, u)
                     /\ UNCHANGED <<running, cancelEmitted>> \/ ~cancelEmitted'
                     /\ \A t \in Turn : t # u =>
                            /\ pc'[t] = pc[t] /\ record'[t] = record[t]
                            /\ status'[t] = status[t]
<1>1. ASSUME \/ StartTurn(u) \/ Reject(u) \/ ReadHistory(u) \/ HistoryUnreadable(u) \/ StreamEnds(u)
             \/ StreamBreaks(u) \/ LeaveToCancel(u) \/ Report(u) \/ Close(u)
      PROVE  Spares
  BY <1>1 DEF StartTurn, Reject, ReadHistory, HistoryUnreadable, StreamEnds, StreamBreaks,
              LeaveToCancel, Report, Close, Proceeds, Goto, TypeOK, store
<1>2. ASSUME RecordRunning(u) \/ RecordCompleted(u) \/ Register(u) \/ Leave(u) PROVE Spares
  BY <1>2 DEF RecordRunning, RecordCompleted, Records, Register, Leave, Goto, TypeOK, store
<1>3. ASSUME Classify(u) PROVE Spares
  BY <1>3, NotStruck DEF Classify, Goto, TypeOK, store
<1>4. ASSUME NEW type \in EventType, NEW from, NEW sent, NEW lost,
             Emits(u, type, from, sent, lost)
      PROVE  Spares
  <2>1. PICK ok : Goto(u, from, IF ok THEN sent ELSE lost)
    BY <1>4, Zenon DEF Emits
  <2>2. \A t \in Turn : t # u => pc'[t] = pc[t]
    BY <2>1 DEF Goto, TypeOK
  <2>3. QED BY <1>4, <2>2, AppendWrites DEF Emits
<1>5. ASSUME EmitStarted(u) \/ EmitDelta(u) \/ EmitMessage(u) \/ EmitCompleted(u)
      PROVE  Spares
  BY <1>4, <1>5 DEF EmitStarted, EmitDelta, EmitMessage, EmitCompleted, EventType, TerminalType
<1>6. ASSUME EmitStatus(u) PROVE Spares
  BY <1>4, <1>6 DEF EmitStatus, EventType, TerminalType
<1>7. QED BY <1>1, <1>2, <1>3, <1>5, <1>6 DEF Runs, Streams

\* A goroutine keeps what is told of the others, and every promise.
LEMMA GoroutineSound ==
    ASSUME TypeOK, TypeOK', OneTurnRuns, Known, Sound, faults' = 0,
           NEW u \in Turn, StartTurn(u) \/ Runs(u) \/ Streams(u)
    PROVE  Sound'
<1>1. /\ UNCHANGED <<handler, open, faults, torn>>
      /\ UNCHANGED log \/ \E type \in EventType : Writes(type, u)
      /\ UNCHANGED <<running, cancelEmitted>> \/ ~cancelEmitted'
      /\ \A t \in Turn : t # u =>
             pc'[t] = pc[t] /\ record'[t] = record[t] /\ status'[t] = status[t]
  BY GoroutineSpares
<1>2. /\ ~torn /\ ~torn' /\ \A c \in Connection : open[c] /\ open'[c]
      /\ \A t \in Turn : Told(t) /\ Promised(t)
  BY <1>1 DEF Sound
<1>3. ASSUME NEW t \in Turn PROVE Told(t)' /\ Promised(t)'
  <2>1. Told(t)'
    BY <1>1, <1>2, GoroutineTells, OthersTold
  <2>2. Promised(t)'
    BY <1>1, <1>2, CancellingKept DEF Promised
  <2>3. QED BY <2>1, <2>2
<1>4. QED BY <1>2, <1>3 DEF Sound

LEMMA SoundHolds == Spec => []Sound
<1>1. Init => Sound
  <2> SUFFICES ASSUME Init, NEW t \in Turn PROVE Told(t) /\ Promised(t)
    BY DEF Init, Sound
  <2>1. pc[t] = "new" /\ record[t] = "none" /\ log = << >> /\ ~cancelEmitted
    BY DEF Init
  <2>2. \A kind : ~Logged(kind, t)
    BY <2>1 DEF Logged, Rows
  <2>3. QED BY <2>1, <2>2 DEF Told, Promised, Past
<1>2. TypeOK /\ TypeOK' /\ OneTurnRuns /\ Known /\ Sound /\ [Next]_vars => Sound'
  <2> SUFFICES ASSUME TypeOK, TypeOK', OneTurnRuns, Known, Sound, [Next]_vars, faults' = 0
               PROVE  Sound'
    BY DEF Sound
  <2>1. \A kind : ~Strikes(kind)
    BY NotStruck
  <2>2. ASSUME NEW c \in Connection, Breaks(c) \/ CancelFails(c) PROVE FALSE
    BY <2>1, <2>2 DEF Breaks, CancelFails
  <2>3. ASSUME NEW t \in Turn,
               LookupFails(t) \/ ReadFails(t) \/ RecordFails(t) \/ AppendFails(t)
        PROVE  FALSE
    BY <2>1, <2>3 DEF LookupFails, ReadFails, RecordFails, AppendFails, Errs
  <2>4. ASSUME NEW c \in Connection, CancelTurn(c) \/ EmitCancelled(c) PROVE Sound'
    <3>1. UNCHANGED <<open, faults, torn>>
      BY <2>4, AppendWrites DEF CancelTurn, EmitCancelled, store
    <3>2. QED BY <2>4, <3>1, AcceptedTells, AnnouncedTells DEF Sound
  <2>5. ASSUME UNCHANGED <<log, running, cancelEmitted, pc, record, status, open, faults, torn>>,
               \A t \in Turn : Emitters(t) \subseteq Emitters(t)'
        PROVE  Sound'
    BY <2>5, UnheardTells DEF Sound
  <2>6. ASSUME NEW c \in Connection, NEW t \in Turn, AskCancel(c, t) PROVE Sound'
    <3>1. \A u \in Turn : Emitters(u) \subseteq Emitters(u)'
      BY <2>6 DEF AskCancel, HandlerAt, Emitters, TypeOK
    <3>2. QED BY <2>5, <2>6, <3>1 DEF AskCancel, store
  <2>7. ASSUME NEW c \in Connection, TurnNotFound(c) PROVE Sound'
    <3>1. \A u \in Turn : Emitters(u) \subseteq Emitters(u)'
      BY <2>7 DEF TurnNotFound, HandlerAt, HandlerDone, Emitters, TypeOK
    <3>2. QED BY <2>5, <2>7, <3>1 DEF TurnNotFound, goroutine, store
  <2>8. CASE UNCHANGED vars
    <3>1. \A u \in Turn : Emitters(u) \subseteq Emitters(u)'
      BY <2>8 DEF vars, Emitters
    <3>2. QED BY <2>5, <2>8, <3>1 DEF vars, goroutine, store
  <2>9. QED
    BY <2>2, <2>3, <2>4, <2>6, <2>7, <2>8, GoroutineSound DEF Next, Handles
<1>3. QED
  BY <1>1, <1>2, TypeCorrect, OneTurnRunsHolds, KnownHolds, PTL DEF Spec

\* Without faults, the record of a finished turn is completed or failed just when the log
\* has that end, because both follow one decision and no step of the goroutine comes
\* between; and the log has a turn.cancelled for every accepted cancel, however late, and
\* one for a record that says cancelled unless the goroutine left it to CancelTurn.
THEOREM RecordAgreesWithLogHolds == Spec => []RecordAgreesWithLog
<1>1. Sound /\ Balanced => RecordAgreesWithLog
  <2> SUFFICES ASSUME Sound, Balanced, NEW t \in Turn, pc[t] = "done", faults = 0
               PROVE  /\ record[t] = "completed" <=> Logged("turn.completed", t)
                      /\ record[t] = "failed" <=> Logged("turn.failed", t)
                      /\ Announcements(t) =
                             accepted[t] + (IF record[t] = "cancelled" /\ t \notin heeded
                                            THEN 1 ELSE 0)
    BY DEF RecordAgreesWithLog
  <2>1. Told(t) /\ pc[t] \in Past
    BY DEF Sound, Past
  <2>2. Announcements(t) = accepted[t] + OwnWord(t)
    BY DEF Balanced, Balance
  <2>3. OwnWord(t) = IF record[t] = "cancelled" /\ t \notin heeded THEN 1 ELSE 0
    BY <2>1 DEF OwnWord, Told
  <2>4. QED BY <2>1, <2>2, <2>3 DEF Told
<1>2. QED
  BY <1>1, SoundHolds, BalancedHolds, PTL

-----------------------------------------------------------------------------
(* A session at rest *)

\* While nothing fails: a turn that was started and is over has a record that says how it
\* ended, and no end but a cancellation is older than its start.
Concluded(t) ==
    /\ pc[t] \in Past /\ Logged("turn.started", t) =>
           record[t] \in {"completed", "failed", "cancelled"}
    /\ \A j \in Rows("turn.started", t),
          i \in Rows("turn.completed", t) \cup Rows("turn.failed", t) : j < i

\* Unless state.json is left behind: the active turn it names was started, and not ended after that.
ActiveOpen ==
    LET t == index.activeTurn
    IN  t # NoTurn =>
            \E j \in Rows("turn.started", t) :
                \A i \in 1..Len(log) : Ends(log[i], t) => i < j

LEMMA ActiveOpenLogs ==
    ASSUME TypeOK, ActiveOpen, NEW type \in EventType, NEW u \in Turn, Logs(type, u)
    PROVE  ActiveOpen'
<1> DEFINE n == Len(log)
<1> PICK a : a = index.activeTurn
  OBVIOUS
<1>1. n \in Nat
  BY LenProperties DEF TypeOK
<1>2. /\ Len(log') = n + 1 /\ \A i \in 1..n : log'[i] = log[i]
      /\ log'[n + 1].type = type /\ log'[n + 1].turn = u
  BY LogGrows, AppendWrites
<1>3. index'.activeTurn = IF type = "turn.started" THEN u
                          ELSE IF type \in TerminalType /\ u = a THEN NoTurn ELSE a
  BY DEF Logs, Line, Stamp, ApplyEvent, ActiveAfter, Starts, Ends
<1> HIDE DEF n
<1>4. CASE type = "turn.started"
  <2>1. index'.activeTurn = u /\ n + 1 \in 1..(n + 1)
    BY <1>1, <1>3, <1>4
  <2>2. n + 1 \in Rows("turn.started", u)'
    BY <1>2, <1>4, <2>1 DEF Rows
  <2>3. \A i \in 1..(n + 1) : Ends(log'[i], u) => i < n + 1
    BY <1>1, <1>2, <1>4 DEF Ends, TerminalType
  <2>4. QED BY <1>2, <2>1, <2>2, <2>3 DEF ActiveOpen
<1>5. CASE type \in TerminalType /\ u = a
  BY <1>3, <1>5 DEF ActiveOpen, TerminalType
<1>6. CASE type # "turn.started" /\ ~(type \in TerminalType /\ u = a) /\ a # NoTurn
  <2>1. index'.activeTurn = a
    BY <1>3, <1>6
  <2>2. PICK j \in Rows("turn.started", a) : \A i \in 1..n : Ends(log[i], a) => i < j
    BY <1>6 DEF ActiveOpen, n
  <2>3. j \in 1..n /\ j \in 1..(n + 1)
    BY <1>1, <2>2 DEF Rows, n
  <2>4. j \in Rows("turn.started", a)'
    BY <1>2, <2>2, <2>3 DEF Rows
  <2>5. \A i \in 1..(n + 1) : Ends(log'[i], a) => i < j
    BY <1>1, <1>2, <1>6, <2>2 DEF Ends
  <2>6. QED BY <1>2, <2>1, <2>4, <2>5 DEF ActiveOpen
<1>7. CASE type # "turn.started" /\ ~(type \in TerminalType /\ u = a) /\ a = NoTurn
  BY <1>3, <1>7 DEF ActiveOpen
<1>8. QED BY <1>4, <1>5, <1>6, <1>7

LEMMA ActiveOpenHolds == Spec => [](faults = 0 => ActiveOpen)
<1>1. Init => ActiveOpen
  BY DEF Init, InitIndex, ActiveOpen
<1>2. TypeOK /\ (faults = 0 => ActiveOpen) /\ [Next]_vars => (faults = 0 => ActiveOpen)'
  <2> SUFFICES ASSUME TypeOK, faults = 0 => ActiveOpen, [Next]_vars, faults' = 0
               PROVE  ActiveOpen'
    OBVIOUS
  <2>1. ActiveOpen
    BY FaultsStay
  <2>2. CASE UNCHANGED <<log, index>>
    BY <2>1, <2>2 DEF ActiveOpen, Rows
  <2>3. ASSUME NEW t \in Turn, NEW type \in EventType, Logs(type, t) PROVE ActiveOpen'
    BY <2>1, <2>3, ActiveOpenLogs
  <2>4. QED BY <2>2, <2>3, WholeAppends
<1>3. QED
  BY <1>1, <1>2, TypeCorrect, PTL DEF Spec

\* The rows after an event.
LEMMA RowsAfter ==
    ASSUME TypeOK, NEW type \in EventType, NEW u \in Turn, Writes(type, u), NEW kind, NEW t
    PROVE  Rows(kind, t)' = IF kind = type /\ t = u THEN Rows(kind, t) \cup {Len(log) + 1}
                            ELSE Rows(kind, t)
<1>1. Len(log) \in Nat
  BY LenProperties DEF TypeOK
<1>2. QED
  BY <1>1, LogGrows DEF Rows

\* How a goroutine gets past its last word, if nothing fails.
LEMMA PastSteps ==
    ASSUME TypeOK, TypeOK', faults' = 0, ~torn, \A c \in Connection : open[c],
           NEW t \in Turn, StartTurn(t) \/ Runs(t) \/ Streams(t), pc'[t] \in Past
    PROVE  /\ pc[t] \in Past \cup {"accepted", "ending", "classified", "reporting"}
           /\ record'[t] = record[t]
           /\ UNCHANGED log \/ \E type \in EventType \ {"turn.started"} : Writes(type, t)
<1> DEFINE Ok == /\ pc[t] \in Past \cup {"accepted", "ending", "classified", "reporting"}
                 /\ record'[t] = record[t]
                 /\ UNCHANGED log \/ \E type \in EventType \ {"turn.started"} : Writes(type, t)
<1> USE DEF Past
<1>1. ASSUME \/ StartTurn(t) \/ Reject(t) \/ ReadHistory(t) \/ StreamEnds(t)
             \/ StreamBreaks(t) \/ LeaveToCancel(t) \/ Report(t) \/ Close(t)
      PROVE  Ok
  BY <1>1 DEF StartTurn, Reject, ReadHistory, StreamEnds, StreamBreaks, LeaveToCancel,
              Report, Close, Proceeds, Goto, TypeOK, store
<1>1a. ~HistoryUnreadable(t)
  BY DEF HistoryUnreadable
<1>2. ASSUME RecordRunning(t) \/ RecordCompleted(t) \/ Register(t) \/ Leave(t) PROVE Ok
  BY <1>2 DEF RecordRunning, RecordCompleted, Records, Register, Leave, Goto, TypeOK, store
<1>3. ASSUME Classify(t) PROVE Ok
  BY <1>3 DEF Classify, Goto, TypeOK, store
<1>4. ASSUME NEW type \in EventType, NEW from, NEW sent, NEW lost,
             Emits(t, type, from, sent, lost)
      PROVE  /\ pc[t] = from /\ pc'[t] = sent /\ record'[t] = record[t] /\ Writes(type, t)
  <2>1. SinkOutcomes(t) = {TRUE}
    BY RuntimeAssumption DEF SinkOutcomes
  <2>2. Goto(t, from, sent)
    BY <1>4, <2>1 DEF Emits
  <2>3. QED BY <1>4, <2>2, AppendWrites DEF Emits, Goto, TypeOK
<1>5. ASSUME EmitStarted(t) \/ EmitDelta(t) \/ EmitMessage(t) PROVE FALSE
  BY <1>4, <1>5 DEF EmitStarted, EmitDelta, EmitMessage, EventType
<1>6. ASSUME EmitCompleted(t) PROVE Ok
  BY <1>4, <1>6 DEF EmitCompleted, EventType, TerminalType
<1>7. ASSUME EmitStatus(t) PROVE Ok
  <2>1. PICK type \in {"turn.cancelled", "turn.failed"} :
            Emits(t, type, "reporting", "leaving", "leaving")
    BY <1>7 DEF EmitStatus
  <2>2. type \in EventType \ {"turn.started"}
    BY DEF EventType, TerminalType
  <2>3. QED BY <1>4, <2>1, <2>2
<1>8. QED BY <1>1, <1>1a, <1>2, <1>3, <1>5, <1>6, <1>7 DEF Runs, Streams

\* The order of the rows, whoever takes the step.
LEMMA EndsAfterStart ==
    ASSUME TypeOK, FreshInv, [Next]_vars, NEW t \in Turn, Told(t), Concluded(t),
           NEW j \in Rows("turn.started", t)',
           NEW i \in (Rows("turn.completed", t) \cup Rows("turn.failed", t))'
    PROVE  j < i
<1>0. Len(log) \in Nat
  BY LenProperties DEF TypeOK
<1>1. CASE UNCHANGED log
  BY <1>1 DEF Concluded, Rows
<1>2. ASSUME NEW u \in Turn, NEW type \in EventType, Writes(type, u),
             type = "turn.started" => pc[u] = "recorded"
      PROVE  j < i
  <2>1. \A kind : Rows(kind, t)' = IF kind = type /\ t = u THEN Rows(kind, t) \cup {Len(log) + 1}
                                   ELSE Rows(kind, t)
    BY <1>2, RowsAfter
  <2>2. \A kind : Rows(kind, t) \subseteq 1..Len(log)
    BY DEF Rows
  <2>3. CASE type = "turn.started" /\ t = u
    <3>1. Rows("turn.completed", t) = {} /\ Rows("turn.failed", t) = {}
      BY <1>2, <2>3 DEF Told, Logged, Past
    <3>2. QED BY <2>1, <2>3, <3>1
  <2>4. CASE ~(type = "turn.started" /\ t = u)
    <3>1. j \in Rows("turn.started", t) /\ j \in 1..Len(log)
      BY <2>1, <2>2, <2>4
    <3>2. \/ i \in Rows("turn.completed", t) \cup Rows("turn.failed", t)
          \/ i = Len(log) + 1
      BY <2>1
    <3>3. QED BY <1>0, <3>1, <3>2 DEF Concluded
  <2>5. QED BY <2>3, <2>4
<1>3. ASSUME NEW u \in Turn, Register(u) \/ Leave(u) \/ MovesOn(u) PROVE UNCHANGED log
  BY <1>3 DEF Register, Leave, MovesOn, store
<1>4. ASSUME NEW u \in Turn, SpeaksUp(u) PROVE j < i
  <2>1. PICK type \in EventType : Writes(type, u) /\ (type = "turn.started" => pc[u] = "recorded")
    BY <1>4 DEF SpeaksUp, Goto
  <2>2. QED BY <1>2, <2>1
<1>5. ASSUME NEW u \in Turn, CancelLogged(u) PROVE j < i
  BY <1>2, <1>5 DEF CancelLogged, EventType, TerminalType
<1>6. QED BY <1>1, <1>3, <1>4, <1>5, StepKinds DEF Silent

LEMMA ConcludedStep ==
    ASSUME TypeOK, TypeOK', FreshInv, Sound, faults' = 0, faults = 0, [Next]_vars,
           \A t \in Turn : Concluded(t), NEW t \in Turn
    PROVE  Concluded(t)'
<1>1. Told(t) /\ Concluded(t) /\ ~torn /\ \A c \in Connection : open[c]
  BY DEF Sound
<1>2. \A kind : ~Strikes(kind)
  BY NotStruck
<1> SUFFICES ASSUME pc'[t] \in Past, Logged("turn.started", t)'
             PROVE  record'[t] \in {"completed", "failed", "cancelled"}
  BY <1>1, EndsAfterStart DEF Concluded
<1>3. ASSUME UNCHANGED <<pc[t], record[t]>>,
             \/ UNCHANGED log
             \/ \E type \in EventType, u \in Turn :
                    Writes(type, u) /\ (u # t \/ type # "turn.started")
      PROVE  record'[t] \in {"completed", "failed", "cancelled"}
  <2>1. Logged("turn.started", t)
    BY <1>3, LoggedAfter, LoggedSame
  <2>2. QED BY <1>1, <1>3, <2>1 DEF Concluded
<1>4. ASSUME NEW u \in Turn, StartTurn(u) \/ Runs(u) \/ Streams(u)
      PROVE  record'[t] \in {"completed", "failed", "cancelled"}
  <2>1. CASE u # t
    BY <1>3, <1>4, <2>1, GoroutineSpares
  <2>2. CASE u = t
    <3>1. /\ pc[t] \in Past \cup {"accepted", "ending", "classified", "reporting"}
          /\ record'[t] = record[t]
          /\ UNCHANGED log \/ \E type \in EventType \ {"turn.started"} : Writes(type, t)
      BY <1>1, <1>4, <2>2, PastSteps
    <3>2. Logged("turn.started", t)
      BY <3>1, LoggedAfter, LoggedSame
    <3>3. pc[t] # "accepted"
      BY <3>2 DEF FreshInv, Waiting, Own, Logged, Rows
    <3>4. QED BY <1>1, <3>1, <3>2, <3>3 DEF Told, Concluded
  <2>3. QED BY <2>1, <2>2
<1>5. ASSUME NEW c \in Connection, CancelTurn(c) \/ TurnNotFound(c) \/ EmitCancelled(c)
      PROVE  record'[t] \in {"completed", "failed", "cancelled"}
  <2>1. UNCHANGED <<pc, record>>
    BY <1>5 DEF CancelTurn, TurnNotFound, EmitCancelled, goroutine
  <2>2. UNCHANGED log \/ \E u \in Turn : Writes("turn.cancelled", u)
    <3>1. UNCHANGED log \/ \E u \in Turn : Logs("turn.cancelled", u)
      BY <1>5 DEF CancelTurn, TurnNotFound, EmitCancelled, HandlerAt, Idle, TypeOK, store
    <3>2. QED BY <3>1, AppendWrites
  <2>3. QED BY <1>3, <2>1, <2>2 DEF EventType, TerminalType
<1>6. ASSUME NEW c \in Connection, NEW u \in Turn, AskCancel(c, u)
      PROVE  record'[t] \in {"completed", "failed", "cancelled"}
  BY <1>3, <1>6 DEF AskCancel, store
<1>7. ASSUME NEW c \in Connection, Breaks(c) \/ CancelFails(c) PROVE FALSE
  BY <1>2, <1>7 DEF Breaks, CancelFails
<1>8. ASSUME NEW u \in Turn, LookupFails(u) \/ ReadFails(u) \/ RecordFails(u) \/ AppendFails(u)
      PROVE  FALSE
  BY <1>2, <1>8 DEF LookupFails, ReadFails, RecordFails, AppendFails, Errs
<1>9. CASE UNCHANGED vars
  BY <1>3, <1>9 DEF vars, goroutine, store
<1>10. QED
  BY <1>4, <1>5, <1>6, <1>7, <1>8, <1>9 DEF Next, Handles

\* Without faults, a session at rest has ended every turn it has started, and state.json
\* names no active turn, except one that was cancelled before its turn.started.
THEOREM QuietAtRestHolds == Spec => []QuietAtRest
<1> DEFINE AllConcluded == faults = 0 => \A t \in Turn : Concluded(t)
<1>1. Init => AllConcluded
  <2> SUFFICES ASSUME Init, NEW t \in Turn PROVE Concluded(t)
    OBVIOUS
  <2>1. pc[t] = "new" /\ log = << >>
    BY DEF Init
  <2>2. \A kind : Rows(kind, t) = {}
    BY <2>1 DEF Rows
  <2>3. QED BY <2>1, <2>2 DEF Concluded, Past
<1>2. TypeOK /\ TypeOK' /\ OrderInv /\ Sound /\ AllConcluded /\ [Next]_vars => AllConcluded'
  BY ConcludedStep, FaultsStay DEF OrderInv
<1>3. TypeOK /\ OneTurnRuns /\ OrderInv /\ Sound /\ (faults = 0 => ActiveOpen) /\ AllConcluded
      => QuietAtRest
  <2> SUFFICES ASSUME TypeOK, OneTurnRuns, OrderInv, Sound, ActiveOpen, AllConcluded,
                      AtRest, faults = 0
               PROVE  /\ \A t \in Turn : Logged("turn.started", t) =>
                             \E type \in TerminalType : Logged(type, t)
                      /\ index.activeTurn # NoTurn => CancelledEarly(index.activeTurn)
    BY DEF QuietAtRest
  <2>1. ASSUME NEW t \in Turn, Logged("turn.started", t)
        PROVE  \E type \in TerminalType : Logged(type, t)
    <3>1. pc[t] \notin Registered
      BY NoTurnAssumption DEF AtRest, OneTurnRuns
    <3>2. pc[t] \notin Waiting
      BY <2>1 DEF OrderInv, FreshInv, Own, Logged, Rows
    <3>3. pc[t] \in Past
      BY <3>1, <3>2 DEF TypeOK, Registered, Stage, Waiting, Past
    <3>4. record[t] \in {"completed", "failed", "cancelled"} /\ Told(t)
      BY <2>1, <3>3 DEF Concluded, Sound
    <3>5. Cancelling(t) => Logged("turn.cancelled", t)
      BY DEF Cancelling, Emitters, AtRest, Idle
    <3>6. QED BY <3>3, <3>4, <3>5 DEF Told, TerminalType
  <2>2. ASSUME index.activeTurn # NoTurn PROVE CancelledEarly(index.activeTurn)
    <3> DEFINE t == index.activeTurn
    <3>1. t \in Turn
      BY <2>2 DEF TypeOK, Index
    <3>2. PICK j \in Rows("turn.started", t) : \A i \in 1..Len(log) : Ends(log[i], t) => i < j
      BY <2>2 DEF ActiveOpen
    <3>3. PICK type \in TerminalType : Logged(type, t)
      BY <2>1, <3>1, <3>2 DEF Logged
    <3>4. PICK i \in Rows(type, t) : TRUE
      BY <3>3 DEF Logged
    <3>5. i < j /\ i \in Nat /\ j \in Nat
      BY <3>2, <3>3, <3>4 DEF Rows, Ends
    <3>6. type \notin {"turn.completed", "turn.failed"}
      BY <3>1, <3>2, <3>4, <3>5 DEF Concluded
    <3>7. QED BY <3>2, <3>3, <3>4, <3>5, <3>6 DEF CancelledEarly, TerminalType
  <2>3. QED BY <2>1, <2>2
<1> HIDE DEF AllConcluded
<1>4. QED
  BY <1>1, <1>2, <1>3, TypeCorrect, OneTurnRunsHolds, OrderHolds, SoundHolds, ActiveOpenHolds,
     PTL DEF Spec

=============================================================================
