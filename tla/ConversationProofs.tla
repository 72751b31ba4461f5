------------------------- MODULE ConversationProofs -------------------------
(***************************************************************************)
(* Proofs about Conversation, for any turns, models, limit and bounds:     *)
(* an answer claims the model that was asked, it consists of the deltas    *)
(* of its run, and a prompt holds the latest answered inputs and is never  *)
(* too long.                                                               *)
(***************************************************************************)
EXTENDS Conversation, OrderLemmas

Snapshot == Snapshots!Snapshot

-----------------------------------------------------------------------------
(* prepareMessages *)

\* However long the history, a prompt has at most Limit messages, starts with the system
\* message, ends with the input, and has the latest messages of the history in between.
THEOREM PromptFits ==
    ASSUME NEW history \in Seq(Message), NEW input \in Message
    PROVE  LET p == PrepareMessages(history, input)
           IN  /\ p \in Seq(Message) /\ Len(p) <= Limit
               /\ Len(p) = IF Len(history) + 2 <= Limit THEN Len(history) + 2 ELSE Limit
               /\ p[1] = System /\ p[Len(p)] = input
               /\ \A k \in 2..(Len(p) - 1) :
                      p[k] = history[k + Len(history) + 1 - Len(p)]
<1> DEFINE all == <<System>> \o history \o <<input>>
           cut == SubSeq(all, Len(all) - (Limit - 1) + 1, Len(all))
           n == Len(history)
<1> USE ConversationAssumption
<1>1. System \in Message
  BY DEF System, Message
<1>2. /\ all \in Seq(Message) /\ Len(all) = n + 2 /\ n \in Nat
      /\ all[1] = System /\ all[n + 2] = input
      /\ \A k \in 2..(n + 1) : all[k] = history[k - 1]
  BY <1>1
<1> HIDE DEF all
<1>3. CASE Len(all) <= Limit
  <2>1. PrepareMessages(history, input) = all
    BY <1>3 DEF PrepareMessages, all
  <2>2. QED
    BY <1>2, <1>3, <2>1
<1>4. CASE ~(Len(all) <= Limit)
  <2>1. PrepareMessages(history, input) = <<all[1]>> \o cut
    BY <1>4 DEF PrepareMessages, Recent, all
  <2>2. /\ cut \in Seq(Message) /\ Len(cut) = Limit - 1
        /\ \A k \in 1..(Limit - 1) : cut[k] = all[k + n + 3 - Limit]
    BY <1>2, <1>4
  <2> HIDE DEF cut
  <2>3. /\ <<all[1]>> \o cut \in Seq(Message) /\ Len(<<all[1]>> \o cut) = Limit
        /\ (<<all[1]>> \o cut)[1] = System
        /\ \A k \in 2..Limit : (<<all[1]>> \o cut)[k] = cut[k - 1]
    BY <1>1, <1>2, <2>2
  <2>4. \A k \in 2..Limit : (<<all[1]>> \o cut)[k] = all[k + n + 2 - Limit]
    BY <1>2, <2>2, <2>3
  <2> DEFINE long == <<all[1]>> \o cut
  <2>5. long \in Seq(Message) /\ Len(long) = Limit /\ long[1] = System
    BY <2>3
  <2>6. \A k \in 2..Limit : long[k] = all[k + n + 2 - Limit]
    BY <2>4
  <2>7. PrepareMessages(history, input) = long
    BY <2>1
  <2> HIDE DEF long
  <2>8. long[Len(long)] = input
    BY <1>2, <2>5, <2>6
  <2>9. \A k \in 2..(Len(long) - 1) : long[k] = history[k + n + 1 - Len(long)]
    <3> TAKE k \in 2..(Len(long) - 1)
    <3>1. k + n + 2 - Limit \in 2..(n + 1)
      BY <1>2, <1>4, <2>5
    <3>2. long[k] = all[k + n + 2 - Limit]
      BY <2>5, <2>6
    <3>3. all[k + n + 2 - Limit] = history[(k + n + 2 - Limit) - 1]
      BY <1>2, <3>1
    <3>4. (k + n + 2 - Limit) - 1 = k + n + 1 - Len(long)
      BY <1>2, <2>5
    <3>5. QED
      BY <3>2, <3>3, <3>4
  <2>10. Len(history) + 2 > Limit /\ Limit \in Nat
    BY <1>2, <1>4
  <2>11. QED
    BY <2>5, <2>7, <2>8, <2>9, <2>10
<1>5. QED
  BY <1>3, <1>4

-----------------------------------------------------------------------------
(* The log and its rows *)

\* The parts of TypeOK that do not depend on what a prompt holds.
Typed ==
    /\ log \in Seq(Event) /\ rows \in Seq(Row) /\ Len(rows) = Len(log)
    /\ current \in Turn \cup {NoTurn}
    /\ snapshot \in Snapshot /\ taken \in Snapshot
    /\ output \in Seq(Nat) /\ run \in Nat
    /\ call \in {"none", "prepared", "whole", "streaming", "done", "failed"}
    /\ asked \in Seq(SUBSET Model) /\ Len(asked) = run
    /\ published \in Seq(Model) /\ Len(published) = snapshot.version
    /\ phase # "none" \/ call # "none" => run > 0

\* An event and its row are added, or neither.
Adds(type, r) ==
    \E e \in Event :
        /\ e.type = type /\ log' = Append(log, e)
        /\ r \in Row /\ r.run = run /\ rows' = Append(rows, r)

\* What an action may do to the log that is about neither deltas nor answers.
Quiet ==
    \/ UNCHANGED <<log, rows>>
    \/ \E type \in EventType \ {"assistant.delta", "assistant.message"}, r \in Row :
            Adds(type, r)

LEMMA Added ==
    ASSUME Typed, NEW type, NEW r, Adds(type, r)
    PROVE  /\ log' \in Seq(Event) /\ rows' \in Seq(Row)
           /\ Len(log') = Len(log) + 1 /\ Len(rows') = Len(rows) + 1
           /\ \A i \in 1..Len(log) : log'[i] = log[i] /\ rows'[i] = rows[i]
           /\ log'[Len(log) + 1].type = type /\ rows'[Len(log) + 1] = r
BY DEF Typed, Adds

\* An event of the holder comes with a row of its run.
LEMMA Speaking ==
    ASSUME Typed, NEW type \in EventType, NEW from, NEW to, Protocol!Says(type, from, to),
           NEW words \in Seq(Nat), NEW by \in Snapshot \cup {<< >>}, Says(words, by)
    PROVE  Adds(type, [run |-> run, words |-> words, by |-> by])
<1> DEFINE r == [run |-> run, words |-> words, by |-> by]
           e == Stamp([type |-> type, turn |-> current], Len(log) + 1)
<1>1. r \in Row
  BY DEF Row, Snapshot, Typed
<1>2. e \in Event /\ e.type = type
  BY DEF Event, Stamp, Typed
<1>3. log' = Append(log, e)
  BY DEF Protocol!Says, Protocol!Adds, Protocol!Stamp, Stamp
<1>4. log' # log
  BY <1>2, <1>3 DEF Typed
<1>5. QED
  BY <1>1, <1>2, <1>3, <1>4 DEF Says, Adds

\* A settled cancellation, too, if it is announced.
LEMMA Settling ==
    ASSUME Typed, NEW t \in Turn, SettleCancel(t)
    PROVE  UNCHANGED <<log, rows>> \/ \E r \in Row : Adds("turn.cancelled", r)
<1> DEFINE r == [run |-> run, words |-> << >>, by |-> << >>]
           e == Stamp([type |-> "turn.cancelled", turn |-> t], Len(log) + 1)
<1>1. r \in Row /\ e \in Event /\ e.type = "turn.cancelled"
  BY DEF Row, Event, Stamp, Typed, EventType, TerminalType
<1>2. CASE log' = log
  BY <1>2 DEF SettleCancel, Says
<1>3. CASE log' # log
  <2>1. log' = Append(log, e)
    BY <1>3 DEF SettleCancel, Protocol!SettleCancel, Protocol!Adds, Protocol!Stamp, Stamp
  <2>2. rows' = Append(rows, r)
    BY <1>3 DEF SettleCancel, Says
  <2>3. Adds("turn.cancelled", r)
    BY <1>1, <2>1, <2>2 DEF Adds
  <2>4. QED
    BY <1>1, <2>3
<1>4. QED
  BY <1>2, <1>3

\* The actions that neither start a turn nor say what the model has said.
Plain ==
    /\ Quiet
    /\ UNCHANGED <<snapshot, taken, output, call, run, asked, published>>
    /\ current' \in Turn \cup {NoTurn}
    /\ phase # "none" \/ phase' = "none"

LEMMA PlainSteps ==
    ASSUME Typed,
           \/ Started \/ Completed \/ Failed \/ FallSilent
           \/ \E t \in Turn : Cancel(t) \/ SettleCancel(t)
    PROVE  Plain
<1> DEFINE r == [run |-> run, words |-> << >>, by |-> << >>]
<1>0. r \in Row /\ << >> \in Seq(Nat)
  BY DEF Row, Typed
<1>1. ASSUME Started \/ Completed \/ Failed PROVE Plain
  <2>1. PICK type \in EventType \ {"assistant.delta", "assistant.message"},
             from \in {"taken", "open", "answered"}, to \in {"open", "over"} :
            Protocol!Says(type, from, to) /\ Says(<< >>, << >>)
    BY <1>1 DEF Started, Completed, Failed, EventType, TerminalType
  <2>2. Adds(type, r)
    BY <1>0, <2>1, Speaking
  <2>3. Quiet
    BY <1>0, <2>2 DEF Quiet
  <2>4. phase # "none" /\ current' = current
    BY <2>1 DEF Protocol!Says
  <2>5. QED
    BY <1>1, <2>3, <2>4 DEF Plain, Started, Completed, Failed, Outside, Typed
<1>2. CASE FallSilent
  BY <1>2 DEF FallSilent, Protocol!FallSilent, Protocol!Leave, Plain, Quiet, Outside, Typed
<1>3. ASSUME NEW t \in Turn, Cancel(t) PROVE Plain
  BY <1>3 DEF Cancel, Protocol!AcceptCancel, Plain, Quiet, Outside, Typed
<1>4. ASSUME NEW t \in Turn, SettleCancel(t) PROVE Plain
  <2>1. Quiet
    BY <1>4, Settling DEF Quiet, EventType, TerminalType
  <2>2. QED
    BY <1>4, <2>1 DEF SettleCancel, Protocol!SettleCancel, Plain, Outside, Typed
<1>5. QED
  BY <1>1, <1>2, <1>3, <1>4

\* The steps inside Client.Stream and readConversationHistory that log nothing.
Inside ==
    /\ UNCHANGED <<log, current, rows, snapshot, taken, output, run, published>>
    /\ phase' = phase
    /\ \/ call = "none" /\ phase = "open" /\ call' = "prepared" /\ UNCHANGED asked
       \/ /\ call = "prepared" /\ call' \in {"whole", "streaming", "failed"}
          /\ asked' = [asked EXCEPT ![run] = @ \cup {taken.model}]
       \/ call \in {"prepared", "streaming", "whole"} /\ call' = "failed" /\ UNCHANGED asked
       \/ call \in {"streaming", "whole"} /\ call' = "done" /\ UNCHANGED asked

LEMMA InsideSteps ==
    ASSUME ReadHistory \/ Ask \/ KeyMissing \/ StreamEnds \/ StreamBreaks
    PROVE  Inside
BY DEF ReadHistory, Ask, KeyMissing, StreamEnds, StreamBreaks, InTurn, Inside, protocolVars

\* A delta, and an answer.
LEMMA DeltaStep ==
    ASSUME Typed, Delta
    PROVE  /\ Adds("assistant.delta", [run |-> run, words |-> <<Len(log) + 1>>, by |-> << >>])
           /\ output' = Append(output, Len(log) + 1)
           /\ call \in {"whole", "streaming"} /\ call' \in {"streaming", "done", "failed"}
           /\ UNCHANGED <<current, snapshot, taken, run, asked, published>>
           /\ phase = "open"
<1>1. Protocol!Says("assistant.delta", "open", "open") /\ Says(<<Len(log) + 1>>, << >>)
  BY DEF Delta, Protocol!Streams
<1>2. <<Len(log) + 1>> \in Seq(Nat)
  BY DEF Typed
<1>3. Adds("assistant.delta", [run |-> run, words |-> <<Len(log) + 1>>, by |-> << >>])
  BY <1>1, <1>2, Speaking DEF EventType
<1>4. QED
  BY <1>1, <1>3 DEF Delta, Collected, Outside, Protocol!Says

LEMMA AnswerStep ==
    ASSUME Typed, Answer
    PROVE  /\ Adds("assistant.message", [run |-> run, words |-> output, by |-> taken])
           /\ UNCHANGED <<current, snapshot, taken, output, call, run, asked, published>>
           /\ call = "done" /\ phase = "open"
<1>1. Protocol!Says("assistant.message", "open", "answered") /\ Says(output, taken)
  BY DEF Answer, Claimed
<1>2. Adds("assistant.message", [run |-> run, words |-> output, by |-> taken])
  BY <1>1, Speaking DEF EventType, Typed
<1>3. QED
  BY <1>1, <1>2 DEF Answer, Outside, Protocol!Says

-----------------------------------------------------------------------------
(* Every step is one of these. *)

LEMMA StepKinds ==
    ASSUME Typed, Next
    PROVE  \/ Plain \/ Inside \/ Delta \/ Answer
           \/ \E t \in Turn : Take(t)
           \/ \E m \in Model : Publish(m)
<1>1. CASE Speaks
  BY <1>1, PlainSteps, InsideSteps, Zenon DEF Speaks
<1>2. CASE \E t \in Turn : Take(t) \/ Cancel(t) \/ SettleCancel(t)
  BY <1>2, PlainSteps, Zenon
<1>3. QED
  BY <1>1, <1>2, Zenon DEF Next

LEMMA TypedHolds == Spec => []Typed
<1> USE ConversationAssumption
<1>1. Init => Typed
  BY DEF Init, Protocol!Init, Snapshots!Init, Typed, Snapshot, Snapshots!Snapshot, Row
<1>2. Typed /\ [Next]_vars => Typed'
  <2> SUFFICES ASSUME Typed, [Next]_vars PROVE Typed'
    OBVIOUS
  <2>1. ASSUME NEW type, NEW r, Adds(type, r)
        PROVE  log' \in Seq(Event) /\ rows' \in Seq(Row) /\ Len(rows') = Len(log')
    BY <2>1, Added DEF Typed
  <2>2. CASE Plain
    <3>1. log' \in Seq(Event) /\ rows' \in Seq(Row) /\ Len(rows') = Len(log')
      BY <2>1, <2>2 DEF Plain, Quiet, Typed
    <3>2. QED
      BY <2>2, <3>1 DEF Plain, Typed
  <2>3. CASE Inside
    <3>1. run > 0
      BY <2>3 DEF Inside, Typed
    <3>2. taken.model \in Model
      BY DEF Typed, Snapshot, Snapshots!Snapshot
    <3>3. ASSUME asked' = [asked EXCEPT ![run] = @ \cup {taken.model}]
          PROVE  asked' \in Seq(SUBSET Model) /\ Len(asked') = run
      <4>1. asked[run] \cup {taken.model} \in SUBSET Model
        BY <3>1, <3>2 DEF Typed
      <4>2. QED
        BY <3>1, <3>3, <4>1 DEF Typed
    <3>4. asked' \in Seq(SUBSET Model) /\ Len(asked') = run
      BY <2>3, <3>3 DEF Inside, Typed
    <3>5. QED
      BY <2>3, <3>1, <3>4 DEF Inside, Typed
  <2>4. CASE Delta
    <3>1. log' \in Seq(Event) /\ rows' \in Seq(Row) /\ Len(rows') = Len(log')
      BY <2>1, <2>4, DeltaStep
    <3>0. output' = Append(output, Len(log) + 1)
      BY <2>4, DeltaStep
    <3>2. output' \in Seq(Nat)
      BY <3>0 DEF Typed
    <3>3. /\ UNCHANGED <<current, snapshot, taken, run, asked, published>> /\ phase = "open"
          /\ call' \in {"streaming", "done", "failed"}
      BY <2>4, DeltaStep
    <3>4. QED
      BY <3>1, <3>2, <3>3 DEF Typed
  <2>5. CASE Answer
    <3>1. log' \in Seq(Event) /\ rows' \in Seq(Row) /\ Len(rows') = Len(log')
      BY <2>1, <2>5, AnswerStep
    <3>2. QED
      BY <2>5, <3>1, AnswerStep DEF Typed
  <2>6. ASSUME NEW t \in Turn, Take(t) PROVE Typed'
    <3>1. asked' \in Seq(SUBSET Model) /\ Len(asked') = run + 1
      BY <2>6 DEF Take, Typed
    <3>2. QED
      BY <2>6, <3>1 DEF Take, Protocol!Take, Typed
  <2>7. ASSUME NEW m \in Model, Publish(m) PROVE Typed'
    <3>0. /\ published' = Append(published, m) /\ published \in Seq(Model)
          /\ Len(published) = snapshot.version
      BY <2>7 DEF Publish, Typed
    <3>1. published' \in Seq(Model) /\ Len(published') = snapshot.version + 1
      BY <3>0
    <3>2. snapshot' \in Snapshot /\ snapshot'.version = snapshot.version + 1
      BY <2>7 DEF Publish, Snapshots!Publish, Typed, Snapshot, Snapshots!Snapshot
    <3>3. QED
      BY <2>7, <3>1, <3>2 DEF Publish, protocolVars, turn, Typed
  <2>8. CASE UNCHANGED vars
    BY <2>8 DEF vars, protocolVars, turn, Typed
  <2>9. QED
    BY <2>2, <2>3, <2>4, <2>5, <2>6, <2>7, <2>8, StepKinds
<1>3. QED
  BY <1>1, <1>2, PTL DEF Spec

-----------------------------------------------------------------------------
(* Answers and deltas *)

Deltas(n) == {k \in 1..Len(log) : log[k].type = "assistant.delta" /\ rows[k].run = n}

\* The output of the latest run is what it has logged as deltas, in order.
Streamed ==
    /\ \A i \in 1..Len(log) : rows[i].run <= run
    /\ Range(output) = Deltas(run)
    /\ \A j, k \in DOMAIN output : j < k => output[j] < output[k]

LEMMA RowsTyped ==
    ASSUME Typed
    PROVE  /\ \A i \in 1..Len(log) : rows[i] \in Row /\ rows[i].run \in Nat
           /\ run \in Nat /\ Len(log) \in Nat
<1>1. \A i \in 1..Len(log) : rows[i] \in Row
  BY DEF Typed
<1>2. \A r \in Row : r.run \in Nat
  BY DEF Row
<1>3. QED
  BY <1>1, <1>2 DEF Typed

LEMMA RangeOfAppend ==
    ASSUME NEW s \in Seq(Nat), NEW n \in Nat
    PROVE  Range(Append(s, n)) = Range(s) \cup {n}
<1>1. /\ DOMAIN Append(s, n) = 1..(Len(s) + 1) /\ DOMAIN s = 1..Len(s) /\ Len(s) \in Nat
      /\ \A i \in 1..Len(s) : Append(s, n)[i] = s[i]
      /\ Append(s, n)[Len(s) + 1] = n
  OBVIOUS
<1>2. QED
  BY <1>1 DEF Range

LEMMA StreamedStep ==
    ASSUME Typed, Typed', Streamed, [Next]_vars
    PROVE  Streamed'
<1>1. ASSUME NEW type \in EventType \ {"assistant.delta"}, NEW r, Adds(type, r),
             UNCHANGED <<output, run>>
      PROVE  Streamed'
  <2>1. r.run = run
    BY <1>1 DEF Adds
  <2>2. Deltas(run)' = Deltas(run)
    BY <1>1, Added DEF Deltas, Typed
  <2>3. \A i \in 1..Len(log') : rows'[i].run <= run'
    <3>1. /\ Len(log') = Len(log) + 1
          /\ \A i \in 1..Len(log) : rows'[i] = rows[i]
          /\ rows'[Len(log) + 1] = r
      BY <1>1, Added
    <3>2. QED
      BY <1>1, <2>1, <3>1, RowsTyped DEF Streamed
  <2>4. QED
    BY <1>1, <2>2, <2>3 DEF Streamed
<1>2. ASSUME UNCHANGED <<log, rows, output, run>> PROVE Streamed'
  BY <1>2 DEF Streamed, Deltas
<1>3. CASE Plain
  BY <1>1, <1>2, <1>3 DEF Plain, Quiet
<1>4. CASE Inside
  BY <1>2, <1>4 DEF Inside
<1>5. CASE Answer
  BY <1>1, <1>5, AnswerStep DEF EventType
<1>6. CASE Delta
  <2> DEFINE n == Len(log) + 1
             r == [run |-> run, words |-> <<n>>, by |-> << >>]
  <2>1. Adds("assistant.delta", r) /\ output' = Append(output, n) /\ run' = run
    BY <1>6, DeltaStep
  <2>2. /\ Len(log') = n /\ n \in Nat
        /\ \A i \in 1..Len(log) : log'[i] = log[i] /\ rows'[i] = rows[i]
        /\ log'[n].type = "assistant.delta" /\ rows'[n] = r
    BY <2>1, Added DEF Typed
  <2>3. Deltas(run)' = Deltas(run) \cup {n}
    BY <2>1, <2>2 DEF Deltas
  <2>4. Range(output') = Range(output) \cup {n}
    BY <2>1, <2>2, RangeOfAppend DEF Typed
  <2>5. \A j \in DOMAIN output : output[j] < n
    <3> TAKE j \in DOMAIN output
    <3>1. output[j] \in Range(output)
      BY DEF Range
    <3>2. output[j] \in 1..Len(log)
      BY <3>1 DEF Streamed, Deltas
    <3>3. QED
      BY <3>2, RowsTyped
  <2>6. \A j, k \in DOMAIN output' : j < k => output'[j] < output'[k]
    BY <2>1, <2>5 DEF Streamed, Typed
  <2>7. \A i \in 1..Len(log') : rows'[i].run <= run'
    BY <2>1, <2>2, RowsTyped DEF Streamed
  <2>8. QED
    BY <2>1, <2>3, <2>4, <2>6, <2>7 DEF Streamed
<1>7. ASSUME NEW t \in Turn, Take(t) PROVE Streamed'
  <2>1. UNCHANGED <<log, rows>> /\ output' = << >> /\ run' = run + 1
    BY <1>7 DEF Take, Protocol!Take
  <2>2. Deltas(run)' = {}
    BY <2>1, RowsTyped DEF Deltas, Streamed
  <2>3. Range(<< >>) = {}
    BY DEF Range
  <2>4. \A i \in 1..Len(log') : rows'[i].run <= run'
    BY <2>1, RowsTyped DEF Streamed
  <2>5. QED
    <3>1. Range(output') = Deltas(run)'
      BY <2>1, <2>2, <2>3
    <3>2. \A j, k \in DOMAIN output' : j < k => output'[j] < output'[k]
      BY <2>1
    <3>3. QED
      BY <2>4, <3>1, <3>2 DEF Streamed
<1>8. ASSUME NEW m \in Model, Publish(m) PROVE Streamed'
  BY <1>2, <1>8 DEF Publish, protocolVars, turn
<1>9. CASE UNCHANGED vars
  BY <1>2, <1>9 DEF vars, protocolVars, turn
<1>10. QED
  BY <1>3, <1>4, <1>5, <1>6, <1>7, <1>8, <1>9, StepKinds

LEMMA StreamedHolds == Spec => []Streamed
<1>1. Init => Streamed
  BY DEF Init, Protocol!Init, Streamed, Range, Deltas
<1>2. Typed /\ Typed' /\ Streamed /\ [Next]_vars => Streamed'
  BY StreamedStep
<1>3. QED
  BY <1>1, <1>2, TypedHolds, PTL DEF Spec

\* Whoever replays the log and whoever has followed the stream read the same answers,
\* for any number of turns and deltas, whatever ids the turns have and however earlier
\* ones ended.
THEOREM AnswerIsDeltasHolds == Spec => []AnswerIsDeltas
<1>1. Init => AnswerIsDeltas
  BY DEF Init, Protocol!Init, AnswerIsDeltas
<1>2. Typed /\ Streamed /\ AnswerIsDeltas /\ [Next]_vars => AnswerIsDeltas'
  <2> SUFFICES ASSUME Typed, Streamed, AnswerIsDeltas, [Next]_vars PROVE AnswerIsDeltas'
    OBVIOUS
  <2>1. ASSUME NEW type, NEW r, Adds(type, r),
               type = "assistant.message" =>
                   /\ Range(r.words) = Deltas(r.run)
                   /\ \A j, k \in DOMAIN r.words : j < k => r.words[j] < r.words[k]
        PROVE  AnswerIsDeltas'
    <3> SUFFICES ASSUME NEW i \in DOMAIN log', log'[i].type = "assistant.message"
                 PROVE  /\ Range(rows'[i].words) =
                              {k \in 1..(i-1) : /\ log'[k].type = "assistant.delta"
                                               /\ rows'[k].run = rows'[i].run}
                        /\ \A j, k \in DOMAIN rows'[i].words :
                               j < k => rows'[i].words[j] < rows'[i].words[k]
      BY DEF AnswerIsDeltas, IsAnswer
    <3>1. /\ DOMAIN log' = 1..(Len(log) + 1) /\ DOMAIN log = 1..Len(log) /\ Len(log) \in Nat
          /\ \A k \in 1..Len(log) : log'[k] = log[k] /\ rows'[k] = rows[k]
          /\ log'[Len(log) + 1].type = type /\ rows'[Len(log) + 1] = r
      BY <2>1, Added DEF Typed
    <3>2. CASE i = Len(log) + 1
      BY <2>1, <3>1, <3>2 DEF Deltas
    <3>3. CASE i \in 1..Len(log)
      <4>1. log'[i] = log[i] /\ rows'[i] = rows[i]
        BY <3>1, <3>3
      <4>2. \A k \in 1..(i-1) : log'[k] = log[k] /\ rows'[k] = rows[k]
        BY <3>1, <3>3
      <4>3. /\ Range(rows[i].words) =
                   {k \in 1..(i-1) : log[k].type = "assistant.delta" /\ rows[k].run = rows[i].run}
            /\ \A j, k \in DOMAIN rows[i].words :
                   j < k => rows[i].words[j] < rows[i].words[k]
        BY <3>1, <3>3, <4>1 DEF AnswerIsDeltas, IsAnswer
      <4>4. {k \in 1..(i-1) : log'[k].type = "assistant.delta" /\ rows'[k].run = rows'[i].run}
              = {k \in 1..(i-1) : log[k].type = "assistant.delta" /\ rows[k].run = rows[i].run}
        BY <4>1, <4>2
      <4>5. QED
        BY <4>1, <4>3, <4>4
    <3>4. QED
      BY <3>1, <3>2, <3>3
  <2>2. ASSUME UNCHANGED <<log, rows>> PROVE AnswerIsDeltas'
    BY <2>2 DEF AnswerIsDeltas, IsAnswer
  <2>3. CASE Plain
    BY <2>1, <2>2, <2>3 DEF Plain, Quiet
  <2>4. CASE Inside
    BY <2>2, <2>4 DEF Inside
  <2>5. CASE Delta
    BY <2>1, <2>5, DeltaStep
  <2>6. CASE Answer
    <3> DEFINE r == [run |-> run, words |-> output, by |-> taken]
    <3>1. Adds("assistant.message", r)
      BY <2>6, AnswerStep
    <3>2. r.words = output /\ r.run = run
      OBVIOUS
    <3> HIDE DEF r
    <3>3. QED
      BY <2>1, <3>1, <3>2 DEF Streamed
  <2>7. ASSUME NEW t \in Turn, Take(t) PROVE AnswerIsDeltas'
    BY <2>2, <2>7 DEF Take, Protocol!Take
  <2>8. ASSUME NEW m \in Model, Publish(m) PROVE AnswerIsDeltas'
    BY <2>2, <2>8 DEF Publish, protocolVars
  <2>9. CASE UNCHANGED vars
    BY <2>2, <2>9 DEF vars, protocolVars
  <2>10. QED
    BY <2>3, <2>4, <2>5, <2>6, <2>7, <2>8, <2>9, StepKinds
<1>3. QED
  BY <1>1, <1>2, TypedHolds, StreamedHolds, PTL DEF Spec

-----------------------------------------------------------------------------
(* Answers and models *)

PublishedAs(s) ==
    IF s.version = 0 THEN s.model = DefaultModel ELSE published[s.version] = s.model

\* What holds of an answer, and keeps its turn from asking again.
Claim(i) ==
    LET by == rows[i].by
    IN  /\ rows[i].run \in 1..run /\ by \in Snapshot
        /\ by.version <= taken.version /\ PublishedAs(by)
        /\ asked[rows[i].run] = {by.model}
        /\ rows[i].run = run => call = "done"

Claims ==
    /\ PublishedAs(snapshot) /\ PublishedAs(taken) /\ taken.version <= snapshot.version
    /\ run > 0 /\ call \in {"none", "prepared"} => asked[run] = {}
    /\ call \in {"whole", "streaming", "done"} => asked[run] = {taken.model}
    /\ \A i \in 1..Len(log) : IsAnswer(i) =>
        Claim(i) /\ \A k \in 1..i : IsAnswer(k) => rows[k].by.version <= rows[i].by.version

\* A step that leaves the answers alone keeps their claims, if it keeps each of the parts
\* of Claim.
LEMMA ClaimsKept ==
    ASSUME Typed, Claims, Quiet \/ (\E r \in Row : Adds("assistant.delta", r)),
           \A i \in 1..Len(log) : IsAnswer(i) /\ Claim(i) /\ rows'[i] = rows[i] => Claim(i)'
    PROVE  \A i \in 1..Len(log') : IsAnswer(i)' =>
               /\ Claim(i)'
               /\ \A k \in 1..i : IsAnswer(k)' => rows'[k].by.version <= rows'[i].by.version
<1>1. ASSUME UNCHANGED <<log, rows>>
      PROVE  \A i \in 1..Len(log') : IsAnswer(i)' =>
               /\ Claim(i)'
               /\ \A k \in 1..i : IsAnswer(k)' => rows'[k].by.version <= rows'[i].by.version
  <2> TAKE i \in 1..Len(log')
  <2>1. i \in 1..Len(log) /\ rows'[i] = rows[i] /\ \A k \in 1..i : IsAnswer(k)' = IsAnswer(k)
    BY <1>1 DEF IsAnswer
  <2>2. QED
    BY <1>1, <2>1 DEF Claims
<1>2. ASSUME NEW type \in EventType \ {"assistant.message"}, NEW r \in Row, Adds(type, r)
      PROVE  \A i \in 1..Len(log') : IsAnswer(i)' =>
               /\ Claim(i)'
               /\ \A k \in 1..i : IsAnswer(k)' => rows'[k].by.version <= rows'[i].by.version
  <2> SUFFICES ASSUME NEW i \in 1..Len(log'), IsAnswer(i)'
               PROVE  /\ Claim(i)'
                      /\ \A k \in 1..i : IsAnswer(k)' =>
                             rows'[k].by.version <= rows'[i].by.version
    OBVIOUS
  <2>1. /\ Len(log') = Len(log) + 1 /\ Len(log) \in Nat
        /\ \A k \in 1..Len(log) : log'[k] = log[k] /\ rows'[k] = rows[k]
        /\ log'[Len(log) + 1].type = type
    BY <1>2, Added DEF Typed
  <2>2. i \in 1..Len(log)
    BY <2>1 DEF IsAnswer
  <2>3. \A k \in 1..i : IsAnswer(k)' = IsAnswer(k) /\ rows'[k] = rows[k]
    BY <2>1, <2>2 DEF IsAnswer
  <2>4. IsAnswer(i) /\ rows'[i] = rows[i]
    BY <2>2, <2>3
  <2>5. QED
    BY <2>2, <2>3, <2>4 DEF Claims
<1>3. QED
  BY <1>1, <1>2 DEF Quiet, EventType

\* The parts of Claims that speak of the turn under way and of the models alone.
Asking ==
    /\ PublishedAs(snapshot) /\ PublishedAs(taken) /\ taken.version <= snapshot.version
    /\ run > 0 /\ call \in {"none", "prepared"} => asked[run] = {}
    /\ call \in {"whole", "streaming", "done"} => asked[run] = {taken.model}

LEMMA ClaimsStep ==
    ASSUME Typed, Typed', Claims, [Next]_vars
    PROVE  Claims'
<1> DEFINE Same == UNCHANGED <<snapshot, taken, run, asked, published>>
<1>0. /\ snapshot.version \in Nat /\ taken.version \in Nat /\ run \in Nat
      /\ taken.model \in Model
  BY DEF Typed, Snapshot, Snapshots!Snapshot
<1>1. CASE Plain
  <2>1. Same /\ call' = call /\ Quiet
    BY <1>1 DEF Plain
  <2>2. Asking'
    BY <2>1 DEF Claims, Asking, PublishedAs
  <2>3. QED
    BY <2>1, <2>2, ClaimsKept DEF Claims, Asking, Claim, PublishedAs
<1>2. CASE Inside
  <2>1. Quiet /\ UNCHANGED <<snapshot, taken, run, published>>
    BY <1>2 DEF Inside, Quiet
  <2>2. run > 0
    BY <1>2 DEF Inside, Typed
  <2>3. call # "done" /\ \A n \in 1..run : n # run => asked'[n] = asked[n]
    <3>1. call # "done"
      BY <1>2 DEF Inside
    <3>2. \A n \in 1..run : n \in DOMAIN asked
      BY DEF Typed
    <3>3. \/ asked' = asked
          \/ asked' = [asked EXCEPT ![run] = @ \cup {taken.model}]
      BY <1>2 DEF Inside
    <3>4. QED
      BY <3>1, <3>2, <3>3
  <2>4. Asking'
    <3>1. CASE call = "prepared" /\ call' \in {"whole", "streaming", "failed"}
                 /\ asked' = [asked EXCEPT ![run] = @ \cup {taken.model}]
      <4>1. asked'[run] = {taken.model}
        BY <2>2, <3>1 DEF Claims, Typed
      <4>2. QED
        BY <2>1, <3>1, <4>1 DEF Claims, Asking, PublishedAs
    <3>2. QED
      BY <1>2, <2>1, <3>1 DEF Inside, Claims, Asking, PublishedAs
  <2>5. QED
    BY <2>1, <2>3, <2>4, ClaimsKept DEF Claims, Asking, Claim, PublishedAs
<1>3. CASE Delta
  <2>1. Same /\ call # "done" /\ call \in {"whole", "streaming"}
             /\ call' \in {"streaming", "done", "failed"}
    BY <1>3, DeltaStep
  <2>2. \E r \in Row : Adds("assistant.delta", r)
    BY <1>3, DeltaStep, Zenon DEF Adds
  <2>3. Asking'
    BY <2>1 DEF Claims, Asking, PublishedAs
  <2>4. QED
    BY <2>1, <2>2, <2>3, ClaimsKept DEF Claims, Asking, Claim, PublishedAs
<1>4. CASE Answer
  <2> DEFINE r == [run |-> run, words |-> output, by |-> taken]
  <2>0. PICK n \in Nat : n = Len(log) + 1
    BY DEF Typed
  <2>1. Same /\ call = "done" /\ call' = call /\ Adds("assistant.message", r) /\ run > 0
    BY <1>4, AnswerStep DEF Typed
  <2>2. Asking'
    BY <2>1 DEF Claims, Asking, PublishedAs
  <2>3. /\ Len(log') = n /\ Len(log) \in Nat
        /\ \A k \in 1..Len(log) : log'[k] = log[k] /\ rows'[k] = rows[k]
        /\ rows'[n].run = run /\ rows'[n].by = taken
    BY <2>0, <2>1, Added DEF Typed
  <2>4. \A k \in 1..Len(log) : IsAnswer(k)' = IsAnswer(k)
    BY <2>3 DEF IsAnswer
  <2>5. \A k \in 1..Len(log) : IsAnswer(k)' => Claim(k)'
    BY <2>1, <2>3, <2>4 DEF Claims, Claim, PublishedAs
  <2>6. Claim(n)'
    <3>1. PublishedAs(taken) /\ taken \in Snapshot /\ asked[run] = {taken.model}
      BY <2>1 DEF Claims, Typed
    <3>2. run \in 1..run /\ taken.version <= taken.version
      BY <1>0, <2>1
    <3>3. QED
      BY <2>1, <2>3, <3>1, <3>2 DEF Claim, PublishedAs
  <2>7. ASSUME NEW i \in 1..n, IsAnswer(i)', NEW k \in 1..i, IsAnswer(k)'
        PROVE  rows'[k].by.version <= rows'[i].by.version
    <3>1. CASE i \in 1..Len(log)
      BY <2>3, <2>4, <2>7, <3>1 DEF Claims
    <3>2. CASE i = n /\ k = n
      BY <1>0, <2>3, <3>2
    <3>3. CASE i = n /\ k \in 1..Len(log)
      BY <2>3, <2>4, <2>7, <3>3 DEF Claims, Claim
    <3>4. QED
      BY <2>0, <2>3, <3>1, <3>2, <3>3
  <2>8. \A i \in 1..n : i \in 1..Len(log) \/ i = n
    BY <2>0, <2>3
  <2>9. \A i \in 1..n : IsAnswer(i)' => Claim(i)'
    BY <2>5, <2>6, <2>8
  <2>10. \A i \in 1..Len(log') : IsAnswer(i)' =>
             /\ Claim(i)'
             /\ \A k \in 1..i : IsAnswer(k)' => rows'[k].by.version <= rows'[i].by.version
    BY <2>3, <2>7, <2>9
  <2>11. QED
    BY <2>2, <2>10 DEF Claims, Asking
<1>5. ASSUME NEW t \in Turn, Take(t) PROVE Claims'
  <2>1. /\ Quiet /\ UNCHANGED <<snapshot, published>> /\ run' = run + 1 /\ taken' = snapshot
        /\ call' = "none" /\ asked' = Append(asked, {})
    BY <1>5 DEF Take, Protocol!Take, Quiet
  <2>2. asked'[run + 1] = {} /\ \A m \in 1..run : asked'[m] = asked[m]
    BY <2>1 DEF Typed
  <2>3. Asking'
    <3>1. PublishedAs(snapshot)' /\ PublishedAs(taken)'
      BY <2>1 DEF Claims, PublishedAs
    <3>2. taken'.version <= snapshot'.version
      BY <1>0, <2>1
    <3>3. asked'[run'] = {}
      BY <2>1, <2>2
    <3>4. QED
      BY <2>1, <3>1, <3>2, <3>3 DEF Asking
  <2>4. ASSUME NEW i \in 1..Len(log), IsAnswer(i), Claim(i), rows'[i] = rows[i]
        PROVE  Claim(i)'
    <3>1. rows[i].by.version \in Nat
      BY <2>4 DEF Claim, Snapshot, Snapshots!Snapshot
    <3>2. /\ rows[i].run \in 1..run /\ rows[i].by \in Snapshot
          /\ rows[i].by.version <= taken.version /\ taken.version <= snapshot.version
          /\ PublishedAs(rows[i].by) /\ asked[rows[i].run] = {rows[i].by.model}
      BY <2>4 DEF Claims, Claim
    <3>3. rows[i].run \in 1..(run + 1) /\ rows[i].run # run + 1
      BY <1>0, <3>2
    <3>4. rows[i].by.version <= snapshot.version
      BY <1>0, <3>1, <3>2
    <3>5. asked'[rows[i].run] = {rows[i].by.model}
      BY <2>2, <3>2
    <3>6. PublishedAs(rows[i].by)'
      BY <2>1, <2>4, <3>2 DEF PublishedAs
    <3>7. QED
      BY <2>1, <2>4, <3>2, <3>3, <3>4, <3>5, <3>6 DEF Claim
  <2>5. QED
    BY <2>1, <2>3, <2>4, ClaimsKept DEF Claims, Asking
<1>6. ASSUME NEW m \in Model, Publish(m) PROVE Claims'
  <2>1. /\ Quiet /\ UNCHANGED <<taken, run, asked, call>> /\ published' = Append(published, m)
        /\ snapshot' = [version |-> snapshot.version + 1, model |-> m]
    BY <1>6 DEF Publish, Snapshots!Publish, Quiet, protocolVars, turn
  <2>2. /\ published'[snapshot.version + 1] = m
        /\ \A v \in 1..snapshot.version : published'[v] = published[v]
    BY <1>0, <2>1 DEF Typed
  <2>3. ASSUME NEW s \in Snapshot, PublishedAs(s), s.version <= snapshot.version
        PROVE  PublishedAs(s)'
    BY <1>0, <2>2, <2>3 DEF PublishedAs, Snapshot, Snapshots!Snapshot
  <2>4. PublishedAs(taken)'
    <3>1. PublishedAs(taken) /\ taken.version <= snapshot.version
      BY DEF Claims
    <3>2. taken.version # 0 => taken.version \in 1..snapshot.version
      BY <1>0, <3>1
    <3>3. QED
      BY <2>1, <2>2, <3>1, <3>2 DEF PublishedAs
  <2>5. PublishedAs(snapshot)'
    <3>1. snapshot'.version = snapshot.version + 1 /\ snapshot'.model = m
      BY <2>1
    <3>2. snapshot'.version # 0
      BY <1>0, <3>1
    <3>3. QED
      BY <2>2, <3>1, <3>2 DEF PublishedAs
  <2>6. Asking'
    BY <1>0, <2>1, <2>4, <2>5 DEF Claims, Asking
  <2>7. ASSUME NEW i \in 1..Len(log), IsAnswer(i), Claim(i), rows'[i] = rows[i]
        PROVE  Claim(i)'
    <3>1. rows[i].by.version \in Nat /\ rows[i].by.version <= snapshot.version
      BY <1>0, <2>7 DEF Claims, Claim, Snapshot, Snapshots!Snapshot
    <3>2. PublishedAs(rows[i].by)'
      BY <1>0, <2>2, <2>7, <3>1 DEF Claim, PublishedAs
    <3>3. QED
      BY <2>1, <2>7, <3>2 DEF Claim
  <2>8. QED
    BY <2>1, <2>6, <2>7, ClaimsKept DEF Claims, Asking
<1>7. CASE UNCHANGED vars
  <2>1. Quiet /\ Same /\ call' = call
    BY <1>7 DEF vars, protocolVars, turn, Quiet
  <2>2. QED
    BY <2>1, ClaimsKept DEF Claims, Claim, PublishedAs
<1>8. QED
  BY <1>1, <1>2, <1>3, <1>4, <1>5, <1>6, <1>7, StepKinds

\* An answer claims the model that was asked, the only one, under the version that model
\* was published with, however often models are reloaded while turns run.
THEOREM ClaimsAreTrueHolds == Spec => []ClaimsAreTrue
<1>1. Init => Claims
  BY DEF Init, Protocol!Init, Snapshots!Init, Claims, PublishedAs
<1>2. Typed /\ Typed' /\ Claims /\ [Next]_vars => Claims'
  BY ClaimsStep
<1>3. Claims => ClaimsAreTrue
  <2> SUFFICES ASSUME Claims, NEW i \in 1..Len(log), IsAnswer(i)
               PROVE  /\ asked[rows[i].run] = {rows[i].by.model}
                      /\ PublishedAs(rows[i].by)
                      /\ \A k \in 1..i : IsAnswer(k) =>
                             rows[k].by.version <= rows[i].by.version
    BY DEF ClaimsAreTrue, PublishedAs
  <2>1. Claim(i) /\ \A k \in 1..i : IsAnswer(k) => rows[k].by.version <= rows[i].by.version
    BY DEF Claims
  <2>2. QED
    BY <2>1 DEF Claim
<1>4. QED
  BY <1>1, <1>2, <1>3, TypedHolds, PTL DEF Spec

-----------------------------------------------------------------------------
(* readConversationHistory: the fold over the log *)

Nothing == [inputs |-> [t \in Turn |-> 0], messages |-> << >>]
Known == FoldLeft(Reads, Nothing, [i \in DOMAIN log |-> i])

\* What one event adds to what is known, for any log and its rows.
ReadsOf(l, r, known, i) ==
    IF l[i].type = "turn.started"
    THEN [known EXCEPT !.inputs = [@ EXCEPT ![l[i].turn] = r[i].run]]
    ELSE IF l[i].type = "assistant.message" /\ known.inputs[l[i].turn] # 0
    THEN [inputs |-> [known.inputs EXCEPT ![l[i].turn] = 0],
          messages |-> known.messages \o
                           <<User(known.inputs[l[i].turn]), Assistant(r[i].run)>>]
    ELSE known

\* g is the function by which the fold over the places in D is defined.
Folds(g, l, r, D) ==
    g = [s \in SUBSET D |-> IF s = {} THEN Nothing
                            ELSE ReadsOf(l, r, g[s \ {Max(s)}], [i \in D |-> i][Max(s)])]
KnownOf(l, r) == (CHOOSE g : Folds(g, l, r, DOMAIN l))[DOMAIN l]

LEMMA KnownIs == Known = KnownOf(log, rows) /\ Known' = KnownOf(log', rows')
<1>1. Known = KnownOf(log, rows)
  BY Zenon DEF Known, KnownOf, Folds, FoldLeft, MapThenFoldSet, Reads, ReadsOf, Remember
<1>2. Known' = KnownOf(log', rows')
  BY Zenon DEF Known, KnownOf, Folds, FoldLeft, MapThenFoldSet, Reads, ReadsOf, Remember
<1>3. QED BY <1>1, <1>2

LEMMA FoldExists ==
    ASSUME NEW l, NEW r, NEW n \in Nat
    PROVE  \E g : Folds(g, l, r, 1..n)
<1> DEFINE S == {m \in Nat : \E g : Folds(g, l, r, 1..m)}
<1>1. 0 \in S
  <2> DEFINE g == [s \in SUBSET (1..0) |-> Nothing]
  <2>1. \A s \in SUBSET (1..0) : s = {}
    OBVIOUS
  <2>2. Folds(g, l, r, 1..0)
    BY <2>1, Zenon DEF Folds
  <2>3. QED BY <2>2
<1>2. ASSUME NEW m \in Nat, m \in S PROVE m + 1 \in S
  <2>1. PICK g : Folds(g, l, r, 1..m)
    BY <1>2
  <2> DEFINE D == 1..(m + 1)
             h == [s \in SUBSET D |->
                      IF m + 1 \in s THEN ReadsOf(l, r, g[s \ {m + 1}], m + 1) ELSE g[s]]
             Step(s) == ReadsOf(l, r, h[s \ {Max(s)}], [i \in D |-> i][Max(s)])
  <2>2. g = [s \in SUBSET (1..m) |->
                IF s = {} THEN Nothing
                ELSE ReadsOf(l, r, g[s \ {Max(s)}], [i \in 1..m |-> i][Max(s)])]
    BY <2>1 DEF Folds
  <2>3. \A s \in SUBSET (1..m) : s \in SUBSET D /\ m + 1 \notin s /\ h[s] = g[s]
    <3>1. \A s \in SUBSET (1..m) : s \in SUBSET D /\ m + 1 \notin s
      OBVIOUS
    <3>2. QED BY <3>1, Zenon
  <2>4. ASSUME NEW s \in SUBSET D, s = {} PROVE h[s] = Nothing
    <3>1. s \in SUBSET (1..m)
      BY <2>4
    <3>2. h[s] = g[s]
      BY <2>3, <3>1, Zenon
    <3>3. g[s] = Nothing
      BY <2>2, <2>4, <3>1, Zenon
    <3>4. QED BY <3>2, <3>3, Zenon
  <2>5. ASSUME NEW s \in SUBSET D, m + 1 \in s PROVE h[s] = Step(s)
    <3>1. Max(s) = m + 1
      BY <2>5, MaxIs
    <3>2. s \ {m + 1} \in SUBSET (1..m) /\ [i \in D |-> i][m + 1] = m + 1
      OBVIOUS
    <3>3. h[s \ {m + 1}] = g[s \ {m + 1}]
      BY <2>3, <3>2, Zenon
    <3>4. h[s] = ReadsOf(l, r, g[s \ {m + 1}], m + 1)
      BY <2>5, Zenon
    <3>5. QED BY <3>1, <3>2, <3>3, <3>4, Zenon
  <2>6. ASSUME NEW s \in SUBSET D, m + 1 \notin s, s # {} PROVE h[s] = Step(s)
    <3>1. s \in SUBSET (1..m)
      BY <2>6
    <3>2. Max(s) \in 1..m
      BY <2>6, <3>1, MaxElement
    <3>3. [i \in D |-> i][Max(s)] = Max(s) /\ [i \in 1..m |-> i][Max(s)] = Max(s)
      BY <3>2
    <3>4. h[s] = g[s] /\ h[s \ {Max(s)}] = g[s \ {Max(s)}]
      <4>1. s \ {Max(s)} \in SUBSET (1..m)
        BY <3>1, Zenon
      <4>2. QED BY <2>3, <3>1, <4>1, Zenon
    <3>5. g[s] = ReadsOf(l, r, g[s \ {Max(s)}], [i \in 1..m |-> i][Max(s)])
      BY <2>2, <2>6, <3>1, Zenon
    <3>6. QED BY <3>3, <3>4, <3>5, Zenon
  <2>7. \A s \in SUBSET D : h[s] = IF s = {} THEN Nothing ELSE Step(s)
    BY <2>4, <2>5, <2>6, Zenon
  <2>8. h = [s \in SUBSET D |-> IF s = {} THEN Nothing ELSE Step(s)]
    <3> DEFINE body(s) == IF m + 1 \in s THEN ReadsOf(l, r, g[s \ {m + 1}], m + 1) ELSE g[s]
    <3>1. h = [s \in SUBSET D |-> body(s)] /\ \A s \in SUBSET D : h[s] = body(s)
      BY Zenon
    <3> HIDE DEF h, body
    <3>2. \A s \in SUBSET D : body(s) = IF s = {} THEN Nothing ELSE Step(s)
      BY <2>7, <3>1, Zenon
    <3>3. [s \in SUBSET D |-> body(s)] = [s \in SUBSET D |-> IF s = {} THEN Nothing ELSE Step(s)]
      BY <3>2, Zenon
    <3>4. QED BY <3>1, <3>3, Zenon
  <2> HIDE DEF h
  <2>9. Folds(h, l, r, D)
    BY <2>8, Zenon DEF Folds
  <2>10. m + 1 \in Nat
    OBVIOUS
  <2>11. QED BY <2>9, <2>10, Zenon
<1> HIDE DEF S
<1>3. \A m \in Nat : m \in S
  BY <1>1, <1>2, NatClosed, Zenon
<1>4. QED BY <1>3, Zenon DEF S

\* The fold over a log one event longer goes one step on.
LEMMA FoldGrows ==
    ASSUME NEW l, NEW r, NEW m, NEW q, NEW n \in Nat,
           DOMAIN l = 1..n, DOMAIN m = 1..(n + 1),
           \A i \in 1..n : m[i] = l[i] /\ q[i] = r[i]
    PROVE  KnownOf(m, q) = ReadsOf(m, q, KnownOf(l, r), n + 1)
<1> DEFINE g == CHOOSE g : Folds(g, l, r, 1..n)
           h == CHOOSE h : Folds(h, m, q, 1..(n + 1))
<1>1. Folds(g, l, r, 1..n) /\ Folds(h, m, q, 1..(n + 1))
  <2>1. (\E x : Folds(x, l, r, 1..n)) /\ (\E x : Folds(x, m, q, 1..(n + 1)))
    BY FoldExists, n + 1 \in Nat
  <2>2. QED BY <2>1, Zenon
<1>2. KnownOf(l, r) = g[1..n] /\ KnownOf(m, q) = h[1..(n + 1)]
  BY Zenon DEF KnownOf
<1> HIDE DEF g, h
<1>3. ASSUME NEW a, NEW b, NEW f, NEW k \in Nat, Folds(f, a, b, 1..k)
      PROVE  /\ f[1..0] = Nothing
             /\ \A j \in 0..(k - 1) : f[1..(j + 1)] = ReadsOf(a, b, f[1..j], j + 1)
  <2>1. f = [s \in SUBSET (1..k) |-> IF s = {} THEN Nothing
                ELSE ReadsOf(a, b, f[s \ {Max(s)}], [i \in 1..k |-> i][Max(s)])]
    BY <1>3 DEF Folds
  <2>2. f[1..0] = Nothing
    <3>1. 1..0 = {} /\ 1..0 \in SUBSET (1..k)
      OBVIOUS
    <3>2. QED BY <2>1, <3>1, Zenon
  <2>3. ASSUME NEW j \in 0..(k - 1) PROVE f[1..(j + 1)] = ReadsOf(a, b, f[1..j], j + 1)
    <3> DEFINE s == 1..(j + 1)
    <3>1. s \in SUBSET (1..k) /\ s # {} /\ s \ {j + 1} = 1..j
      OBVIOUS
    <3>2. Max(s) = j + 1
      BY MaxIs
    <3>3. [i \in 1..k |-> i][j + 1] = j + 1
      OBVIOUS
    <3> HIDE DEF s
    <3>4. f[s] = ReadsOf(a, b, f[s \ {Max(s)}], [i \in 1..k |-> i][Max(s)])
      BY <2>1, <3>1, Zenon
    <3>5. f[s] = ReadsOf(a, b, f[1..j], j + 1)
      BY <3>1, <3>2, <3>3, <3>4, Zenon
    <3>6. QED BY <3>5 DEF s
  <2>4. QED BY <2>2, <2>3
<1>a. /\ g[1..0] = Nothing
      /\ \A j \in 0..(n - 1) : g[1..(j + 1)] = ReadsOf(l, r, g[1..j], j + 1)
  BY <1>1, <1>3
<1>b. /\ h[1..0] = Nothing
      /\ \A j \in 0..((n + 1) - 1) : h[1..(j + 1)] = ReadsOf(m, q, h[1..j], j + 1)
  BY <1>1, <1>3, n + 1 \in Nat
<1> DEFINE S == {j \in Nat : j <= n => h[1..j] = g[1..j]}
<1>4. 0 \in S
  BY <1>a, <1>b
<1>5. ASSUME NEW j \in Nat, j \in S PROVE j + 1 \in S
  <2>1. CASE j + 1 <= n
    <3>1. j + 1 \in 1..n /\ j \in 0..(n - 1) /\ j \in 0..((n + 1) - 1) /\ n + 1 \in Nat
      BY <2>1
    <3>2. h[1..j] = g[1..j]
      BY <1>5, <2>1
    <3>3. h[1..(j + 1)] = ReadsOf(m, q, h[1..j], j + 1)
      BY <1>b, <3>1
    <3>4. g[1..(j + 1)] = ReadsOf(l, r, g[1..j], j + 1)
      BY <1>a, <3>1
    <3>5. ReadsOf(m, q, g[1..j], j + 1) = ReadsOf(l, r, g[1..j], j + 1)
      BY <3>1, Zenon DEF ReadsOf
    <3>6. QED BY <3>2, <3>3, <3>4, <3>5
  <2>2. CASE ~(j + 1 <= n)
    BY <2>2
  <2>3. QED BY <2>1, <2>2
<1> HIDE DEF S
<1>6. n \in S
  BY <1>4, <1>5, NatClosed, Zenon
<1>7. h[1..n] = g[1..n]
  BY <1>6 DEF S
<1>8. n \in 0..((n + 1) - 1) /\ n + 1 \in Nat
  OBVIOUS
<1>9. h[1..(n + 1)] = ReadsOf(m, q, h[1..n], n + 1)
  BY <1>b, <1>8
<1>10. QED BY <1>2, <1>7, <1>9, Zenon
-----------------------------------------------------------------------------
(* What a prompt holds *)

\* The runs that have an answer in the log, and the messages that tell of runs e[1], ...
Answered == {rows[i].run : i \in {k \in DOMAIN log : IsAnswer(k)}}

Tells(messages, e) ==
    /\ messages \in Seq(Message) /\ Len(messages) = 2 * Len(e)
    /\ \A k \in 1..Len(e) : /\ messages[2 * k - 1] = User(e[k])
                            /\ messages[2 * k] = Assistant(e[k])

\* The history tells of the answered runs, oldest first; the input of the turn under way
\* is not answered yet, and will be found when it is.
Recalled ==
    /\ Known \in [inputs : [Turn -> Nat], messages : Seq(Message)]
    /\ Answered \subseteq 1..run
    /\ \E e : Enumerates(e, Answered) /\ Tells(Known.messages, e)
    /\ phase \in {"taken", "open"} => current \in Turn /\ run \in (1..run) \ Answered
    /\ phase = "open" => Known.inputs[current] = run

\* What a turn has put into its prompt stays there.
Prompted ==
    /\ phase = "taken" => prompt = << >>
    /\ phase = "open" /\ prompt # << >> => prompt = PrepareMessages(History, User(run))
    /\ prompt \in Seq(Message) /\ Len(prompt) <= Limit

LEMMA KnownSame ==
    ASSUME UNCHANGED <<log, rows>>
    PROVE  Known' = Known /\ Answered' = Answered
<1>1. KnownOf(log', rows') = KnownOf(log, rows)
  BY Zenon
<1>2. Answered' = Answered
  BY DEF Answered, IsAnswer
<1>3. QED
  BY <1>1, <1>2, KnownIs, Zenon

LEMMA KnownReads ==
    ASSUME NEW n \in Nat, DOMAIN log = 1..n, DOMAIN log' = 1..(n + 1),
           \A i \in 1..n : log'[i] = log[i] /\ rows'[i] = rows[i]
    PROVE  Known' = ReadsOf(log', rows', Known, n + 1)
<1>1. KnownOf(log', rows') = ReadsOf(log', rows', KnownOf(log, rows), n + 1)
  BY FoldGrows, SMT
<1>2. QED
  BY <1>1, KnownIs, Zenon

LEMMA KnownGrows ==
    ASSUME Typed, NEW e \in Event, NEW r \in Row,
           log' = Append(log, e), rows' = Append(rows, r)
    PROVE  /\ Known' = IF e.type = "turn.started"
                       THEN [Known EXCEPT !.inputs = [@ EXCEPT ![e.turn] = r.run]]
                       ELSE IF e.type = "assistant.message" /\ Known.inputs[e.turn] # 0
                       THEN [inputs |-> [Known.inputs EXCEPT ![e.turn] = 0],
                             messages |-> Known.messages \o
                                 <<User(Known.inputs[e.turn]), Assistant(r.run)>>]
                       ELSE Known
           /\ Answered' = IF e.type = "assistant.message"
                          THEN Answered \cup {r.run} ELSE Answered
<1> DEFINE n == Len(log)
<1>1. /\ n \in Nat /\ DOMAIN log = 1..n /\ DOMAIN log' = 1..(n + 1)
      /\ \A i \in 1..n : log'[i] = log[i] /\ rows'[i] = rows[i]
      /\ log'[n + 1] = e /\ rows'[n + 1] = r
  BY DEF Typed
<1> HIDE DEF n
<1>2. Known' = ReadsOf(log', rows', Known, n + 1)
  BY <1>1, KnownReads
<1>3. Answered' = IF e.type = "assistant.message" THEN Answered \cup {r.run} ELSE Answered
  <2>1. Answered = {rows[i].run : i \in {k \in 1..n : log[k].type = "assistant.message"}}
    BY <1>1 DEF Answered, IsAnswer
  <2>2. Answered' = {rows'[i].run : i \in {k \in 1..(n + 1) :
                                              log'[k].type = "assistant.message"}}
    BY <1>1 DEF Answered, IsAnswer
  <2>3. CASE e.type = "assistant.message"
    <3>1. {k \in 1..(n + 1) : log'[k].type = "assistant.message"}
            = {k \in 1..n : log[k].type = "assistant.message"} \cup {n + 1}
      BY <1>1, <2>3
    <3> DEFINE T == {k \in 1..n : log[k].type = "assistant.message"}
    <3>2. T \subseteq 1..n
      OBVIOUS
    <3> HIDE DEF T
    <3>3. {rows'[i].run : i \in T \cup {n + 1}} = {rows[i].run : i \in T} \cup {r.run}
      BY <1>1, <3>2
    <3>4. QED
      BY <2>1, <2>2, <2>3, <3>1, <3>3 DEF T
  <2>4. CASE e.type # "assistant.message"
    <3>1. {k \in 1..(n + 1) : log'[k].type = "assistant.message"}
            = {k \in 1..n : log[k].type = "assistant.message"}
      BY <1>1, <2>4
    <3>2. {rows'[i].run : i \in {k \in 1..n : log[k].type = "assistant.message"}}
            = {rows[i].run : i \in {k \in 1..n : log[k].type = "assistant.message"}}
      BY <1>1
    <3>3. QED
      BY <2>1, <2>2, <2>4, <3>1, <3>2
  <2>5. QED
    BY <2>3, <2>4
<1>4. QED
  BY <1>1, <1>2, <1>3, Zenon DEF ReadsOf

\* Steps that add neither of the two events the history is made of, and leave the turn
\* where it is or have it say nothing more.
Silent ==
    /\ \/ UNCHANGED <<log, rows>>
       \/ \E type \in EventType \ {"turn.started", "assistant.message"}, r \in Row :
              Adds(type, r)
    /\ UNCHANGED <<prompt, run>>
    /\ UNCHANGED <<phase, current>> \/ phase' \notin {"taken", "open"}

LEMMA SilentSteps ==
    ASSUME Typed,
           \/ Delta \/ Completed \/ Failed \/ FallSilent
           \/ Ask \/ KeyMissing \/ StreamEnds \/ StreamBreaks
           \/ \E t \in Turn : Cancel(t) \/ SettleCancel(t)
           \/ \E m \in Model : Publish(m)
           \/ UNCHANGED vars
    PROVE  Silent
<1>1. CASE Completed \/ Failed
  <2>1. PICK type \in TerminalType, from \in {"open", "answered"} :
            Protocol!Says(type, from, "over") /\ Says(<< >>, << >>)
    BY <1>1 DEF Completed, Failed, TerminalType
  <2>2. type \in EventType \ {"turn.started", "assistant.message"} /\ << >> \in Seq(Nat)
    BY DEF EventType, TerminalType
  <2>3. \E r \in Row : Adds(type, r)
    BY <2>1, <2>2, Speaking, Zenon DEF Adds
  <2>4. phase' = "over"
    BY <2>1 DEF Protocol!Says
  <2>5. UNCHANGED <<prompt, run>>
    BY <1>1 DEF Completed, Failed, Outside
  <2>6. QED
    BY <2>2, <2>3, <2>4, <2>5 DEF Silent
<1>2. CASE Delta
  <2>1. \E r \in Row : Adds("assistant.delta", r)
    BY <1>2, DeltaStep, Zenon DEF Adds
  <2>2. UNCHANGED <<phase, current, prompt, run>>
    BY <1>2 DEF Delta, Protocol!Streams, Protocol!Says, Outside
  <2>3. QED
    BY <2>1, <2>2 DEF Silent, EventType
<1>3. CASE FallSilent
  BY <1>3 DEF FallSilent, Protocol!FallSilent, Protocol!Leave, Silent, Outside
<1>4. ASSUME NEW t \in Turn, Cancel(t) PROVE Silent
  BY <1>4 DEF Cancel, Protocol!AcceptCancel, Silent, Outside
<1>5. ASSUME NEW t \in Turn, SettleCancel(t) PROVE Silent
  <2>1. UNCHANGED <<log, rows>> \/ \E r \in Row : Adds("turn.cancelled", r)
    BY <1>5, Settling
  <2>2. UNCHANGED <<phase, current, prompt, run>>
    BY <1>5 DEF SettleCancel, Protocol!SettleCancel, Outside
  <2>3. QED
    BY <2>1, <2>2 DEF Silent, EventType, TerminalType
<1>6. CASE Ask \/ KeyMissing \/ StreamEnds \/ StreamBreaks
  BY <1>6 DEF Ask, KeyMissing, StreamEnds, StreamBreaks, InTurn, protocolVars, Silent
<1>7. ASSUME NEW m \in Model, Publish(m) PROVE Silent
  BY <1>7 DEF Publish, protocolVars, turn, Silent
<1>8. CASE UNCHANGED vars
  BY <1>8 DEF vars, protocolVars, turn, Silent
<1>9. QED
  BY <1>1, <1>2, <1>3, <1>4, <1>5, <1>6, <1>7, <1>8

LEMMA SilentKeeps ==
    ASSUME Typed, Recalled, Prompted, Silent
    PROVE  Recalled' /\ Prompted'
<1>1. Known' = Known /\ Answered' = Answered
  BY KnownSame, KnownGrows DEF Adds, Silent
<1>2. Recalled'
  <2>1. /\ Known' \in [inputs : [Turn -> Nat], messages : Seq(Message)]
        /\ Answered' \subseteq 1..run'
    BY <1>1 DEF Recalled, Silent
  <2>2. \E e : Enumerates(e, Answered') /\ Tells(Known'.messages, e)
    BY <1>1, Zenon DEF Recalled
  <2>3. /\ phase' \in {"taken", "open"} => current' \in Turn /\ run' \in (1..run') \ Answered'
        /\ phase' = "open" => Known'.inputs[current'] = run'
    BY <1>1 DEF Recalled, Silent
  <2>4. QED
    BY <2>1, <2>2, <2>3, Zenon DEF Recalled
<1>3. Prompted'
  BY <1>1 DEF Prompted, Silent, Known, Nothing, History
<1>4. QED
  BY <1>2, <1>3

\* What the holder says it says of its own turn, in a row of its own run.
LEMMA Spoken ==
    ASSUME Typed, NEW type \in EventType, NEW from, NEW to, Protocol!Says(type, from, to),
           NEW words \in Seq(Nat), NEW by \in Snapshot \cup {<< >>}, Says(words, by)
    PROVE  \E e \in Event, r \in Row :
               /\ log' = Append(log, e) /\ rows' = Append(rows, r)
               /\ e.type = type /\ e.turn = current /\ r.run = run
<1> DEFINE r == [run |-> run, words |-> words, by |-> by]
           e == Stamp([type |-> type, turn |-> current], Len(log) + 1)
<1>1. r \in Row /\ r.run = run
  BY DEF Row, Snapshot, Typed
<1>2. e \in Event /\ e.type = type /\ e.turn = current
  BY DEF Event, Stamp, Typed
<1>3. log' = Append(log, e)
  BY DEF Protocol!Says, Protocol!Adds, Protocol!Stamp, Stamp
<1>4. log' # log
  BY <1>2, <1>3 DEF Typed
<1>5. QED
  BY <1>1, <1>2, <1>3, <1>4, Zenon DEF Says

LEMMA StartedRecalled ==
    ASSUME Typed, Recalled, Started
    PROVE  Recalled' /\ phase = "taken" /\ prompt' = prompt
<1>1. /\ Protocol!Says("turn.started", "taken", "open") /\ Says(<< >>, << >>)
      /\ UNCHANGED <<run, prompt>>
  BY DEF Started, Outside
<1>2. "turn.started" \in EventType /\ << >> \in Seq(Nat)
  BY DEF EventType
<1>3. PICK e \in Event, r \in Row :
          /\ log' = Append(log, e) /\ rows' = Append(rows, r)
          /\ e.type = "turn.started" /\ e.turn = current /\ r.run = run
  BY <1>1, <1>2, Spoken
<1>4. phase = "taken" /\ current' = current
  BY <1>1 DEF Protocol!Says
<1>5. /\ Known' = [Known EXCEPT !.inputs = [@ EXCEPT ![e.turn] = r.run]]
      /\ Answered' = Answered
  BY <1>3, KnownGrows
<1>6. current \in Turn /\ run \in (1..run) \ Answered /\ run \in Nat
  BY <1>4 DEF Recalled, Typed
<1>7. /\ Known' \in [inputs : [Turn -> Nat], messages : Seq(Message)]
      /\ Known'.messages = Known.messages /\ Known'.inputs[current] = run
  BY <1>3, <1>5, <1>6 DEF Recalled
<1>8. QED
  BY <1>1, <1>4, <1>5, <1>6, <1>7 DEF Recalled

LEMMA AnswerRecalled ==
    ASSUME Typed, Recalled, Answer
    PROVE  Recalled' /\ phase' \notin {"taken", "open"}
<1>1. /\ Protocol!Says("assistant.message", "open", "answered") /\ Says(output, taken)
      /\ UNCHANGED run
  BY DEF Answer, Claimed, Outside
<1>2. "assistant.message" \in EventType /\ output \in Seq(Nat)
      /\ taken \in Snapshot \cup {<< >>}
  BY DEF EventType, Typed
<1>3. PICK e \in Event, r \in Row :
          /\ log' = Append(log, e) /\ rows' = Append(rows, r)
          /\ e.type = "assistant.message" /\ e.turn = current /\ r.run = run
  BY <1>1, <1>2, Spoken
<1>4. phase = "open" /\ phase' \notin {"taken", "open"}
  BY <1>1 DEF Protocol!Says
<1>5. current \in Turn /\ run \in (1..run) \ Answered /\ run \in Nat
      /\ Known.inputs[current] = run /\ Answered \subseteq 1..run
  BY <1>4 DEF Recalled, Typed
<1> DEFINE more == Known.messages \o <<User(run), Assistant(run)>>
<1>6. /\ Known' = [inputs |-> [Known.inputs EXCEPT ![current] = 0], messages |-> more]
      /\ Answered' = Answered \cup {run}
  <2>1. e.type # "turn.started" /\ Known.inputs[e.turn] # 0
    BY <1>3, <1>5
  <2>2. QED
    BY <1>3, <1>5, <2>1, KnownGrows
<1>7. PICK x : Enumerates(x, Answered) /\ Tells(Known.messages, x)
  BY DEF Recalled
<1>8. Enumerates(Append(x, run), Answered \cup {run})
  <2>1. Answered \in SUBSET Nat /\ \A i \in Answered : i < run
    BY <1>5
  <2>2. QED
    BY <1>5, <1>7, <2>1, EnumeratesMore
<1>9. more \in Seq(Message) /\ Tells(more, Append(x, run))
  <2>1. x \in Seq(Nat) /\ Len(x) \in Nat
    <3>1. Answered \subseteq Nat /\ x \in Seq(Answered)
      BY <1>5, <1>7 DEF Enumerates
    <3>2. QED
      BY <3>1, SeqMonotonic, LenProperties
  <2>2. /\ Len(Append(x, run)) = Len(x) + 1 /\ Append(x, run)[Len(x) + 1] = run
        /\ \A k \in 1..Len(x) : Append(x, run)[k] = x[k]
    BY <1>5, <2>1
  <2>3. /\ Known.messages \in Seq(Message) /\ Len(Known.messages) = 2 * Len(x)
        /\ \A k \in 1..Len(x) : /\ Known.messages[2 * k - 1] = User(x[k])
                                /\ Known.messages[2 * k] = Assistant(x[k])
    BY <1>7 DEF Tells
  <2>4. User(run) \in Message /\ Assistant(run) \in Message
    BY <1>5 DEF User, Assistant, Message
  <2>5. /\ more \in Seq(Message) /\ Len(more) = 2 * Len(x) + 2
        /\ \A k \in 1..(2 * Len(x)) : more[k] = Known.messages[k]
        /\ more[2 * Len(x) + 1] = User(run) /\ more[2 * Len(x) + 2] = Assistant(run)
    <3> DEFINE ms == Known.messages
               two == <<User(run), Assistant(run)>>
    <3>1. two \in Seq(Message) /\ Len(two) = 2
          /\ two[1] = User(run) /\ two[2] = Assistant(run)
      BY <2>4
    <3>2. ms \in Seq(Message) /\ Len(ms) = 2 * Len(x)
      BY <2>3
    <3> HIDE DEF ms, two
    <3>3. /\ ms \o two \in Seq(Message) /\ Len(ms \o two) = Len(ms) + 2
          /\ \A k \in 1..(Len(ms) + 2) :
                 (ms \o two)[k] = IF k <= Len(ms) THEN ms[k] ELSE two[k - Len(ms)]
      <4>1. /\ ms \o two \in Seq(Message) /\ Len(ms \o two) = Len(ms) + Len(two)
            /\ \A k \in 1..(Len(ms) + Len(two)) :
                   (ms \o two)[k] = IF k <= Len(ms) THEN ms[k] ELSE two[k - Len(ms)]
        BY <3>1, <3>2, ConcatProperties, Zenon
      <4>2. QED
        BY <3>1, <4>1, Zenon
    <3>4. Len(ms) \in Nat
      BY <2>1, <3>2
    <3>5. /\ \A k \in 1..Len(ms) : (ms \o two)[k] = ms[k]
          /\ (ms \o two)[Len(ms) + 1] = two[1] /\ (ms \o two)[Len(ms) + 2] = two[2]
      BY <3>3, <3>4
    <3>6. QED
      BY <3>1, <3>2, <3>3, <3>5 DEF ms, two
  <2> HIDE DEF more
  <2>6. ASSUME NEW k \in 1..(Len(x) + 1)
        PROVE  /\ more[2 * k - 1] = User(Append(x, run)[k])
               /\ more[2 * k] = Assistant(Append(x, run)[k])
    <3>1. CASE k \in 1..Len(x)
      <4>1. 2 * k - 1 \in 1..(2 * Len(x)) /\ 2 * k \in 1..(2 * Len(x))
        BY <2>1, <3>1
      <4>2. QED
        BY <2>2, <2>3, <2>5, <3>1, <4>1
    <3>2. CASE k = Len(x) + 1
      <4>1. 2 * k - 1 = 2 * Len(x) + 1 /\ 2 * k = 2 * Len(x) + 2
        BY <2>1, <3>2
      <4>2. QED
        BY <2>2, <2>5, <3>2, <4>1
    <3>3. QED
      BY <2>1, <3>1, <3>2
  <2>7. Len(more) = 2 * Len(Append(x, run)) /\ 1..Len(Append(x, run)) = 1..(Len(x) + 1)
    BY <2>1, <2>2, <2>5
  <2>8. QED
    BY <2>5, <2>6, <2>7, Zenon DEF Tells
<1> HIDE DEF more
<1>10. Known' \in [inputs : [Turn -> Nat], messages : Seq(Message)]
       /\ Known'.messages = more
  BY <1>5, <1>6, <1>9 DEF Recalled
<1>11. \E y : Enumerates(y, Answered') /\ Tells(Known'.messages, y)
  BY <1>6, <1>8, <1>9, <1>10, Zenon
<1>12. Answered' \subseteq 1..run'
  BY <1>1, <1>5, <1>6
<1>13. QED
  BY <1>4, <1>10, <1>11, <1>12, Zenon DEF Recalled

LEMMA RecalledHolds == Spec => [](Recalled /\ Prompted)
<1> USE ConversationAssumption
<1>1. Init => Recalled /\ Prompted
  <2> SUFFICES ASSUME Init PROVE Recalled /\ Prompted
    OBVIOUS
  <2>1. log = << >> /\ phase = "none" /\ prompt = << >> /\ run = 0
    BY DEF Init, Protocol!Init
  <2>2. Answered = {}
    BY <2>1 DEF Answered
  <2>3. Known = Nothing
    <3>1. DOMAIN log = 1..0
      BY <2>1
    <3>2. PICK g : g = (CHOOSE x : Folds(x, log, rows, 1..0)) /\ Folds(g, log, rows, 1..0)
      BY FoldExists
    <3>3. g[{}] = Nothing
      <4>1. {} \in SUBSET (1..0)
        OBVIOUS
      <4>2. QED
        BY <3>2, <4>1, Zenon DEF Folds
    <3>4. KnownOf(log, rows) = g[1..0]
      BY <3>1, <3>2, Zenon DEF KnownOf
    <3>5. 1..0 = {}
      OBVIOUS
    <3>6. QED
      BY <3>3, <3>4, <3>5, KnownIs, Zenon
  <2>4. Enumerates(<< >>, {}) /\ Tells(<< >>, << >>)
    BY DEF Enumerates, Increasing, Range, Tells
  <2>5. Nothing \in [inputs : [Turn -> Nat], messages : Seq(Message)]
        /\ Nothing.messages = << >>
    BY DEF Nothing
  <2>6. \E e : Enumerates(e, Answered) /\ Tells(Known.messages, e)
    BY <2>2, <2>3, <2>4, <2>5, Zenon
  <2>7. QED
    BY <2>1, <2>2, <2>3, <2>5, <2>6 DEF Recalled, Prompted
<1>2. Typed /\ Typed' /\ Recalled /\ Prompted /\ [Next]_vars => Recalled' /\ Prompted'
  <2> SUFFICES ASSUME Typed, Recalled, Prompted, [Next]_vars PROVE Recalled' /\ Prompted'
    OBVIOUS
  <2>1. CASE Started
    <3>1. Recalled' /\ phase = "taken" /\ UNCHANGED <<prompt, run>>
      BY <2>1, StartedRecalled DEF Started, Outside
    <3>2. prompt = << >>
      BY <3>1 DEF Prompted
    <3>3. QED
      BY <3>1, <3>2 DEF Prompted
  <2>2. CASE Answer
    <3>1. Recalled' /\ phase' \notin {"taken", "open"} /\ UNCHANGED prompt
      BY <2>2, AnswerRecalled DEF Answer, Outside
    <3>2. QED
      BY <3>1 DEF Prompted
  <2>3. CASE ReadHistory
    <3>1. /\ UNCHANGED <<log, rows, phase, current, run>> /\ phase = "open"
          /\ prompt' = PrepareMessages(History, User(run))
      BY <2>3 DEF ReadHistory, InTurn, protocolVars
    <3>2. Known' = Known /\ Answered' = Answered
      BY <3>1, KnownSame
    <3>3. Recalled'
      BY <3>1, <3>2, Zenon DEF Recalled
    <3>4. History' = History /\ History \in Seq(Message)
      BY <3>2 DEF Recalled, History, Known, Nothing
    <3>5. User(run) \in Message /\ User(run') = User(run)
      BY <3>1 DEF User, Message, Typed
    <3>6. prompt' \in Seq(Message) /\ Len(prompt') <= Limit
      BY <3>1, <3>4, <3>5, PromptFits
    <3>7. prompt' = PrepareMessages(History', User(run'))
      BY <3>1, <3>4, <3>5
    <3>8. QED
      BY <3>1, <3>3, <3>6, <3>7 DEF Prompted
  <2>4. ASSUME NEW t \in Turn, Take(t) PROVE Recalled' /\ Prompted'
    <3>1. /\ UNCHANGED <<log, rows>> /\ run' = run + 1 /\ prompt' = << >>
          /\ current' = t /\ phase' = "taken"
      BY <2>4 DEF Take, Protocol!Take
    <3>2. Known' = Known /\ Answered' = Answered
      BY <3>1, KnownSame
    <3>3. run' \in (1..run') \ Answered /\ Answered \subseteq 1..run'
      BY <3>1 DEF Recalled, Typed
    <3>4. \E e : Enumerates(e, Answered') /\ Tells(Known'.messages, e)
      BY <3>2, Zenon DEF Recalled
    <3>5. QED
      BY <3>1, <3>2, <3>3, <3>4 DEF Recalled, Prompted
  <2>5. Started \/ Answer \/ ReadHistory \/ (\E t \in Turn : Take(t)) \/ Silent
    BY SilentSteps, Zenon DEF Next, Speaks
  <2>6. QED
    BY <2>1, <2>2, <2>3, <2>4, <2>5, SilentKeeps
<1>3. QED
  BY <1>1, <1>2, TypedHolds, PTL DEF Spec

\* Prompt p has the system message, the messages of those runs of S that fit, and the input.
IsRecent(p, S, input) ==
    LET kept == {n \in S : 2 * Cardinality({m \in S : m > n}) < Limit - 2}
    IN  /\ Len(p) = 2 * Cardinality(kept) + 2
        /\ p[1] = System /\ p[Len(p)] = input
        /\ \A n \in kept :
               LET k == 2 * Cardinality({m \in kept : m < n}) + 2
               IN  p[k] = User(n) /\ p[k + 1] = Assistant(n)

LEMMA KeptMessages ==
    ASSUME NEW S \in SUBSET Nat, NEW e, Enumerates(e, S),
           NEW history, Tells(history, e), NEW input \in Message
    PROVE  IsRecent(PrepareMessages(history, input), S, input)
<1> DEFINE p == PrepareMessages(history, input)
           kept == {n \in S : 2 * Cardinality({m \in S : m > n}) < Limit - 2}
           N == Len(e)
           half == (Limit - 2) \div 2
           K == IF N <= half THEN N ELSE half
<1>1. e \in Seq(Nat) /\ Increasing(e) /\ N \in Nat /\ DOMAIN e = 1..N
  <2>1. e \in Seq(S) /\ Increasing(e)
    BY DEF Enumerates
  <2>2. QED
    BY <2>1, SeqMonotonic, LenProperties
<1>2. half \in Nat /\ Limit = 2 * half + 2
  BY ConversationAssumption
<1> HIDE DEF half
<1>3. /\ K \in Nat /\ K <= N /\ N - K \in Nat /\ N - K + 1 \in Nat
      /\ 2 * K + 2 = IF 2 * N + 2 <= Limit THEN 2 * N + 2 ELSE Limit
      /\ \A i \in 1..N : 2 * (N - i) < Limit - 2 <=> i > N - K
  BY <1>1, <1>2
<1> HIDE DEF K
<1>4. /\ history \in Seq(Message) /\ Len(history) = 2 * N
      /\ \A k \in 1..N : history[2 * k - 1] = User(e[k]) /\ history[2 * k] = Assistant(e[k])
  BY DEF Tells
<1>5. /\ Len(p) = 2 * K + 2 /\ p[1] = System /\ p[Len(p)] = input
      /\ \A k \in 2..(Len(p) - 1) : p[k] = history[k + Len(history) + 1 - Len(p)]
  <2>1. /\ Len(p) = IF Len(history) + 2 <= Limit THEN Len(history) + 2 ELSE Limit
        /\ p[1] = System /\ p[Len(p)] = input
        /\ \A k \in 2..(Len(p) - 1) : p[k] = history[k + Len(history) + 1 - Len(p)]
    BY <1>4, PromptFits
  <2> HIDE DEF p, N
  <2>2. Len(p) = 2 * K + 2
    BY <1>3, <1>4, <2>1
  <2>3. QED
    BY <2>1, <2>2
<1> HIDE DEF p
<1>6. /\ S = {e[i] : i \in 1..N}
      /\ \A i \in 1..N : Cardinality({x \in S : x > e[i]}) = N - i
  <2>1. S = {e[i] : i \in 1..N}
    BY <1>1 DEF Enumerates, Range
  <2>2. QED
    BY <2>1, Ranks
<1>7. kept = {e[i] : i \in (N - K + 1)..N}
  <2>1. ASSUME NEW i \in 1..N
        PROVE  2 * Cardinality({x \in S : x > e[i]}) < Limit - 2 <=> i \in (N - K + 1)..N
    <3>1. Cardinality({x \in S : x > e[i]}) = N - i
      BY <1>6
    <3>2. 2 * (N - i) < Limit - 2 <=> i \in (N - K + 1)..N
      <4> HIDE DEF N
      <4>1. QED
        BY <1>1, <1>3
    <3>3. QED
      BY <3>1, <3>2, Zenon
  <2>2. (N - K + 1)..N \subseteq 1..N
    BY <1>1, <1>3
  <2>3. QED
    <3>1. \A n \in S : \E i \in 1..N : n = e[i]
      BY <1>6, Zenon
    <3>2. \A i \in 1..N : e[i] \in S /\ (e[i] \in kept <=> i \in (N - K + 1)..N)
      BY <1>6, <2>1, Zenon
    <3>3. kept \subseteq S
      OBVIOUS
    <3> HIDE DEF kept, N
    <3>4. QED
      BY <2>2, <3>1, <3>2, <3>3, Zenon
<1> HIDE DEF N, kept
<1>8. Cardinality(kept) = K
  <2>1. (N - K + 1)..N \subseteq DOMAIN e
    BY <1>1, <1>3
  <2>2. Cardinality({e[i] : i \in (N - K + 1)..N})
            = IF N - K + 1 > N THEN 0 ELSE N - (N - K + 1) + 1
    BY <1>1, <1>3, <2>1, ImageOfInterval
  <2>3. QED
    BY <1>1, <1>3, <1>7, <2>2
<1>9. ASSUME NEW n \in kept
      PROVE  LET k == 2 * Cardinality({m \in kept : m < n}) + 2
             IN  p[k] = User(n) /\ p[k + 1] = Assistant(n)
  <2>1. PICK i \in (N - K + 1)..N : n = e[i]
    BY <1>7
  <2>2. i \in 1..N /\ i - 1 \in Nat
    BY <1>1, <1>3
  <2>3. {m \in kept : m < n} = {e[j] : j \in (N - K + 1)..(i - 1)}
    <3>1. ASSUME NEW j \in (N - K + 1)..N PROVE e[j] < n <=> j \in (N - K + 1)..(i - 1)
      <4>1. j \in DOMAIN e /\ i \in DOMAIN e /\ j \in Int /\ i \in Int
        BY <1>1, <1>3
      <4>2. e[j] < e[i] <=> j < i
        BY <1>1, <4>1, IncreasingInjective
      <4>3. j < i <=> j \in (N - K + 1)..(i - 1)
        BY <1>3, <4>1
      <4>4. QED
        BY <2>1, <4>2, <4>3, Zenon
    <3>2. (N - K + 1)..(i - 1) \subseteq (N - K + 1)..N
      BY <1>1, <1>3, <2>1
    <3>3. QED
      BY <1>7, <3>1, <3>2, Zenon
  <2>4. Cardinality({m \in kept : m < n}) = i - 1 - (N - K)
    <3>1. (N - K + 1)..(i - 1) \subseteq DOMAIN e
      BY <1>1, <1>3, <2>2
    <3>2. Cardinality({e[j] : j \in (N - K + 1)..(i - 1)})
              = IF N - K + 1 > i - 1 THEN 0 ELSE (i - 1) - (N - K + 1) + 1
      BY <1>1, <1>3, <2>2, <3>1, ImageOfInterval
    <3>3. Cardinality({m \in kept : m < n})
              = Cardinality({e[j] : j \in (N - K + 1)..(i - 1)})
      BY <2>3, Zenon
    <3>4. N - K + 1 <= i /\ i \in Int /\ N - K \in Int
      BY <1>3, <2>1, <2>2
    <3>5. (IF N - K + 1 > i - 1 THEN 0 ELSE (i - 1) - (N - K + 1) + 1) = i - 1 - (N - K)
      BY <3>4
    <3>6. QED
      BY <3>2, <3>3, <3>5, Zenon
  <2> DEFINE k == 2 * Cardinality({m \in kept : m < n}) + 2
  <2>5. k = 2 * (i - (N - K)) /\ k \in 2..(2 * K)
    BY <1>1, <1>3, <2>1, <2>4
  <2> HIDE DEF k
  <2>6. p[k] = history[2 * i - 1] /\ p[k + 1] = history[2 * i]
    <3>0. Len(p) = 2 * K + 2
      BY <1>5
    <3>1. k \in 2..(Len(p) - 1) /\ k + 1 \in 2..(Len(p) - 1)
      BY <1>3, <2>5, <3>0
    <3>2. /\ k + Len(history) + 1 - Len(p) = 2 * i - 1
          /\ (k + 1) + Len(history) + 1 - Len(p) = 2 * i
      BY <1>1, <1>3, <1>4, <2>1, <2>5, <3>0
    <3>3. QED
      BY <1>5, <3>1, <3>2
  <2>7. QED
    BY <1>4, <2>1, <2>2, <2>6 DEF k
<1>10. QED
  BY <1>5, <1>8, <1>9 DEF p, kept, IsRecent

\* Whatever ids the turns have, however earlier ones ended, and wherever cancellations
\* were announced, a prompt holds the latest answered inputs that fit, with their answers
\* and oldest first, between the system message and the input.
THEOREM PromptIsRecentHolds == Spec => []PromptIsRecent
<1>1. Typed /\ Recalled /\ Prompted => PromptIsRecent
  <2> SUFFICES ASSUME Typed, Recalled, Prompted, phase = "open", prompt # << >>
               PROVE  IsRecent(prompt, Answered, User(run))
    BY DEF PromptIsRecent, Answered, IsRecent
  <2>1. Answered \in SUBSET Nat
    BY DEF Recalled, Typed
  <2>2. PICK e : Enumerates(e, Answered) /\ Tells(Known.messages, e)
    BY DEF Recalled
  <2>3. prompt = PrepareMessages(Known.messages, User(run))
    BY DEF Prompted, History, Known, Nothing
  <2>4. User(run) \in Message
    BY DEF User, Message, Typed
  <2>5. QED
    BY <2>1, <2>2, <2>3, <2>4, KeptMessages
<1>2. QED
  BY <1>1, TypedHolds, RecalledHolds, PTL

\* Types; and no prompt is longer than Limit.
THEOREM TypeCorrect == Spec => []TypeOK
<1>1. Typed /\ Prompted => TypeOK
  BY DEF Typed, Prompted, TypeOK, Snapshot
<1>2. QED
  BY <1>1, TypedHolds, RecalledHolds, PTL

=============================================================================
