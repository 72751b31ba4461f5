-------------------------- MODULE EventStoreProofs --------------------------
(***************************************************************************)
(* Proofs about EventStore, for any number of appending and attaching      *)
(* goroutines, any requests and any bounds.                                *)
(*                                                                         *)
(* The types hold whatever fails.  Most of the rest holds while one        *)
(* process writes the session and its failures leave events.jsonl and      *)
(* state.json in step.  The last part allows every fault there is, torn    *)
(* lines, failed writes and crashes between any two writes, and assumes    *)
(* only that one process writes the session, at a time that is.            *)
(***************************************************************************)
EXTENDS EventStore, FiniteSetTheorems, SequenceTheorems, TLAPS

Reliable ==
    /\ \A g, h \in Appender : Home[g] = Home[h]
    /\ Fault \cap {"torn", "state", "crash"} = {}

Inside == {"locked", "written", "indexed"}

\* Store.mu is held by exactly the goroutine that is inside AppendEvent.
LockInv ==
    \A a \in Appender : pc[a] \in Inside => mu[Home[a]] = a

\* The holder's copy of state.json is current until it rewrites the file.
StoredInv ==
    \A a \in Appender : pc[a] \in {"locked", "written"} => stored[a] = index

\* The last line is the event of the goroutine that has yet to index it.
WrittenInv ==
    \A a \in Appender : pc[a] = "written" =>
        /\ lines # << >>
        /\ lines[Len(lines)] = Stamp(request[a], NextSeq(stored[a]))

-----------------------------------------------------------------------------
(* Types *)

\* Indexing an event keeps the shape of state.json.
LEMMA ApplyEventType ==
    ASSUME NEW i \in Index, NEW e \in Event
    PROVE  ApplyEvent(i, e) \in Index
BY DEF ApplyEvent, ActiveAfter, Index, Event

\* Numbering a request gives an event.
LEMMA StampType ==
    ASSUME NEW req \in Request, NEW n \in Nat
    PROVE  Stamp(req, n) \in Event
BY DEF Stamp, Request, Event

\* Among finitely many rows there is a last one.
LEMMA MaxElement ==
    ASSUME NEW n \in Nat, NEW S \in SUBSET (1..n), S # {}
    PROVE  Max(S) \in S /\ \A i \in S : i <= Max(S)
<1> DEFINE Above == {n - i : i \in S}
<1>1. Above \subseteq Nat /\ Above # {}
  <2>1. \A i \in S : n - i \in Nat
    OBVIOUS
  <2>2. PICK i \in S : TRUE
    OBVIOUS
  <2>3. n - i \in Above
    OBVIOUS
  <2>4. QED BY <2>1, <2>3
<1>2. PICK k \in Above : \A j \in Above : <<j, k>> \notin OpToRel(<, Nat)
  BY <1>1, WFMin, NatLessThanWellFounded, Zenon
<1>3. \A j \in Above : ~(j < k)
  BY <1>1, <1>2, Zenon DEF OpToRel
<1>4. \E m \in S : \A i \in S : m >= i
  <2>1. PICK m \in S : k = n - m
    OBVIOUS
  <2>2. ASSUME NEW i \in S PROVE m >= i
    <3>1. n - i \in Above
      OBVIOUS
    <3>2. ~(n - i < n - m)
      BY <1>3, <2>1, <3>1
    <3>3. QED BY <3>2
  <2>3. QED BY <2>2
<1>5. QED
  BY <1>4 DEF Max

\* The files, the locals of AppendEvent and the attach results keep their types,
\* whatever fails (the declarations of types.go and store.go).
THEOREM TypeCorrect == Spec => []TypeOK
<1>1. Init => TypeOK
  <2> SUFFICES ASSUME Init PROVE TypeOK
    OBVIOUS
  <2>1. InitIndex \in Index
    BY DEF InitIndex, Index
  <2>2. lines \in Seq(Line) /\ request \in [Appender -> Request]
    BY StoreAssumption DEF Init
  <2>3. view \in [Attacher -> [phase : {"none", "loaded", "ready", "failed"},
                               after : Nat, latest : Nat, rows : SUBSET Nat]]
    BY DEF Init, NoView
  <2>4. QED
    BY <2>1, <2>2, <2>3 DEF Init, TypeOK, Phase
<1>2. TypeOK /\ [Next]_vars => TypeOK'
  <2> SUFFICES ASSUME TypeOK, [Next]_vars PROVE TypeOK'
    OBVIOUS
  <2> USE StoreAssumption
  <2>1. ASSUME NEW a \in Appender, NEW req \in Offered, Calls(a, req) PROVE TypeOK'
    BY <2>1 DEF TypeOK, Calls, Goto, Phase
  <2>2. ASSUME NEW a \in Appender, LockAndLoad(a) PROVE TypeOK'
    BY <2>2 DEF TypeOK, LockAndLoad, Goto, Phase
  <2>3. ASSUME NEW a \in Appender, WriteLine(a) PROVE TypeOK'
    <3>1. NewLine(Stamp(request[a], NextSeq(stored[a]))) \in Line
      BY StampType DEF TypeOK, NewLine, NextSeq, Line, Index
    <3>2. lines' \in Seq(Line)
      BY <2>3, <3>1 DEF TypeOK, WriteLine
    <3>3. row' \in [Appender -> Nat]
      BY <2>3, LenProperties DEF TypeOK, WriteLine
    <3>4. QED BY <2>3, <3>2, <3>3 DEF TypeOK, WriteLine, Goto, Phase
  <2>4. ASSUME NEW a \in Appender, WriteState(a) PROVE TypeOK'
    <3>1. index' \in Index
      BY <2>4, StampType, ApplyEventType DEF TypeOK, WriteState, NextSeq, Index
    <3>2. QED BY <2>4, <3>1 DEF TypeOK, WriteState, Goto, Phase
  <2>5. ASSUME NEW a \in Appender, WriteManifest(a) PROVE TypeOK'
    BY <2>5 DEF TypeOK, WriteManifest, Unlocked, Goto, Phase
  <2>6. ASSUME NEW a \in Appender,
               LoadFails(a) \/ WriteTorn(a) \/ StateFails(a) \/ ManifestFails(a)
        PROVE  TypeOK'
    <3>1. torn' \in BOOLEAN
      BY <2>6 DEF TypeOK, LoadFails, WriteTorn, StateFails, ManifestFails
    <3>2. PICK kind, from : Fails(a, kind, from)
      BY <2>6, Zenon DEF LoadFails, WriteTorn, StateFails, ManifestFails
    <3>3. QED
      BY <3>1, <3>2 DEF TypeOK, Fails, Strikes, Unlocked, Goto, Phase
  <2>7. ASSUME NEW r \in Attacher, NEW after \in 0..MaxEvents, AttachLoad(r, after)
        PROVE  TypeOK'
    BY <2>7 DEF TypeOK, AttachLoad, Index
  <2>8. ASSUME NEW r \in Attacher, AttachRead(r) PROVE TypeOK'
    <3> DEFINE rows == RowsAfter(view[r].after)
    <3>1. rows \in SUBSET Nat
      BY DEF RowsAfter, TypeOK
    <3>2. Readable => LatestOf(rows, view[r].latest) \in Nat
      <4>1. CASE rows = {}
        BY <4>1 DEF LatestOf, TypeOK
      <4>2. CASE rows # {} /\ Readable
        <5>1. Max(rows) \in rows
          BY <4>2, MaxElement, LenProperties DEF RowsAfter, TypeOK
        <5>2. lines[Max(rows)] \in Line /\ lines[Max(rows)] # Garbage
          BY <4>2, <5>1, ElementOfSeq DEF RowsAfter, Readable, TypeOK
        <5>3. lines[Max(rows)].seq \in Nat
          BY <5>2 DEF Line, Event
        <5>4. QED BY <4>2, <5>3 DEF LatestOf
      <4>3. QED BY <4>1, <4>2
    <3>3. QED BY <2>8, <3>1, <3>2 DEF TypeOK, AttachRead, NoView
  <2>9. ASSUME NEW p \in Process, Crash(p) PROVE TypeOK'
    BY <2>9 DEF TypeOK, Crash, Strikes, Phase, NoView
  <2>10. CASE UNCHANGED vars
    BY <2>10 DEF TypeOK, vars
  <2>11. QED
    BY <2>1, <2>2, <2>3, <2>4, <2>5, <2>6, <2>7, <2>8, <2>9, <2>10 DEF Next
<1>3. QED
  BY <1>1, <1>2, PTL DEF Spec

-----------------------------------------------------------------------------
(* Lemmas about the index *)

\* Whether a turn is open among the first n events depends on these only.
LEMMA OpenTurnPrefix ==
    ASSUME NEW log, NEW log2, NEW n \in Nat, NEW t,
           \A k \in 1..n : log2[k] = log[k]
    PROVE  OpenTurn(log2, n, t) <=> OpenTurn(log, n, t)
BY DEF OpenTurn

\* AppendEvent's update of state.json keeps it an index of the log.
LEMMA ApplyEventIndexes ==
    ASSUME NEW log, NEW n \in Nat, NEW i \in Index, IndexFor(i, log, n),
           log[n + 1] \in Event, log[n + 1].seq = n + 1
    PROVE  IndexFor(ApplyEvent(i, log[n + 1]), log, n + 1)
<1> DEFINE e == log[n + 1]
<1>1. ApplyEvent(i, e).latestSeq = n + 1
  BY DEF ApplyEvent
<1>2. ASSUME NEW t \in Turn
      PROVE  (ActiveAfter(i.activeTurn, e) = t) <=> OpenTurn(log, n + 1, t)
  <2>1. (i.activeTurn = t) <=> OpenTurn(log, n, t)
    BY DEF IndexFor
  <2>2. CASE Starts(e)
    <3>1. ASSUME e.turn = t PROVE OpenTurn(log, n + 1, t)
      BY <2>2, <3>1 DEF OpenTurn
    <3>2. ASSUME OpenTurn(log, n + 1, t) PROVE e.turn = t
      <4>1. PICK k \in 1..(n + 1) :
                /\ log[k].turn = t
                /\ \A j \in (k + 1)..(n + 1) : ~Starts(log[j])
        BY <3>2 DEF OpenTurn
      <4>2. k = n + 1
        BY <2>2, <4>1
      <4>3. QED BY <4>1, <4>2
    <3>3. QED BY <2>2, <3>1, <3>2 DEF ActiveAfter
  <2>3. CASE ~Starts(e)
    <3>1. OpenTurn(log, n + 1, t) <=> OpenTurn(log, n, t) /\ ~Ends(e, t)
      <4>1. ASSUME OpenTurn(log, n, t), ~Ends(e, t) PROVE OpenTurn(log, n + 1, t)
        <5>1. PICK k \in 1..n :
                  /\ Starts(log[k]) /\ log[k].turn = t
                  /\ \A j \in (k + 1)..n : ~Starts(log[j]) /\ ~Ends(log[j], t)
          BY <4>1 DEF OpenTurn
        <5>2. \A j \in (k + 1)..(n + 1) : j \in (k + 1)..n \/ j = n + 1
          OBVIOUS
        <5>3. QED BY <2>3, <4>1, <5>1, <5>2 DEF OpenTurn
      <4>2. ASSUME OpenTurn(log, n + 1, t) PROVE OpenTurn(log, n, t) /\ ~Ends(e, t)
        <5>1. PICK k \in 1..(n + 1) :
                  /\ Starts(log[k]) /\ log[k].turn = t
                  /\ \A j \in (k + 1)..(n + 1) : ~Starts(log[j]) /\ ~Ends(log[j], t)
          BY <4>2 DEF OpenTurn
        <5>2. k \in 1..n
          BY <2>3, <5>1
        <5>3. n + 1 \in (k + 1)..(n + 1) /\ (k + 1)..n \subseteq (k + 1)..(n + 1)
          BY <5>2
        <5>4. QED BY <5>1, <5>2, <5>3 DEF OpenTurn
      <4>3. QED BY <4>1, <4>2
    <3>2. (ActiveAfter(i.activeTurn, e) = t) <=> (i.activeTurn = t /\ ~Ends(e, t))
      BY <2>3, NoTurnAssumption DEF ActiveAfter
    <3>3. QED BY <2>1, <3>1, <3>2
  <2>4. QED BY <2>2, <2>3
<1>3. QED
  BY <1>1, <1>2 DEF IndexFor, ApplyEvent

-----------------------------------------------------------------------------
(* The log and its index *)

\* The invariant without its types, which TypeCorrect gives.
Core == ~torn /\ LockInv /\ StoredInv /\ WrittenInv /\ SeqIsPosition /\ IndexReflectsLog

\* Store.mu lets one goroutine into AppendEvent at a time.
LEMMA Mutex ==
    ASSUME Reliable, TypeOK, LockInv
    PROVE  \A a, b \in Appender : pc[a] \in Inside /\ pc[b] \in Inside => a = b
BY DEF Reliable, LockInv

\* Without appends and index writes, state.json goes on reflecting the log.
LEMMA IndexUntouched ==
    ASSUME IndexReflectsLog, UNCHANGED <<lines, index>>, Unindexed' = Unindexed
    PROVE  IndexReflectsLog'
BY DEF IndexReflectsLog, IndexFor, OpenTurn, Unindexed

\* A step that leaves the log and its index alone and hands the lock over
\* properly preserves the invariant.
LEMMA HandOver ==
    ASSUME TypeOK, TypeOK', Core, UNCHANGED <<lines, torn, index>>,
           LockInv',
           \A a \in Appender : pc'[a] = "written" <=> pc[a] = "written",
           \A a \in Appender : pc[a] = "written" =>
               request'[a] = request[a] /\ stored'[a] = stored[a],
           \A a \in Appender : pc'[a] = "locked" => stored'[a] = index
    PROVE  Core'
<1>1. StoredInv' /\ WrittenInv'
  BY DEF Core, StoredInv, WrittenInv, TypeOK, Stamp, NextSeq
<1>2. IndexReflectsLog'
  <2>1. Unindexed' = Unindexed
    BY DEF Unindexed
  <2>2. QED BY <2>1, IndexUntouched DEF Core
<1>3. QED BY <1>1, <1>2 DEF Core, SeqIsPosition

\* While one process writes the session and its failures leave the two files in
\* step, AppendEvent keeps the log numbered without gap and state.json current.
THEOREM CoreInvariant == Reliable => (Spec => []Core)
<1> SUFFICES ASSUME Reliable PROVE Spec => []Core
  OBVIOUS
<1>1. Init => Core
  <2> SUFFICES ASSUME Init PROVE Core
    OBVIOUS
  <2>1. ~torn /\ LockInv /\ StoredInv /\ WrittenInv /\ SeqIsPosition
    BY DEF Init, LockInv, StoredInv, WrittenInv, SeqIsPosition, Inside
  <2>2. Unindexed = 0 /\ Len(lines) = 0
    BY DEF Init, Unindexed
  <2>3. IndexReflectsLog
    BY <2>2, NoTurnAssumption DEF Init, IndexReflectsLog, IndexFor, InitIndex, OpenTurn
  <2>4. QED BY <2>1, <2>3 DEF Core
<1>2. TypeOK /\ TypeOK' /\ Core /\ [Next]_vars => Core'
  <2> SUFFICES ASSUME TypeOK, TypeOK', Core, [Next]_vars PROVE Core'
    OBVIOUS
  <2> USE StoreAssumption
  <2>1. ASSUME NEW a \in Appender, NEW req \in Offered, Calls(a, req) PROVE Core'
    <3>1. LockInv'
      BY <2>1 DEF Core, LockInv, Inside, Calls, Goto, TypeOK
    <3>2. QED
      BY <2>1, <3>1, HandOver DEF Core, StoredInv, Calls, Goto, TypeOK
  <2>2. ASSUME NEW a \in Appender, LockAndLoad(a) PROVE Core'
    <3>1. LockInv'
      <4>1. ASSUME NEW b \in Appender, b # a, pc'[b] \in Inside PROVE FALSE
        <5>1. pc[b] \in Inside
          BY <2>2, <4>1 DEF LockAndLoad, Goto, TypeOK
        <5>2. mu[Home[a]] = b
          BY <5>1 DEF Core, LockInv, Reliable
        <5>3. QED BY <2>2, <5>2 DEF LockAndLoad, LockFree
      <4>2. mu'[Home[a]] = a
        BY <2>2 DEF LockAndLoad, TypeOK
      <4>3. QED BY <4>1, <4>2 DEF LockInv
    <3>2. QED
      BY <2>2, <3>1, HandOver DEF Core, StoredInv, LockAndLoad, Goto, TypeOK
  <2>3. ASSUME NEW a \in Appender, WriteLine(a) PROVE Core'
    <3> DEFINE e == Stamp(request[a], NextSeq(stored[a]))
    <3>1. \A b \in Appender : b # a => pc[b] \notin Inside /\ pc'[b] \notin Inside
      BY <2>3, Mutex DEF Core, WriteLine, Goto, Inside, TypeOK
    <3>2. LockInv' /\ StoredInv'
      BY <2>3, <3>1 DEF Core, LockInv, StoredInv, WriteLine, Goto, Inside, TypeOK
    <3>3. /\ lines' = Append(lines, e)
          /\ Len(lines') = Len(lines) + 1
          /\ lines'[Len(lines) + 1] = e
          /\ \A k \in 1..Len(lines) : lines'[k] = lines[k]
      BY <2>3, AppendProperties DEF Core, WriteLine, NewLine, TypeOK
    <3>4. WrittenInv'
      BY <2>3, <3>1, <3>3 DEF WrittenInv, WriteLine, Goto, Inside, Stamp, NextSeq, TypeOK
    <3>5. Unindexed = 0 /\ Unindexed' = 1
      <4>1. pc[a] = "locked" /\ pc'[a] = "written"
        BY <2>3 DEF WriteLine, Goto, TypeOK
      <4>2. QED BY <3>1, <4>1 DEF Unindexed, Inside
    <3>6. index.latestSeq = Len(lines)
      BY <3>5, LenProperties DEF Core, IndexReflectsLog, IndexFor, TypeOK
    <3>7. e.seq = Len(lines) + 1
      BY <2>3, <3>6 DEF Core, StoredInv, WriteLine, Goto, Stamp, NextSeq
    <3>8. SeqIsPosition'
      BY <3>3, <3>7, LenProperties DEF Core, SeqIsPosition, TypeOK
    <3>9. IndexReflectsLog'
      <4>1. IndexFor(index, lines, Len(lines))
        BY <3>5, LenProperties DEF Core, IndexReflectsLog, TypeOK
      <4>2. \A t : OpenTurn(lines', Len(lines), t) <=> OpenTurn(lines, Len(lines), t)
        BY <3>3, OpenTurnPrefix, LenProperties DEF TypeOK
      <4>3. IndexFor(index, lines', Len(lines))
        BY <4>1, <4>2 DEF IndexFor
      <4>4. index' = index /\ Len(lines') - Unindexed' = Len(lines)
        BY <2>3, <3>3, <3>5, LenProperties DEF WriteLine, TypeOK
      <4>5. QED BY <4>3, <4>4 DEF IndexReflectsLog, IndexFor, OpenTurn
    <3>10. QED
      BY <2>3, <3>2, <3>4, <3>8, <3>9 DEF Core, WriteLine
  <2>4. ASSUME NEW a \in Appender, WriteState(a) PROVE Core'
    <3>1. \A b \in Appender : b # a => pc[b] \notin Inside /\ pc'[b] \notin Inside
      BY <2>4, Mutex DEF Core, WriteState, Goto, Inside, TypeOK
    <3>2. LockInv' /\ StoredInv' /\ WrittenInv'
      BY <2>4, <3>1 DEF Core, LockInv, StoredInv, WrittenInv, WriteState, Goto, Inside,
                        TypeOK
    <3>3. IndexReflectsLog'
      <4> DEFINE n == Len(lines) - 1
      <4>1. Unindexed = 1 /\ Unindexed' = 0
        <5>1. pc[a] = "written" /\ pc'[a] = "indexed"
          BY <2>4 DEF WriteState, Goto, TypeOK
        <5>2. QED BY <3>1, <5>1 DEF Unindexed, Inside
      <4>2. /\ n \in Nat /\ n + 1 = Len(lines)
            /\ lines[n + 1] = Stamp(request[a], NextSeq(stored[a]))
        BY <2>4, LenProperties, EmptySeq DEF Core, WrittenInv, WriteState, Goto, TypeOK
      <4>3. lines[n + 1] \in Event
        BY <4>2, StampType DEF TypeOK, NextSeq, Index
      <4>4. lines[n + 1].seq = n + 1
        BY <4>2 DEF Core, SeqIsPosition
      <4>5. IndexFor(index, lines, n)
        BY <4>1 DEF Core, IndexReflectsLog
      <4>6. index' = ApplyEvent(index, lines[n + 1])
        BY <2>4, <4>2 DEF Core, StoredInv, WriteState, Goto
      <4>7. IndexFor(index', lines, n + 1)
        BY <4>2, <4>3, <4>4, <4>5, <4>6, ApplyEventIndexes DEF TypeOK
      <4>8. lines' = lines /\ Len(lines') - Unindexed' = n + 1
        BY <2>4, <4>1, <4>2 DEF WriteState
      <4>9. QED BY <4>7, <4>8 DEF IndexReflectsLog, IndexFor, OpenTurn
    <3>4. QED
      BY <2>4, <3>2, <3>3 DEF Core, WriteState, SeqIsPosition
  <2>5. ASSUME NEW a \in Appender,
               \/ WriteManifest(a)
               \/ LoadFails(a) \/ WriteTorn(a) \/ StateFails(a) \/ ManifestFails(a)
        PROVE  Core'
    <3>1. /\ \E from \in {"locked", "indexed"} : Goto(a, from, "idle")
          /\ mu' = Unlocked(a)
          /\ UNCHANGED <<lines, torn, index, request, stored>>
      BY <2>5 DEF Reliable, WriteManifest, LoadFails, WriteTorn, StateFails,
                  ManifestFails, Fails, Strikes
    <3>2. \A b \in Appender : b # a => pc'[b] \notin Inside
      BY <3>1, Mutex DEF Core, Goto, Inside, TypeOK
    <3>3. LockInv'
      BY <3>1, <3>2 DEF LockInv, Goto, Inside, TypeOK
    <3>4. QED
      BY <3>1, <3>3, HandOver DEF Core, StoredInv, Goto, TypeOK
  <2>6. CASE UNCHANGED <<lines, torn, index, mu, pc, request, stored>>
    BY <2>6, HandOver DEF Core, LockInv, StoredInv
  <2>7. ASSUME NEW r \in Attacher, AttachRead(r) \/ \E after \in 0..MaxEvents : AttachLoad(r, after)
        PROVE  Core'
    BY <2>6, <2>7 DEF AttachRead, AttachLoad
  <2>8. ASSUME NEW p \in Process, Crash(p) PROVE FALSE
    BY <2>8 DEF Reliable, Crash, Strikes
  <2>9. CASE UNCHANGED vars
    BY <2>6, <2>9 DEF vars
  <2>10. QED
    BY <2>1, <2>2, <2>3, <2>4, <2>5, <2>7, <2>8, <2>9 DEF Next
<1>3. QED
  BY <1>1, <1>2, TypeCorrect, PTL DEF Spec

\* No sequence number is used twice or skipped.
THEOREM SeqIsPositionHolds == Reliable => (Spec => []SeqIsPosition)
BY CoreInvariant, PTL DEF Core

\* state.json is an index of events.jsonl.
THEOREM IndexReflectsLogHolds == Reliable => (Spec => []IndexReflectsLog)
BY CoreInvariant, PTL DEF Core

-----------------------------------------------------------------------------
(* Attaching while others append *)

\* The latestSeq an attach has read counts no event the file lacks.
LoadedInv ==
    \A r \in Attacher : view[r].phase = "loaded" => view[r].latest <= Len(lines)

\* The last of the events an attach replays is the last of the log.
LEMMA LastOfInterval ==
    \A a, n \in Nat : IF (a + 1)..n = {} THEN n <= a ELSE n \in (a + 1)..n
<1> TAKE a, n \in Nat
<1>1. CASE n <= a
  BY <1>1
<1>2. CASE ~(n <= a)
  <2>1. n \in (a + 1)..n
    BY <1>2
  <2>2. QED BY <2>1
<1>3. QED BY <1>1, <1>2

\* AttachSession takes no lock and still returns one piece of the log.
THEOREM AttachGaplessHolds == Reliable => (Spec => []AttachGapless)
<1> DEFINE Inv == LoadedInv /\ AttachGapless
<1> SUFFICES ASSUME Reliable PROVE Spec => []AttachGapless
  OBVIOUS
<1>1. Init => Inv
  BY DEF Init, LoadedInv, AttachGapless, NoView
<1>2. TypeOK /\ TypeOK' /\ Core /\ Inv /\ [Next]_vars => Inv'
  <2> SUFFICES ASSUME TypeOK, TypeOK', Core, Inv, [Next]_vars PROVE Inv'
    OBVIOUS
  <2>1. CASE view' = view /\ Len(lines') >= Len(lines)
    BY <2>1, LenProperties DEF LoadedInv, AttachGapless, TypeOK
  <2>2. ASSUME NEW a \in Appender, WriteLine(a) PROVE Inv'
    <3>1. Len(lines') = Len(lines) + 1
      BY <2>2, AppendProperties DEF Core, WriteLine, TypeOK
    <3>2. QED
      BY <2>1, <2>2, <3>1, LenProperties DEF WriteLine, TypeOK
  <2>3. CASE UNCHANGED <<lines, view>>
    BY <2>1, <2>3, LenProperties DEF TypeOK
  <2>4. ASSUME NEW r \in Attacher, NEW after \in 0..MaxEvents, AttachLoad(r, after)
        PROVE  Inv'
    <3>1. index.latestSeq <= Len(lines)
      BY LenProperties DEF Core, IndexReflectsLog, IndexFor, Unindexed, TypeOK, Index
    <3>2. QED
      BY <2>4, <3>1 DEF LoadedInv, AttachGapless, AttachLoad, TypeOK
  <2>5. ASSUME NEW r \in Attacher, AttachRead(r) PROVE Inv'
    <3> DEFINE rows == RowsAfter(view[r].after)
               latest == LatestOf(rows, view[r].latest)
    <3>1. rows = (view[r].after + 1)..Len(lines)
      BY LenProperties DEF Core, SeqIsPosition, RowsAfter, TypeOK
    <3>2. rows = (view[r].after + 1)..latest
      <4>1. CASE rows = {}
        <5>1. latest = view[r].latest /\ view[r].latest <= Len(lines)
          BY <2>5, <4>1 DEF LatestOf, AttachRead, LoadedInv
        <5>2. Len(lines) <= view[r].after
          BY <3>1, <4>1, LenProperties, LastOfInterval DEF TypeOK
        <5>3. view[r].latest \in Nat /\ view[r].after \in Nat /\ Len(lines) \in Nat
          BY LenProperties DEF TypeOK
        <5>4. QED BY <4>1, <5>1, <5>2, <5>3
      <4>2. CASE rows # {}
        <5>1. Max(rows) \in rows /\ \A i \in rows : i <= Max(rows)
          <6>1. rows \in SUBSET (1..Len(lines)) /\ Len(lines) \in Nat
            BY LenProperties DEF RowsAfter, TypeOK
          <6>2. QED BY <4>2, <6>1, MaxElement
        <5>2. Max(rows) = Len(lines)
          <6>1. Len(lines) \in rows
            BY <3>1, <4>2, LenProperties, LastOfInterval DEF TypeOK
          <6>2. Max(rows) \in (view[r].after + 1)..Len(lines) /\ Len(lines) <= Max(rows)
            BY <3>1, <5>1, <6>1
          <6>3. QED BY <6>2, LenProperties DEF TypeOK
        <5>3. lines[Len(lines)].seq = Len(lines)
          BY <3>1, <4>2, LenProperties DEF Core, SeqIsPosition, TypeOK
        <5>4. latest = Len(lines)
          BY <4>2, <5>2, <5>3 DEF LatestOf
        <5>5. QED BY <3>1, <5>4
      <4>3. QED BY <4>1, <4>2
    <3>3. /\ lines' = lines
          /\ \A q \in Attacher : q # r => view'[q] = view[q]
          /\ \/ view'[r].phase = "failed"
             \/ /\ view'[r].phase = "ready" /\ view'[r].after = view[r].after
                /\ view'[r].rows = rows /\ view'[r].latest = latest
      BY <2>5 DEF AttachRead, NoView, TypeOK
    <3>4. LoadedInv'
      BY <3>3 DEF LoadedInv
    <3>5. AttachGapless'
      BY <3>2, <3>3 DEF AttachGapless
    <3>6. QED BY <3>4, <3>5
  <2>6. ASSUME NEW p \in Process, Crash(p) PROVE FALSE
    BY <2>6 DEF Reliable, Crash, Strikes
  <2>7. QED
    BY <2>2, <2>3, <2>4, <2>5, <2>6 DEF Next, Calls, LockAndLoad, WriteState,
       WriteManifest, LoadFails, WriteTorn, StateFails, ManifestFails, Fails, vars
<1>3. Inv => AttachGapless
  OBVIOUS
<1>4. QED
  BY <1>1, <1>2, <1>3, CoreInvariant, TypeCorrect, PTL DEF Spec

-----------------------------------------------------------------------------
(* The store keeps the promise of module EventLog *)

\* A step of AppendEvent is a step, or none, of the abstract call.
LEMMA GotoMoves ==
    ASSUME TypeOK, NEW a \in Appender, NEW from \in Phase, NEW to \in Phase,
           Goto(a, from, to)
    PROVE  Promise!Move(a, Stage(from), Stage(to))
<1>1. pc' = [pc EXCEPT ![a] = to] /\ pc[a] = from /\ pc \in [Appender -> Phase]
  BY DEF TypeOK, Goto
<1>2. \A b \in Appender : Stage(pc'[b]) = IF b = a THEN Stage(to) ELSE Stage(pc[b])
  BY <1>1
<1>3. [b \in Appender |-> Stage(pc[b])][a] = Stage(from)
  BY <1>1
<1>4. [b \in Appender |-> Stage(pc'[b])]
          = [[b \in Appender |-> Stage(pc[b])] EXCEPT ![a] = Stage(to)]
  BY <1>2
<1>5. QED
  BY <1>3, <1>4 DEF Promise!Move

\* How the stages of AppendEvent look from outside.
LEMMA StageOf ==
    /\ Stage("idle") = "idle"
    /\ Stage("waiting") = "called" /\ Stage("locked") = "called"
    /\ Stage("written") = "committed" /\ Stage("indexed") = "committed"
BY DEF Stage

\* EventLog and EventStore number the same requests in the same way.
LEMMA SameEvents ==
    /\ Promise!Request = Request
    /\ \A req, n : Promise!Stamp(req, n) = Stamp(req, n)
BY DEF Promise!Request, Request, Promise!EventType, EventType, Promise!TerminalType,
       TerminalType, Promise!Stamp, Stamp

\* The two writes of AppendEvent look like one step to the callers: the write of
\* the line is that step, everything before and after it is invisible.
THEOREM Refinement == Reliable => (Spec => ImplementsEventLog)
<1> SUFFICES ASSUME Reliable PROVE Spec => ImplementsEventLog
  OBVIOUS
<1>1. Init => Promise!Init
  <2> SUFFICES ASSUME Init PROVE Promise!Init
    OBVIOUS
  <2>1. [a \in Appender |-> Stage(pc[a])] = [a \in Appender |-> "idle"]
    BY StageOf DEF Init
  <2>2. request \in [Appender -> Promise!Request]
    BY StoreAssumption, SameEvents DEF Init
  <2>3. QED BY <2>1, <2>2 DEF Init, Promise!Init
<1>2. TypeOK /\ TypeOK' /\ Core /\ [Next]_vars => [Promise!Next]_(Promise!vars)
  <2> SUFFICES ASSUME TypeOK, TypeOK', Core, [Next]_vars
               PROVE  [Promise!Next]_(Promise!vars)
    OBVIOUS
  <2> USE StoreAssumption
  <2>1. ASSUME NEW a \in Appender, NEW req \in Offered, Calls(a, req)
        PROVE  Promise!Next
    <3>1. Promise!Move(a, "idle", "called")
      BY <2>1, GotoMoves, StageOf DEF Calls, Phase
    <3>2. Promise!Call(a, req) /\ req \in Promise!Request
      BY <2>1, <3>1, SameEvents DEF Calls, Promise!Call
    <3>3. QED BY <3>2 DEF Promise!Next
  <2>2. ASSUME NEW a \in Appender, WriteLine(a) PROVE Promise!Next
    <3>1. \A b \in Appender : pc[b] # "written"
      BY <2>2, Mutex DEF Core, WriteLine, Goto, Inside, TypeOK
    <3>2. NextSeq(stored[a]) = Len(lines) + 1
      BY <2>2, <3>1, LenProperties
         DEF Core, StoredInv, IndexReflectsLog, IndexFor, Unindexed, WriteLine, Goto,
             NextSeq, TypeOK
    <3>3. lines' = Append(lines, Promise!Stamp(request[a], Len(lines) + 1))
      BY <2>2, <3>2, SameEvents DEF Core, WriteLine, NewLine
    <3>4. Promise!Move(a, "called", "committed")
      BY <2>2, GotoMoves, StageOf DEF WriteLine, Phase
    <3>5. QED
      BY <2>2, <3>3, <3>4 DEF WriteLine, Promise!Commit, Promise!Next
  <2>3. ASSUME NEW a \in Appender, LoadFails(a) \/ WriteTorn(a) PROVE Promise!Next
    <3>1. Promise!Move(a, "called", "idle")
      BY <2>3, GotoMoves, StageOf DEF LoadFails, WriteTorn, Fails, Phase
    <3>2. QED
      BY <2>3, <3>1 DEF LoadFails, WriteTorn, Fails, Promise!Refuse, Promise!Next
  <2>4. ASSUME NEW a \in Appender, WriteManifest(a) \/ ManifestFails(a)
        PROVE  Promise!Next
    <3>1. Promise!Move(a, "committed", "idle")
      BY <2>4, GotoMoves, StageOf DEF WriteManifest, ManifestFails, Fails, Phase
    <3>2. QED
      BY <2>4, <3>1 DEF WriteManifest, ManifestFails, Fails, Promise!Return, Promise!Next
  <2>5. ASSUME NEW a \in Appender, StateFails(a) PROVE FALSE
    BY <2>5 DEF Reliable, StateFails, Fails, Strikes
  <2>6. ASSUME NEW p \in Process, Crash(p) PROVE FALSE
    BY <2>6 DEF Reliable, Crash, Strikes
  <2>7. ASSUME NEW a \in Appender, LockAndLoad(a) \/ WriteState(a)
        PROVE  UNCHANGED Promise!vars
    <3>1. PICK s \in {"called", "committed"} : Promise!Move(a, s, s)
      BY <2>7, GotoMoves, StageOf DEF LockAndLoad, WriteState, Phase
    <3>2. [b \in Appender |-> Stage(pc[b])]' = [b \in Appender |-> Stage(pc[b])]
      BY <3>1 DEF Promise!Move
    <3>3. QED BY <2>7, <3>2 DEF LockAndLoad, WriteState, Promise!vars
  <2>8. CASE UNCHANGED <<lines, pc, request>>
    BY <2>8 DEF Promise!vars
  <2>9. QED
    BY <2>1, <2>2, <2>3, <2>4, <2>5, <2>6, <2>7, <2>8
       DEF Next, AttachLoad, AttachRead, vars
<1>3. QED
  BY <1>1, <1>2, CoreInvariant, TypeCorrect, PTL DEF Spec, ImplementsEventLog, Promise!Spec

-----------------------------------------------------------------------------
(* Under every fault *)

Alone == \A g, h \in Appender : Home[g] = Home[h]

\* What holds of the goroutine inside AppendEvent and of the events acknowledged so far.
\* A number above the one in state.json has not been acknowledged, for state.json is
\* written before the call returns.
RowInv ==
    \A a \in Appender : pc[a] \in {"written", "indexed"} =>
        /\ row[a] \in 1..Len(lines) /\ row[a] \notin acked
        /\ lines[row[a]] \in {Garbage, Stamp(request[a], NextSeq(stored[a]))}

AckedInv ==
    /\ acked \subseteq 1..Len(lines)
    /\ \A i \in acked : lines[i] # Garbage => lines[i].seq <= index.latestSeq
    /\ \A a \in Appender : pc[a] = "indexed" =>
        /\ NextSeq(stored[a]) = index.latestSeq
        /\ \A i \in acked : lines[i] # Garbage => lines[i].seq < index.latestSeq

Safe == LockInv /\ StoredInv /\ RowInv /\ AckedInv /\ AckedSeqsDistinct

LEMMA MutexAlone ==
    ASSUME Alone, TypeOK, LockInv
    PROVE  \A a, b \in Appender : pc[a] \in Inside /\ pc[b] \in Inside => a = b
BY DEF Alone, LockInv

\* The steps that touch neither file, nor the rows, and take nobody further in.
LEMMA SafeKept ==
    ASSUME TypeOK, TypeOK', Safe, UNCHANGED <<lines, index, row>>,
           acked' = acked, LockInv',
           \A a \in Appender : pc'[a] \in {"written", "indexed"} =>
               /\ pc'[a] = pc[a] /\ request'[a] = request[a] /\ stored'[a] = stored[a],
           \A a \in Appender : pc'[a] = "locked" => stored'[a] = index
    PROVE  Safe'
<1>1. StoredInv'
  BY DEF Safe, StoredInv
<1>2. RowInv'
  BY DEF Safe, RowInv, Stamp, NextSeq
<1>3. AckedInv'
  BY DEF Safe, AckedInv, NextSeq
<1>4. AckedSeqsDistinct'
  BY DEF Safe, AckedSeqsDistinct
<1>5. QED
  BY <1>1, <1>2, <1>3, <1>4 DEF Safe

LEMMA SafeStep ==
    ASSUME Alone, TypeOK, TypeOK', Safe, [Next]_vars
    PROVE  Safe'
<1> USE StoreAssumption
<1>1. ASSUME NEW a \in Appender, NEW req \in Offered, Calls(a, req) PROVE Safe'
  <2>1. LockInv'
    BY <1>1 DEF Safe, LockInv, Inside, Calls, Goto, TypeOK
  <2>2. QED
    BY <1>1, <2>1, SafeKept DEF Safe, StoredInv, Calls, Goto, TypeOK
<1>2. ASSUME NEW a \in Appender, LockAndLoad(a) PROVE Safe'
  <2>1. LockInv'
    <3>1. ASSUME NEW b \in Appender, b # a, pc'[b] \in Inside PROVE FALSE
      <4>1. pc[b] \in Inside
        BY <1>2, <3>1 DEF LockAndLoad, Goto, TypeOK
      <4>2. mu[Home[a]] = b
        BY <4>1 DEF Safe, LockInv, Alone
      <4>3. QED BY <1>2, <4>2 DEF LockAndLoad, LockFree
    <3>2. mu'[Home[a]] = a
      BY <1>2 DEF LockAndLoad, TypeOK
    <3>3. QED BY <3>1, <3>2 DEF LockInv
  <2>2. QED
    BY <1>2, <2>1, SafeKept DEF Safe, StoredInv, LockAndLoad, Goto, TypeOK
<1>3. ASSUME NEW a \in Appender, WriteLine(a) PROVE Safe'
  <2> DEFINE e == NewLine(Stamp(request[a], NextSeq(stored[a])))
  <2>1. \A b \in Appender : b # a => pc[b] \notin Inside /\ pc'[b] \notin Inside
    BY <1>3, MutexAlone DEF Safe, WriteLine, Goto, Inside, TypeOK
  <2>2. LockInv' /\ StoredInv'
    BY <1>3, <2>1 DEF Safe, LockInv, StoredInv, WriteLine, Goto, Inside, TypeOK
  <2>3. /\ Len(lines') = Len(lines) + 1 /\ Len(lines) \in Nat
        /\ lines'[Len(lines) + 1] = e
        /\ \A k \in 1..Len(lines) : lines'[k] = lines[k]
    BY <1>3, AppendProperties, LenProperties DEF WriteLine, TypeOK
  <2>4. pc'[a] = "written" /\ row'[a] = Len(lines) + 1 /\ UNCHANGED <<acked, index, request, stored>>
    BY <1>3 DEF WriteLine, Goto, TypeOK
  <2>5. RowInv'
    BY <2>1, <2>3, <2>4 DEF Safe, AckedInv, RowInv, Inside, NewLine, Stamp, NextSeq
  <2>6. AckedInv'
    <3>1. acked' \subseteq 1..Len(lines')
      BY <2>3, <2>4 DEF Safe, AckedInv
    <3>2. \A i \in acked' : lines'[i] # Garbage => lines'[i].seq <= index'.latestSeq
      BY <2>3, <2>4 DEF Safe, AckedInv
    <3>3. \A b \in Appender : pc'[b] # "indexed"
      BY <2>1, <2>4 DEF Inside
    <3>4. QED
      BY <3>1, <3>2, <3>3 DEF AckedInv
  <2>7. AckedSeqsDistinct'
    BY <2>3, <2>4 DEF Safe, AckedInv, AckedSeqsDistinct
  <2>8. QED
    BY <2>2, <2>5, <2>6, <2>7 DEF Safe
<1>4. ASSUME NEW a \in Appender, WriteState(a) PROVE Safe'
  <2>1. \A b \in Appender : b # a => pc[b] \notin Inside /\ pc'[b] \notin Inside
    BY <1>4, MutexAlone DEF Safe, WriteState, Goto, Inside, TypeOK
  <2>2. LockInv' /\ StoredInv'
    BY <1>4, <2>1 DEF Safe, LockInv, StoredInv, WriteState, Goto, Inside, TypeOK
  <2>3. /\ pc[a] = "written" /\ pc'[a] = "indexed"
        /\ UNCHANGED <<acked, lines, request, stored, row>>
    BY <1>4 DEF WriteState, Goto, TypeOK
  <2>4. /\ index'.latestSeq = NextSeq(stored[a]) /\ NextSeq(stored[a]) = index.latestSeq + 1
        /\ index.latestSeq \in Nat
    BY <1>4, <2>3 DEF WriteState, ApplyEvent, Stamp, Safe, StoredInv, NextSeq, TypeOK, Index
  <2>5. RowInv'
    BY <2>1, <2>3 DEF Safe, RowInv, Inside, Stamp, NextSeq
  <2>6. \A i \in acked : lines[i] # Garbage =>
            lines[i].seq <= index'.latestSeq /\ lines[i].seq < index'.latestSeq
    <3> SUFFICES ASSUME NEW i \in acked, lines[i] # Garbage
                 PROVE  lines[i].seq <= index'.latestSeq /\ lines[i].seq < index'.latestSeq
      OBVIOUS
    <3>1. lines[i].seq \in Nat
      BY DEF TypeOK, Line, Event, Safe, AckedInv
    <3>2. lines[i].seq <= index.latestSeq
      BY DEF Safe, AckedInv
    <3>3. QED
      BY <2>4, <3>1, <3>2
  <2>7. AckedInv'
    BY <2>1, <2>3, <2>4, <2>6 DEF Safe, AckedInv, Inside, NextSeq
  <2>8. AckedSeqsDistinct'
    BY <2>3 DEF Safe, AckedSeqsDistinct
  <2>9. QED
    BY <2>2, <2>5, <2>7, <2>8 DEF Safe
<1>5. ASSUME NEW a \in Appender, WriteManifest(a) PROVE Safe'
  <2>1. \A b \in Appender : b # a => pc[b] \notin Inside /\ pc'[b] \notin Inside
    BY <1>5, MutexAlone DEF Safe, WriteManifest, Goto, Inside, TypeOK
  <2>2. /\ pc[a] = "indexed" /\ pc'[a] = "idle" /\ acked' = acked \cup {row[a]}
        /\ UNCHANGED <<lines, index>>
    BY <1>5 DEF WriteManifest, Goto, TypeOK
  <2>3. LockInv' /\ StoredInv' /\ RowInv'
    BY <2>1, <2>2 DEF LockInv, StoredInv, RowInv, Inside
  <2>4. /\ row[a] \in 1..Len(lines)
        /\ lines[row[a]] # Garbage => lines[row[a]].seq = index.latestSeq
    <3>1. NextSeq(stored[a]) = index.latestSeq
      BY <2>2 DEF Safe, AckedInv
    <3>2. /\ row[a] \in 1..Len(lines)
          /\ lines[row[a]] \in {Garbage, Stamp(request[a], NextSeq(stored[a]))}
      BY <2>2 DEF Safe, RowInv
    <3>3. QED
      BY <3>1, <3>2 DEF Stamp
  <2>5. index.latestSeq \in Nat
    BY DEF TypeOK, Index
  <2>6. AckedInv'
    <3>1. acked' \subseteq 1..Len(lines')
      BY <2>2, <2>4 DEF Safe, AckedInv
    <3>2. \A i \in acked' : lines'[i] # Garbage => lines'[i].seq <= index'.latestSeq
      BY <2>2, <2>4, <2>5 DEF Safe, AckedInv
    <3>3. \A b \in Appender : pc'[b] # "indexed"
      BY <2>1, <2>2 DEF Inside
    <3>4. QED
      BY <3>1, <3>2, <3>3 DEF AckedInv
  <2>7. AckedSeqsDistinct'
    <3>1. \A i \in acked : lines[i] # Garbage => lines[i].seq < index.latestSeq
      BY <2>2 DEF Safe, AckedInv
    <3>2. QED
      BY <2>2, <2>4, <2>5, <3>1 DEF Safe, AckedSeqsDistinct
  <2>8. QED
    BY <2>3, <2>6, <2>7 DEF Safe
<1>6. ASSUME NEW a \in Appender,
             LoadFails(a) \/ WriteTorn(a) \/ StateFails(a) \/ ManifestFails(a)
      PROVE  Safe'
  <2>1. PICK kind, from : Fails(a, kind, from) /\ from \in Inside
    <3>1. "locked" \in Inside /\ "written" \in Inside /\ "indexed" \in Inside
      BY DEF Inside
    <3>2. QED
      BY <1>6, <3>1, Zenon DEF LoadFails, WriteTorn, StateFails, ManifestFails
  <2>2. \A b \in Appender : b # a => pc[b] \notin Inside
    BY <2>1, MutexAlone DEF Safe, Fails, Goto, Inside
  <2>3. pc'[a] = "idle" /\ (\A b \in Appender : b # a => pc'[b] = pc[b])
        /\ UNCHANGED <<lines, index, request, stored, row, acked>>
    BY <2>1 DEF Fails, Goto, TypeOK
  <2>4. LockInv'
    BY <2>2, <2>3 DEF LockInv, Inside
  <2>5. QED
    BY <2>2, <2>3, <2>4, SafeKept DEF Inside
<1>7. ASSUME NEW p \in Process, Crash(p) PROVE Safe'
  <2>1. \A b \in Appender : Home[b] = p => pc'[b] = "idle"
    BY <1>7 DEF Crash
  <2>2. \A b \in Appender : Home[b] # p => pc'[b] = pc[b] /\ mu'[Home[b]] = mu[Home[b]]
    BY <1>7 DEF Crash, TypeOK
  <2>3. LockInv'
    BY <2>1, <2>2 DEF Safe, LockInv, Inside
  <2>4. QED
    BY <1>7, <2>1, <2>2, <2>3, SafeKept DEF Crash, Safe, StoredInv
<1>8. ASSUME NEW r \in Attacher, AttachRead(r) \/ \E after \in 0..MaxEvents : AttachLoad(r, after)
      PROVE  Safe'
  <2>1. UNCHANGED <<lines, index, row, acked, mu, pc, request, stored>>
    BY <1>8 DEF AttachRead, AttachLoad
  <2>2. QED
    BY <2>1, SafeKept DEF Safe, LockInv, StoredInv
<1>9. CASE UNCHANGED vars
  <2>1. UNCHANGED <<lines, index, row, acked, mu, pc, request, stored>>
    BY <1>9 DEF vars
  <2>2. QED
    BY <2>1, SafeKept DEF Safe, LockInv, StoredInv
<1>10. QED
  BY <1>1, <1>2, <1>3, <1>4, <1>5, <1>6, <1>7, <1>8, <1>9 DEF Next

LEMMA SafeHolds == Alone => (Spec => []Safe)
<1> SUFFICES ASSUME Alone PROVE Spec => []Safe
  OBVIOUS
<1>1. Init => Safe
  BY DEF Init, Safe, LockInv, StoredInv, RowInv, AckedInv, AckedSeqsDistinct, Inside
<1>2. TypeOK /\ TypeOK' /\ Safe /\ [Next]_vars => Safe'
  BY SafeStep
<1>3. QED
  BY <1>1, <1>2, TypeCorrect, PTL DEF Spec

\* Whatever fails or crashes, however often: two events that were acknowledged, and can be
\* read back, have different numbers, although a crash may make AppendEvent use a number
\* twice.
THEOREM AckedSeqsDistinctHolds == Alone => (Spec => []AckedSeqsDistinct)
<1> SUFFICES ASSUME Alone PROVE Spec => []AckedSeqsDistinct
  OBVIOUS
<1>1. Safe => AckedSeqsDistinct
  BY DEF Safe
<1>2. QED
  BY <1>1, SafeHolds, PTL

-----------------------------------------------------------------------------
(* What state.json counts *)

Torn == {i \in 1..Len(lines) : lines[i] = Garbage}

\* An event was run into a torn line and will be counted by state.json.
Owed == \E a \in Appender : pc[a] = "written" /\ lines[row[a]] = Garbage

Counted == Cardinality(Missing) + (IF Owed THEN 1 ELSE 0) <= Cardinality(Torn)

LEMMA Finite ==
    ASSUME TypeOK
    PROVE  /\ IsFiniteSet(Missing) /\ Cardinality(Missing) \in Nat
           /\ IsFiniteSet(Torn) /\ Cardinality(Torn) \in Nat
<1>1. index.latestSeq \in Nat /\ Len(lines) \in Nat
  BY LenProperties DEF TypeOK, Index
<1>2. IsFiniteSet(1..index.latestSeq) /\ IsFiniteSet(1..Len(lines))
  BY <1>1, FS_Interval
<1>3. IsFiniteSet(Missing) /\ IsFiniteSet(Torn)
  BY <1>2, FS_Subset DEF Missing, Torn
<1>4. QED
  BY <1>3, FS_CardinalityType

LEMMA CountedStep ==
    ASSUME Alone, TypeOK, TypeOK', Safe, Counted, [Next]_vars
    PROVE  Counted'
<1>0. /\ Cardinality(Missing) \in Nat /\ Cardinality(Missing)' \in Nat
      /\ Cardinality(Torn) \in Nat /\ Cardinality(Torn)' \in Nat
      /\ IsFiniteSet(Missing) /\ IsFiniteSet(Torn)
      /\ IsFiniteSet(Missing)' /\ IsFiniteSet(Torn)'
  <2>1. index'.latestSeq \in Nat /\ Len(lines') \in Nat
    BY LenProperties DEF TypeOK, Index
  <2>2. IsFiniteSet(1..index'.latestSeq) /\ IsFiniteSet(1..Len(lines'))
    BY <2>1, FS_Interval
  <2>3. IsFiniteSet(Missing') /\ IsFiniteSet(Torn')
    BY <2>2, FS_Subset DEF Missing, Torn
  <2>4. QED
    BY <2>3, Finite, FS_CardinalityType
<1>1. ASSUME UNCHANGED <<lines, index, row>>,
             \A a \in Appender : pc'[a] = "written" => pc[a] = "written"
      PROVE  Counted'
  <2>1. Missing' = Missing /\ Torn' = Torn /\ (Owed' => Owed)
    BY <1>1 DEF Missing, Torn, Owed
  <2>2. QED
    BY <1>0, <2>1 DEF Counted
<1>2. ASSUME NEW a \in Appender, WriteLine(a) PROVE Counted'
  <2>0. PICK n \in Nat : n = Len(lines) + 1
    BY LenProperties DEF TypeOK
  <2>1. /\ Len(lines') = n
        /\ \A k \in 1..Len(lines) : lines'[k] = lines[k]
        /\ row' = [row EXCEPT ![a] = n] /\ pc'[a] = "written" /\ index' = index
    BY <1>2, <2>0, AppendProperties, LenProperties DEF WriteLine, Goto, TypeOK
  <2>2. ~Owed
    BY <1>2, MutexAlone DEF Owed, Safe, WriteLine, Goto, Inside
  <2>3. \A b \in Appender : b # a => pc'[b] # "written"
    BY <1>2, MutexAlone DEF Safe, WriteLine, Goto, Inside, TypeOK
  <2>4. Missing' \subseteq Missing
    BY <2>0, <2>1 DEF Missing
  <2>5. Cardinality(Missing)' <= Cardinality(Missing)
    BY <1>0, <2>4, FS_Subset
  <2>6. CASE lines'[n] = Garbage
    <3>1. Torn' = Torn \cup {n} /\ n \notin Torn
      BY <2>0, <2>1, <2>6, LenProperties DEF Torn, TypeOK
    <3>2. Cardinality(Torn)' = Cardinality(Torn) + 1
      BY <1>0, <3>1, FS_AddElement
    <3>3. QED
      BY <1>0, <2>2, <2>5, <3>2 DEF Counted
  <2>7. CASE lines'[n] # Garbage
    <3>1. Torn' = Torn
      <4>1. \A i : i \in 1..n <=> i \in 1..Len(lines) \/ i = n
        BY <2>0, LenProperties DEF TypeOK
      <4>2. \A i : i \in Torn' <=> i \in Torn
        BY <2>1, <2>7, <4>1 DEF Torn
      <4>3. QED
        BY <4>2 DEF Torn
    <3>2. ~Owed'
      BY <2>1, <2>3, <2>7 DEF Owed, TypeOK
    <3>3. QED
      BY <1>0, <2>2, <2>5, <3>1, <3>2 DEF Counted
  <2>8. QED
    BY <2>6, <2>7
<1>3. ASSUME NEW a \in Appender, WriteState(a) PROVE Counted'
  <2>0. PICK n \in Nat : n = index.latestSeq + 1
    BY DEF TypeOK, Index
  <2>1. /\ pc[a] = "written" /\ pc'[a] = "indexed" /\ UNCHANGED <<lines, row>>
        /\ index'.latestSeq = n
    BY <1>3, <2>0 DEF WriteState, Goto, ApplyEvent, Stamp, NextSeq, Safe, StoredInv, TypeOK
  <2>2. \A b \in Appender : b # a => pc'[b] # "written"
    BY <1>3, MutexAlone DEF Safe, WriteState, Goto, Inside, TypeOK
  <2>3. ~Owed' /\ Torn' = Torn
    BY <2>1, <2>2 DEF Owed, Torn
  <2>4. Missing' \subseteq Missing \cup {n}
    BY <2>0, <2>1 DEF Missing, TypeOK, Index
  <2>5. CASE lines[row[a]] = Garbage
    <3>1. Owed
      BY <2>1, <2>5 DEF Owed
    <3>2. /\ IsFiniteSet(Missing \cup {n})
          /\ Cardinality(Missing \cup {n}) <= Cardinality(Missing) + 1
      BY <1>0, FS_AddElement
    <3>3. Cardinality(Missing)' <= Cardinality(Missing \cup {n})
          /\ Cardinality(Missing \cup {n}) \in Nat
      BY <2>4, <3>2, FS_Subset, FS_CardinalityType
    <3>4. QED
      BY <1>0, <2>3, <3>1, <3>2, <3>3 DEF Counted
  <2>6. CASE lines[row[a]] # Garbage
    <3>1. row[a] \in 1..Len(lines) /\ lines[row[a]].seq = n
      <4>1. NextSeq(stored[a]) = n
        BY <2>0, <2>1 DEF Safe, StoredInv, NextSeq
      <4>2. /\ row[a] \in 1..Len(lines)
            /\ lines[row[a]] \in {Garbage, Stamp(request[a], NextSeq(stored[a]))}
        BY <2>1 DEF Safe, RowInv
      <4>3. QED
        BY <2>6, <4>1, <4>2 DEF Stamp
    <3>2. n \notin Missing'
      BY <2>1, <3>1 DEF Missing
    <3>3. Missing' \subseteq Missing
      BY <2>4, <3>2
    <3>4. Cardinality(Missing)' <= Cardinality(Missing)
      BY <1>0, <3>3, FS_Subset
    <3>5. QED
      BY <1>0, <2>3, <3>4 DEF Counted
  <2>7. QED
    BY <2>5, <2>6
<1>4. ASSUME NEW a \in Appender,
             \/ \E req \in Offered : Calls(a, req)
             \/ LockAndLoad(a) \/ WriteManifest(a)
      PROVE  Counted'
  BY <1>1, <1>4 DEF Calls, LockAndLoad, WriteManifest, Goto, TypeOK
<1>5. ASSUME NEW a \in Appender,
             LoadFails(a) \/ WriteTorn(a) \/ StateFails(a) \/ ManifestFails(a)
      PROVE  Counted'
  <2>1. PICK kind, from : Fails(a, kind, from)
    BY <1>5, Zenon DEF LoadFails, WriteTorn, StateFails, ManifestFails
  <2>2. QED
    BY <1>1, <2>1 DEF Fails, Goto, TypeOK
<1>6. ASSUME NEW p \in Process, Crash(p) PROVE Counted'
  BY <1>1, <1>6 DEF Crash
<1>7. ASSUME NEW r \in Attacher, AttachRead(r) \/ \E after \in 0..MaxEvents : AttachLoad(r, after)
      PROVE  Counted'
  BY <1>1, <1>7 DEF AttachRead, AttachLoad
<1>8. CASE UNCHANGED vars
  BY <1>1, <1>8 DEF vars
<1>9. QED
  BY <1>2, <1>3, <1>4, <1>5, <1>6, <1>7, <1>8 DEF Next

\* Whatever fails or crashes, however often: state.json counts no event that events.jsonl
\* lacks, but for one event for each torn line.
THEOREM IndexedEventsPresentHolds == Alone => (Spec => []IndexedEventsPresent)
<1> SUFFICES ASSUME Alone PROVE Spec => []IndexedEventsPresent
  OBVIOUS
<1>1. Init => Counted
  <2> SUFFICES ASSUME Init PROVE Counted
    OBVIOUS
  <2>1. Missing = {} /\ Torn = {} /\ ~Owed
    BY DEF Init, InitIndex, Missing, Torn, Owed
  <2>2. QED
    BY <2>1, FS_EmptySet DEF Counted
<1>2. TypeOK /\ TypeOK' /\ Safe /\ Counted /\ [Next]_vars => Counted'
  BY CountedStep
<1>3. TypeOK /\ Counted => IndexedEventsPresent
  BY Finite DEF Counted, IndexedEventsPresent, Torn
<1>4. QED
  BY <1>1, <1>2, <1>3, TypeCorrect, SafeHolds, PTL DEF Spec

=============================================================================
