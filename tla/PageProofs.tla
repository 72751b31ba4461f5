----------------------------- MODULE PageProofs -----------------------------
(***************************************************************************)
(* Proofs about PageSession, for any number of connections, any set of     *)
(* turns and any memory of the page: what the page has taken in, what it   *)
(* still waits for, and what it shows.                                     *)
(***************************************************************************)
EXTENDS PageSession, OrderLemmas

-----------------------------------------------------------------------------
(* Queues *)

LEMMA SetOfEmpty == ToSet(<< >>) = {}
BY DEF ToSet

LEMMA SetOfAppend ==
    ASSUME NEW S, NEW s \in Seq(S), NEW x
    PROVE  ToSet(Append(s, x)) = ToSet(s) \cup {x}
<1>1. /\ Len(s) \in Nat /\ DOMAIN s = 1..Len(s) /\ DOMAIN Append(s, x) = 1..(Len(s) + 1)
      /\ \A i \in 1..Len(s) : Append(s, x)[i] = s[i]
      /\ Append(s, x)[Len(s) + 1] = x
  OBVIOUS
<1>2. QED
  BY <1>1 DEF ToSet

LEMMA SetOfTail ==
    ASSUME NEW S, NEW s \in Seq(S), s # << >>
    PROVE  /\ ToSet(s) = {Head(s)} \cup ToSet(Tail(s))
           /\ Head(s) \in S /\ Tail(s) \in Seq(S)
<1>1. /\ Len(s) \in Nat \ {0} /\ DOMAIN s = 1..Len(s) /\ DOMAIN Tail(s) = 1..(Len(s) - 1)
      /\ \A i \in 1..(Len(s) - 1) : Tail(s)[i] = s[i + 1]
      /\ Head(s) = s[1]
  OBVIOUS
<1>2. ASSUME NEW x \in ToSet(s) PROVE x \in {Head(s)} \cup ToSet(Tail(s))
  <2>1. PICK i \in 1..Len(s) : x = s[i]
    BY <1>1 DEF ToSet
  <2>2. CASE i = 1
    BY <1>1, <2>1, <2>2
  <2>3. CASE i # 1
    <3>1. i - 1 \in 1..(Len(s) - 1) /\ (i - 1) + 1 = i
      BY <1>1, <2>3
    <3>2. Tail(s)[i - 1] = x
      BY <1>1, <2>1, <3>1
    <3>3. QED BY <1>1, <3>1, <3>2 DEF ToSet
  <2>4. QED BY <2>2, <2>3
<1>3. {Head(s)} \cup ToSet(Tail(s)) \subseteq ToSet(s)
  BY <1>1 DEF ToSet
<1>4. QED
  BY <1>1, <1>2, <1>3

LEMMA SetOfConcat ==
    ASSUME NEW S, NEW x \in S, NEW s \in Seq(S)
    PROVE  ToSet(<<x>> \o s) = {x} \cup ToSet(s)
<1>1. /\ <<x>> \o s \in Seq(S) /\ <<x>> \o s # << >>
      /\ Head(<<x>> \o s) = x /\ Tail(<<x>> \o s) = s
  OBVIOUS
<1>2. QED
  BY <1>1, SetOfTail

LEMMA SetOfOne == \A x : ToSet(<<x>>) = {x}
BY DEF ToSet

LEMMA SetOfTwo == \A x, y : ToSet(<<x, y>>) = {x, y}
<1> TAKE x, y
<1>1. DOMAIN <<x, y>> = {1, 2} /\ <<x, y>>[1] = x /\ <<x, y>>[2] = y
  OBVIOUS
<1>2. QED BY <1>1 DEF ToSet

LEMMA ContainsIs == ASSUME NEW S, NEW s \in Seq(S), NEW x PROVE Contains(s, x) <=> x \in ToSet(s)
BY DEF Contains, ToSet

LEMMA SetIn == ASSUME NEW S, NEW s \in Seq(S) PROVE ToSet(s) \subseteq S
BY DEF ToSet

-----------------------------------------------------------------------------
(* Types *)

\* An event of the log, or of another session: a turn that starts has an id.
Proper == {e \in Event : Starts(e) => e.turn \in Turn}

Question == [type : {"session.create", "session.attach"}]
                \cup [type : {"turn.start", "turn.cancel"}, turn : Turn]
Message == [type : {"connection.ready"}] \cup [type : {"session.ready"}, lastSeq : Nat]
               \cup [type : {"turn.accepted"}, turn : Turn]
               \cup [type : {"session.event"}, event : Proper]

TypedSession ==
    /\ log \in Seq(Proper) /\ current \in Turn \cup {NoTurn}
    /\ phase \in {"none", "taken", "open", "answered", "over"}
    /\ pending \in [Turn -> Nat]
TypedTurns ==
    /\ cancelEmitted \in BOOLEAN
    /\ stage \in [Turn -> {"new", "sent", "accepted", "running", "rejected", "done"}]
    /\ home \in [Turn -> 0..MaxConns] /\ unsent \in Seq(Proper)
TypedReader ==
    /\ inbox \in [Conn -> Seq(Question)] /\ attached \in [Conn -> BOOLEAN]
    /\ out \in [Conn -> Seq(Message)] /\ cancelling \in [Conn -> Turn \cup {NoTurn}]
TypedPage ==
    /\ conn \in 0..MaxConns
    /\ page \in Page /\ Len(page.seenSeqs) <= SeenLimit
    /\ told \in Seq(Nat) /\ shown \subseteq ToSet(told) /\ strays \subseteq Nat

Typed ==
    /\ TypedSession /\ TypedTurns /\ TypedReader /\ TypedPage
    /\ wire \in [Conn -> Seq(Message)]
    /\ socket \in [Conn -> {"none", "open", "closing", "closed"}]
    /\ left \in [Bounded -> Nat]

LEMMA RememberFacts ==
    ASSUME NEW seqs \in Seq(Nat), Len(seqs) <= SeenLimit, NEW n \in Nat
    PROVE  /\ Remember(seqs, n) \in Seq(Nat) /\ Len(Remember(seqs, n)) <= SeenLimit
           /\ n \in ToSet(Remember(seqs, n))
           /\ ToSet(Remember(seqs, n)) \subseteq ToSet(seqs) \cup {n}
           /\ Len(seqs) < SeenLimit => Remember(seqs, n) = Append(seqs, n)
<1> DEFINE all == Append(seqs, n)
<1>1. /\ all \in Seq(Nat) /\ Len(all) = Len(seqs) + 1 /\ Len(seqs) \in Nat /\ all # << >>
      /\ Tail(all) \in Seq(Nat) /\ Len(Tail(all)) = Len(seqs)
  OBVIOUS
<1>2. ToSet(all) = ToSet(seqs) \cup {n} /\ ToSet(all) = {Head(all)} \cup ToSet(Tail(all))
  BY <1>1, SetOfAppend, SetOfTail
<1>3. ASSUME Len(all) > SeenLimit PROVE n \in ToSet(Tail(all))
  <2>1. Len(seqs) \in 1..Len(Tail(all))
    BY <1>1, <1>3, SeenLimitAssumption
  <2>a. Tail(all)[Len(seqs)] = all[Len(seqs) + 1]
    BY <1>1, <2>1
  <2>b. all[Len(seqs) + 1] = n
    OBVIOUS
  <2>c. DOMAIN Tail(all) = 1..Len(Tail(all))
    BY <1>1, LenProperties
  <2>2. QED BY <2>1, <2>a, <2>b, <2>c DEF ToSet
<1>4. Remember(seqs, n) = IF Len(all) > SeenLimit THEN Tail(all) ELSE all
  BY DEF Remember
<1> HIDE DEF all
<1>5. QED
  BY <1>1, <1>2, <1>3, <1>4, SeenLimitAssumption DEF all

\* What an event makes of an answer.
LEMMA AnswerFacts ==
    ASSUME NEW old \in Answer, NEW e \in Event
    PROVE  /\ AnswerAfter(old, e) \in Answer
           /\ AnswerAfter(old, e).text \in {old.text, Append(old.text, e.seq), <<e.seq>>}
           /\ e.type # "assistant.delta" => AnswerAfter(old, e).text \in {old.text, <<e.seq>>}
<1>1. e.seq \in Nat /\ e.type \in EventType /\ old.text \in Seq(Nat)
  BY DEF Event, Answer
<1>2. Append(old.text, e.seq) \in Seq(Nat) /\ <<e.seq>> \in Seq(Nat)
  BY <1>1
<1>3. CASE e.type = "assistant.delta"
  BY <1>2, <1>3 DEF AnswerAfter, WithDelta, Answer
<1>4. CASE e.type = "assistant.message"
  BY <1>2, <1>4 DEF AnswerAfter, Whole, Upsert, Answer
<1>5. CASE e.type = "turn.failed"
  BY <1>2, <1>5 DEF AnswerAfter, Whole, Upsert, Answer
<1>6. CASE e.type = "turn.cancelled"
  BY <1>2, <1>6 DEF AnswerAfter, Whole, Upsert, Answer
<1>7. CASE e.type \notin {"assistant.delta", "assistant.message", "turn.failed", "turn.cancelled"}
  BY <1>7 DEF AnswerAfter
<1>8. QED BY <1>3, <1>4, <1>5, <1>6, <1>7

\* What an event that is new to the page makes of it.
LEMMA NewEvent ==
    ASSUME NEW p \in Page, Len(p.seenSeqs) <= SeenLimit, NEW e \in Proper, ~Seen(p, e)
    PROVE  LET q == ReduceEvent(p, e)
           IN  /\ q \in Page
               /\ q.status = p.status /\ q.sessionId = p.sessionId
               /\ q.pendingTurnId = PendingAfter(p.pendingTurnId, e)
               /\ q.seenSeqs = Remember(p.seenSeqs, e.seq)
               /\ q.asked = IF Starts(e) THEN p.asked \cup {e.turn} ELSE p.asked
               /\ \A t \in Turn : q.answer[t] = IF t = e.turn THEN AnswerAfter(p.answer[t], e)
                                                ELSE p.answer[t]
<1>1. ReduceEvent(p, e) =
        [p EXCEPT
            !.lastSeq = IF e.seq > @ THEN e.seq ELSE @,
            !.seenSeqs = Remember(@, e.seq),
            !.asked = IF Starts(e) THEN @ \cup {e.turn} ELSE @,
            !.answer = [t \in Turn |-> IF t = e.turn THEN AnswerAfter(@[t], e) ELSE @[t]],
            !.pendingTurnId = PendingAfter(@, e)]
  BY DEF ReduceEvent
<1>2. /\ p.status \in ConnectionStatus /\ p.sessionId \in BOOLEAN
      /\ p.pendingTurnId \in Turn \cup {NoTurn} /\ p.lastSeq \in Nat /\ p.seenSeqs \in Seq(Nat)
      /\ p.asked \in SUBSET Turn /\ p.answer \in [Turn -> Answer]
  BY DEF Page
<1>3. e \in Event /\ e.seq \in Nat /\ (Starts(e) => e.turn \in Turn)
  BY DEF Event, Proper
<1>4. Remember(p.seenSeqs, e.seq) \in Seq(Nat)
  BY <1>2, <1>3, RememberFacts
<1>5. [t \in Turn |-> IF t = e.turn THEN AnswerAfter(p.answer[t], e) ELSE p.answer[t]]
        \in [Turn -> Answer]
  BY <1>2, <1>3, AnswerFacts
<1>6. PendingAfter(p.pendingTurnId, e) \in Turn \cup {NoTurn}
  BY <1>2 DEF PendingAfter
<1> DEFINE q == ReduceEvent(p, e)
<1>7. /\ q = [p EXCEPT !.lastSeq = q.lastSeq, !.seenSeqs = Remember(p.seenSeqs, e.seq),
                       !.asked = q.asked, !.answer = q.answer,
                       !.pendingTurnId = PendingAfter(p.pendingTurnId, e)]
      /\ q.lastSeq = (IF e.seq > p.lastSeq THEN e.seq ELSE p.lastSeq)
      /\ q.asked = (IF Starts(e) THEN p.asked \cup {e.turn} ELSE p.asked)
      /\ q.answer = [t \in Turn |-> IF t = e.turn THEN AnswerAfter(p.answer[t], e) ELSE p.answer[t]]
  BY <1>1 DEF Page
<1>8. q.lastSeq \in Nat /\ q.asked \in SUBSET Turn /\ q.answer \in [Turn -> Answer]
  BY <1>2, <1>3, <1>5, <1>7
<1>9. \A t \in Turn : q.answer[t] = IF t = e.turn THEN AnswerAfter(p.answer[t], e) ELSE p.answer[t]
  BY <1>7
<1> HIDE DEF q
<1>10. /\ q \in Page
       /\ q.status = p.status /\ q.sessionId = p.sessionId
       /\ q.pendingTurnId = PendingAfter(p.pendingTurnId, e)
       /\ q.seenSeqs = Remember(p.seenSeqs, e.seq)
  BY <1>4, <1>6, <1>7, <1>8 DEF Page
<1>11. QED
  BY <1>7, <1>9, <1>10 DEF q

LEMMA ReduceFacts ==
    ASSUME NEW p \in Page, Len(p.seenSeqs) <= SeenLimit, NEW m \in Message
    PROVE  Reduce(p, m) \in Page /\ Len(Reduce(p, m).seenSeqs) <= SeenLimit
<1>1. CASE m.type = "connection.ready"
  BY <1>1 DEF Reduce, Page, ConnectionStatus
<1>2. CASE m.type = "session.ready"
  <2>1. m.lastSeq \in Nat
    BY <1>2 DEF Message
  <2>2. Reduce(p, m) = [p EXCEPT !.sessionId = TRUE, !.lastSeq = m.lastSeq]
    BY <1>2 DEF Reduce, Welcome
  <2>3. QED BY <2>1, <2>2 DEF Page
<1>3. CASE m.type = "turn.accepted"
  <2>1. m.turn \in Turn
    BY <1>3 DEF Message
  <2>2. Reduce(p, m) = [p EXCEPT !.pendingTurnId = m.turn]
    BY <1>3 DEF Reduce
  <2>3. QED BY <2>1, <2>2 DEF Page
<1>4. CASE m.type = "session.event"
  <2>1. m.event \in Proper /\ m.event.seq \in Nat /\ p.seenSeqs \in Seq(Nat)
    BY <1>4 DEF Message, Proper, Event, Page
  <2>2. Reduce(p, m) = ReduceEvent(p, m.event)
    BY <1>4 DEF Reduce
  <2>3. CASE Seen(p, m.event)
    BY <2>2, <2>3 DEF ReduceEvent
  <2>4. CASE ~Seen(p, m.event)
    <3> DEFINE q == ReduceEvent(p, m.event)
    <3>1. q \in Page /\ q.seenSeqs = Remember(p.seenSeqs, m.event.seq)
      BY <2>1, <2>4, NewEvent
    <3>2. Len(q.seenSeqs) <= SeenLimit
      BY <2>1, <3>1, RememberFacts
    <3>3. QED BY <2>2, <3>1, <3>2
  <2>5. QED BY <2>3, <2>4
<1>5. QED BY <1>1, <1>2, <1>3, <1>4 DEF Message

LEMMA QueueTypes ==
    ASSUME NEW S, NEW q \in [Conn -> Seq(S)], NEW c
    PROVE  /\ \A m \in S : [q EXCEPT ![c] = Append(@, m)] \in [Conn -> Seq(S)]
           /\ \A s \in Seq(S) : [q EXCEPT ![c] = s] \in [Conn -> Seq(S)]
           /\ c \in Conn /\ q[c] # << >> => /\ Head(q[c]) \in S
                                            /\ [q EXCEPT ![c] = Tail(@)] \in [Conn -> Seq(S)]
<1>1. ASSUME NEW m \in S PROVE [q EXCEPT ![c] = Append(@, m)] \in [Conn -> Seq(S)]
  <2>1. CASE c \in Conn
    <3>1. Append(q[c], m) \in Seq(S)
      BY <2>1
    <3>2. QED BY <3>1
  <2>2. CASE c \notin Conn
    BY <2>2
  <2>3. QED BY <2>1, <2>2
<1>2. ASSUME NEW s \in Seq(S) PROVE [q EXCEPT ![c] = s] \in [Conn -> Seq(S)]
  OBVIOUS
<1>3. ASSUME c \in Conn, q[c] # << >>
      PROVE  Head(q[c]) \in S /\ [q EXCEPT ![c] = Tail(@)] \in [Conn -> Seq(S)]
  <2>1. Head(q[c]) \in S /\ Tail(q[c]) \in Seq(S)
    BY <1>3, SetOfTail
  <2>2. QED BY <2>1
<1>4. QED BY <1>1, <1>2, <1>3

\* An event enters the log.
LEMMA AddsType ==
    ASSUME TypedSession, NEW type \in EventType, NEW t \in Turn \cup {NoTurn},
           type = "turn.started" => t \in Turn, Session!Adds(type, t)
    PROVE  /\ log' \in Seq(Proper) /\ Len(log') = Len(log) + 1 /\ Len(log) \in Nat
           /\ \A i \in 1..Len(log) : log'[i] = log[i]
           /\ Last(log') = log'[Len(log')] /\ Last(log') \in Proper
           /\ log'[Len(log) + 1] = [type |-> type, turn |-> t, seq |-> Len(log) + 1]
<1> DEFINE e == [type |-> type, turn |-> t, seq |-> Len(log) + 1]
<1>1. log \in Seq(Proper) /\ Len(log) \in Nat
  BY DEF TypedSession
<1>2. e \in Proper
  BY <1>1 DEF Proper, Event, Starts
<1>3. log' = Append(log, e)
  BY DEF Session!Adds, Session!Stamp
<1>4. /\ log' \in Seq(Proper) /\ Len(log') = Len(log) + 1
      /\ \A i \in 1..Len(log) : log'[i] = log[i]
      /\ log'[Len(log) + 1] = e
  BY <1>1, <1>2, <1>3, AppendProperties
<1>5. Last(log') = log'[Len(log')]
  BY DEF Last
<1>6. QED BY <1>1, <1>2, <1>4, <1>5

\* What the turn that holds the session says.
LEMMA SpeakAdds ==
    ASSUME TypedSession, Speak
    PROVE  /\ \E type \in EventType \ {"session.created"} : Session!Adds(type, current)
           /\ current \in Turn /\ phase' \in {"open", "answered", "over"}
           /\ UNCHANGED <<current, pending>> /\ unsent = << >> /\ unsent' = <<Last(log')>>
           /\ UNCHANGED <<cancelEmitted, stage, home, reader, wire, socket, client>>
           /\ left' = left \/ Spend("delta")
<1>1. current # NoTurn /\ UNCHANGED <<current, pending>>
  BY DEF Speak, Session!Says, Session!Streams
<1>2. \E type \in EventType \ {"session.created"} :
        Session!Adds(type, current) /\ phase' \in {"open", "answered", "over"}
  BY DEF Speak, Session!Says, Session!Streams, EventType, TerminalType
<1>3. QED
  BY <1>1, <1>2 DEF Speak, TypedSession

LEMMA TypedHolds == Spec => []Typed
<1>1. Init => Typed
  <2> SUFFICES ASSUME Init PROVE Typed
    OBVIOUS
  <2>1. TypedSession /\ TypedReader
    BY EmptySeq DEF Init, Session!Init, TypedSession, TypedReader
  <2>3. TypedTurns
    <3>1. 0 \in 0..MaxConns
      BY PageSessionAssumption
    <3>2. << >> \in Seq(Proper)
      BY EmptySeq
    <3>3. QED BY <3>1, <3>2 DEF Init, TypedTurns
  <2>2. TypedPage
    <3>1. NoAnswer \in Answer
      BY DEF NoAnswer, Answer
    <3>2. InitPage \in Page /\ InitPage.seenSeqs = << >>
      BY <3>1 DEF InitPage, Page, ConnectionStatus
    <3>3. QED
      BY <3>2, EmptySeq, SeenLimitAssumption, PageSessionAssumption DEF Init, TypedPage
  <2>4. QED
    BY <2>1, <2>2, <2>3, EmptySeq, PageSessionAssumption DEF Init, Typed
<1>2. Typed /\ [Next]_vars => Typed'
  <2> SUFFICES ASSUME Typed, [Next]_vars PROVE Typed'
    OBVIOUS
  <2>a. TypedSession /\ (UNCHANGED session => TypedSession')
    BY DEF Typed, TypedSession, session
  <2>b. TypedTurns /\ (UNCHANGED turns => TypedTurns')
    BY DEF Typed, TypedTurns, turns
  <2>c. TypedReader /\ (UNCHANGED reader => TypedReader')
    BY DEF Typed, TypedReader, reader
  <2>d. TypedPage /\ (UNCHANGED client => TypedPage')
    BY DEF Typed, TypedPage, client, history
  <2>e. /\ wire \in [Conn -> Seq(Message)] /\ left \in [Bounded -> Nat]
        /\ socket \in [Conn -> {"none", "open", "closing", "closed"}]
    BY DEF Typed
  <2>f. \A kind \in Bounded : Spend(kind) => left' \in [Bounded -> Nat]
    BY <2>e DEF Spend
  <2>g. {"connect", "attach", "turn", "cancel", "delta", "stray"} = Bounded
    BY DEF Bounded
  <2>h. Open => conn \in Conn
    BY <2>d DEF Open, TypedPage, Conn
  <2>1. ASSUME NEW t \in Turn, Register(t) \/ Reject(t) PROVE Typed'
    <3>1. TypedSession' /\ TypedTurns'
      BY <2>1, <2>a, <2>b DEF Register, Reject, Session!Take, TypedSession, TypedTurns, session
    <3>2. UNCHANGED <<reader, wire, socket, client, left>>
      BY <2>1 DEF Register, Reject
    <3>3. QED BY <2>c, <2>d, <2>e, <3>1, <3>2 DEF Typed
  <2>2. ASSUME NEW t \in Turn, SendTurn(t) PROVE Typed'
    <3>1. TypedTurns' /\ UNCHANGED <<session, wire, socket, client>>
      BY <2>2, <2>b DEF SendTurn, TypedTurns
    <3>2. [type |-> "turn.start", turn |-> t] \in Question
      BY DEF Question
    <3>3. TypedReader'
      BY <2>2, <2>c, <3>2, QueueTypes DEF SendTurn, Send, TypedReader
    <3>4. left' \in [Bounded -> Nat]
      BY <2>2, <2>f, <2>g DEF SendTurn
    <3>5. QED BY <2>a, <2>d, <2>e, <3>1, <3>3, <3>4 DEF Typed
  <2>3. CASE Speak
    <3>1. PICK type \in EventType \ {"session.created"} : Session!Adds(type, current)
      BY <2>3, <2>a, SpeakAdds
    <3>2. current \in Turn
      BY <2>3, <2>a, SpeakAdds
    <3>3. log' \in Seq(Proper) /\ Last(log') \in Proper
      BY <2>a, <3>1, <3>2, AddsType
    <3>a. <<Last(log')>> \in Seq(Proper)
      BY <3>3
    <3>b. TypedSession'
      BY <2>3, <2>a, <3>3, SpeakAdds DEF TypedSession
    <3>4. TypedTurns'
      BY <2>3, <2>a, <2>b, <3>a, SpeakAdds DEF TypedTurns
    <3>5. left' \in [Bounded -> Nat]
      BY <2>3, <2>a, <2>e, <2>f, <2>g, SpeakAdds
    <3>6. QED BY <2>3, <2>a, <2>c, <2>d, <2>e, <3>b, <3>4, <3>5, SpeakAdds DEF Typed
  <2>4. CASE LeaveToCancel \/ LoseLive \/ Leave
    <3>1. TypedSession'
      BY <2>4, <2>a DEF LeaveToCancel, LoseLive, Leave, Session!FallSilent, Session!Leave,
                        TypedSession, session
    <3>2. TypedTurns'
      <4>1. CASE LeaveToCancel
        BY <4>1, <2>b DEF LeaveToCancel
      <4>2. CASE LoseLive
        BY <4>2, <2>b, EmptySeq DEF LoseLive, TypedTurns
      <4>3. CASE Leave
        BY <4>3, <2>b DEF Leave, TypedTurns
      <4>4. QED BY <2>4, <4>1, <4>2, <4>3
    <3>3. UNCHANGED <<reader, wire, socket, client, left>>
      BY <2>4 DEF LeaveToCancel, LoseLive, Leave
    <3>4. QED BY <2>c, <2>d, <2>e, <3>1, <3>2, <3>3 DEF Typed
  <2>5. CASE SendLive
    <3>1. Head(unsent) \in Proper
      BY <2>5, <2>b, SetOfTail DEF SendLive, TypedTurns
    <3>2. SessionEvent(Head(unsent)) \in Message
      BY <3>1 DEF SessionEvent, Message
    <3>3. wire' \in [Conn -> Seq(Message)]
      BY <2>5, <2>e, <3>2, QueueTypes DEF SendLive
    <3>4. TypedTurns' /\ UNCHANGED <<session, reader, socket, client, left>>
      BY <2>5, <2>b DEF SendLive, TypedTurns
    <3>5. QED BY <2>a, <2>c, <2>d, <2>e, <3>3, <3>4 DEF Typed
  <2>6. ASSUME NEW c \in Conn, HandleCreate(c) PROVE Typed'
    <3>1. /\ log' \in Seq(Proper) /\ Len(log') = Len(log) + 1 /\ Len(log) \in Nat
      BY <2>6, <2>a, AddsType DEF HandleCreate, EventType
    <3>2. log'[1] \in Proper
      BY <3>1
    <3>3. SessionReady(1) \in Message /\ SessionEvent(log'[1]) \in Message
      BY <3>2 DEF SessionReady, SessionEvent, Message
    <3>4. <<SessionReady(1), SessionEvent(log'[1])>> \in Seq(Message)
      BY <3>3
    <3>5. inbox' \in [Conn -> Seq(Question)]
      BY <2>6, <2>c, QueueTypes DEF HandleCreate, Handles, TypedReader
    <3>6. out' \in [Conn -> Seq(Message)]
      BY <2>6, <2>c, <3>4, QueueTypes DEF HandleCreate, TypedReader
    <3>7. TypedReader' /\ TypedSession'
      BY <2>6, <2>a, <2>c, <3>1, <3>5, <3>6 DEF HandleCreate, TypedReader, TypedSession
    <3>8. QED BY <2>6, <2>b, <2>d, <2>e, <3>7 DEF HandleCreate, Typed
  <2>7. ASSUME NEW c \in Conn, HandleAttach(c) PROVE Typed'
    <3>1. \A i \in 1..Len(log) : SessionEvent(log[i]) \in Message
      BY <2>a DEF TypedSession, SessionEvent, Message
    <3>2. Events \in Seq(Message) /\ Len(log) \in Nat
      BY <2>a, <3>1, IsASeq DEF Events, TypedSession
    <3>3. SessionReady(Len(log)) \in Message
      BY <3>2 DEF SessionReady, Message
    <3>4. <<SessionReady(Len(log))>> \o Events \in Seq(Message)
      BY <3>2, <3>3
    <3>5. inbox' \in [Conn -> Seq(Question)]
      BY <2>7, <2>c, QueueTypes DEF HandleAttach, Handles, TypedReader
    <3>6. out' \in [Conn -> Seq(Message)]
      BY <2>7, <2>c, <3>4, QueueTypes DEF HandleAttach, TypedReader
    <3>7. TypedReader'
      BY <2>7, <2>c, <3>5, <3>6 DEF HandleAttach, TypedReader
    <3>8. QED BY <2>7, <2>a, <2>b, <2>d, <2>e, <3>7 DEF HandleAttach, Typed
  <2>8. ASSUME NEW c \in Conn, HandleTurnStart(c) PROVE Typed'
    <3> DEFINE t == Head(inbox[c]).turn
    <3>1. inbox' \in [Conn -> Seq(Question)] /\ Head(inbox[c]) \in Question
      BY <2>8, <2>c, QueueTypes DEF HandleTurnStart, Handles, TypedReader
    <3>2. t \in Turn
      BY <2>8, <3>1 DEF HandleTurnStart, Handles, Question
    <3>3. TurnAccepted(t) \in Message
      BY <3>2 DEF TurnAccepted, Message
    <3> HIDE DEF t
    <3>4. wire' \in [Conn -> Seq(Message)]
      <4>1. wire' = wire \/ wire' = [wire EXCEPT ![c] = Append(@, TurnAccepted(t))]
        BY <2>8 DEF HandleTurnStart, t
      <4>2. [wire EXCEPT ![c] = Append(@, TurnAccepted(t))] \in [Conn -> Seq(Message)]
        BY <2>e, <3>3, QueueTypes
      <4>3. QED BY <2>e, <4>1, <4>2
    <3>5. TypedTurns'
      BY <2>8, <2>b DEF HandleTurnStart, TypedTurns, Conn
    <3>6. TypedReader'
      BY <2>8, <2>c, <3>1 DEF HandleTurnStart, TypedReader
    <3>7. QED BY <2>8, <2>a, <2>d, <2>e, <3>4, <3>5, <3>6 DEF HandleTurnStart, Typed
  <2>9. ASSUME NEW c \in Conn, HandleTurnCancel(c) PROVE Typed'
    <3>1. inbox' \in [Conn -> Seq(Question)] /\ Head(inbox[c]) \in Question
      BY <2>9, <2>c, QueueTypes DEF HandleTurnCancel, Handles, TypedReader
    <3>2. Head(inbox[c]).turn \in Turn
      BY <2>9, <3>1 DEF HandleTurnCancel, Handles, Question
    <3>3. TypedSession'
      <4>1. UNCHANGED session \/ Session!AcceptCancel(Head(inbox[c]).turn)
        BY <2>9 DEF HandleTurnCancel
      <4>2. QED BY <2>a, <3>2, <4>1 DEF Session!AcceptCancel, TypedSession
    <3>a. TypedTurns'
      BY <2>9, <2>b DEF HandleTurnCancel, TypedTurns
    <3>4. TypedReader'
      BY <2>9, <2>c, <3>1, <3>2 DEF HandleTurnCancel, TypedReader
    <3>5. QED BY <2>9, <2>d, <2>e, <3>3, <3>a, <3>4 DEF HandleTurnCancel, Typed
  <2>10. ASSUME NEW c \in Conn, Announce(c) PROVE Typed'
    <3>1. cancelling[c] \in Turn
      BY <2>10, <2>c DEF Announce, TypedReader
    <3>2. Session!Adds("turn.cancelled", cancelling[c])
      BY <2>10 DEF Announce, Session!SettleCancel
    <3>3. log' \in Seq(Proper) /\ Last(log') \in Proper
      BY <2>a, <3>1, <3>2, AddsType DEF EventType, TerminalType
    <3>4. SessionEvent(Last(log')) \in Message
      BY <3>3 DEF SessionEvent, Message
    <3>5. out' \in [Conn -> Seq(Message)]
      BY <2>10, <2>c, <3>4, QueueTypes DEF Announce, TypedReader
    <3>6. TypedReader'
      BY <2>10, <2>c, <3>5 DEF Announce, TypedReader
    <3>7. TypedSession'
      BY <2>10, <2>a, <3>1, <3>3 DEF Announce, Session!SettleCancel, TypedSession
    <3>8. QED BY <2>10, <2>b, <2>d, <2>e, <3>6, <3>7 DEF Announce, Typed
  <2>11. ASSUME NEW c \in Conn, SendReply(c) PROVE Typed'
    <3>1. Head(out[c]) \in Message /\ out' \in [Conn -> Seq(Message)]
      BY <2>11, <2>c, QueueTypes DEF SendReply, TypedReader
    <3>2. wire' \in [Conn -> Seq(Message)]
      BY <2>11, <2>e, <3>1, QueueTypes DEF SendReply
    <3>3. TypedReader'
      BY <2>11, <2>c, <3>1 DEF SendReply, TypedReader
    <3>4. QED BY <2>11, <2>a, <2>b, <2>d, <2>e, <3>2, <3>3 DEF SendReply, Typed
  <2>12. ASSUME NEW c \in Conn, SendStray(c) PROVE Typed'
    <3>1. PICK n \in 1..SeenLimit :
            wire' = [wire EXCEPT ![c] = Append(@, SessionEvent(
                        [type |-> "assistant.delta", turn |-> NoTurn, seq |-> n]))]
      BY <2>12 DEF SendStray
    <3>2. n \in Nat
      BY SeenLimitAssumption
    <3>3. [type |-> "assistant.delta", turn |-> NoTurn, seq |-> n] \in Proper
      BY <3>2 DEF Proper, Event, EventType, Starts
    <3>4. SessionEvent([type |-> "assistant.delta", turn |-> NoTurn, seq |-> n]) \in Message
      BY <3>3 DEF SessionEvent, Message
    <3>5. wire' \in [Conn -> Seq(Message)]
      BY <2>e, <3>1, <3>4, QueueTypes
    <3>6. left' \in [Bounded -> Nat]
      BY <2>12, <2>f, <2>g DEF SendStray
    <3>7. QED BY <2>12, <2>a, <2>b, <2>c, <2>d, <2>e, <3>5, <3>6 DEF SendStray, Typed
  <2>13. ASSUME NEW c \in Conn, HangUp(c) PROVE Typed'
    <3>1. TypedReader'
      BY <2>13, <2>c, QueueTypes, EmptySeq DEF HangUp, TypedReader
    <3>2. QED BY <2>13, <2>a, <2>b, <2>d, <2>e, <3>1 DEF HangUp, Typed
  <2>14. ASSUME NEW c \in Conn, OnClose(c) PROVE Typed'
    <3>1. page' \in Page /\ page'.seenSeqs = page.seenSeqs
      BY <2>14, <2>d DEF OnClose, TypedPage, Page, ConnectionStatus
    <3>2. TypedPage'
      BY <2>14, <2>d, <3>1 DEF OnClose, TypedPage, history
    <3>3. socket' \in [Conn -> {"none", "open", "closing", "closed"}]
      BY <2>14, <2>e DEF OnClose
    <3>4. QED BY <2>14, <2>a, <2>b, <2>c, <2>e, <3>2, <3>3 DEF OnClose, Typed
  <2>15. ASSUME NEW c \in Conn, Receive(c) PROVE Typed'
    <3> DEFINE m == Head(wire[c])
    <3>1. m \in Message /\ wire' \in [Conn -> Seq(Message)]
      BY <2>15, <2>e, QueueTypes DEF Receive
    <3>2. page' \in Page /\ Len(page'.seenSeqs) <= SeenLimit
      BY <2>15, <2>d, <3>1, ReduceFacts DEF Receive, TypedPage
    <3>3. told' \in Seq(Nat) /\ shown' \subseteq ToSet(told') /\ strays' \subseteq Nat
      <4>1. CASE m.type # "session.event" \/ Foreign(m)
        <5>1. m.type = "session.event" => m.event.seq \in Nat
          BY <3>1 DEF Message, Proper, Event
        <5>2. UNCHANGED <<told, shown>> /\ strays' \subseteq strays \cup {m.event.seq}
          BY <2>15, <4>1 DEF Receive, Notes, history
        <5>3. m.type # "session.event" => UNCHANGED strays
          BY <2>15 DEF Receive, history
        <5>4. QED BY <2>d, <5>1, <5>2, <5>3 DEF TypedPage
      <4>2. CASE m.type = "session.event" /\ ~Foreign(m)
        <5> DEFINE n == m.event.seq
        <5>1. n \in Nat
          BY <3>1, <4>2 DEF Message, Proper, Event
        <5>2. /\ told' = IF Contains(told, n) THEN told ELSE Append(told, n)
              /\ shown' = IF page' = page THEN shown ELSE shown \cup {n}
              /\ UNCHANGED strays
          BY <2>15, <4>2 DEF Receive, Notes
        <5> HIDE DEF n
        <5>3. told \in Seq(Nat)
          BY <2>d DEF TypedPage
        <5>4. n \in ToSet(told') /\ ToSet(told) \subseteq ToSet(told') /\ told' \in Seq(Nat)
          <6>1. CASE Contains(told, n)
            BY <5>2, <5>3, <6>1 DEF Contains, ToSet
          <6>2. CASE ~Contains(told, n)
            BY <5>1, <5>2, <5>3, <6>2, SetOfAppend
          <6>3. QED BY <6>1, <6>2
        <5>5. QED BY <2>d, <5>2, <5>4 DEF TypedPage
      <4>3. QED BY <4>1, <4>2
    <3>4. TypedPage'
      BY <2>15, <2>d, <3>2, <3>3 DEF Receive, TypedPage
    <3>5. QED BY <2>15, <2>a, <2>b, <2>c, <2>e, <3>1, <3>4 DEF Receive, Typed
  <2>16. CASE Connect
    <3>a. conn' \in 0..MaxConns
      BY <2>16, <2>d, PageSessionAssumption DEF Connect, TypedPage
    <3>1. page' \in Page /\ page'.seenSeqs = page.seenSeqs
      BY <2>16, <2>d DEF Connect, TypedPage, Page, ConnectionStatus
    <3>2. TypedPage'
      BY <2>16, <2>d, <3>a, <3>1 DEF Connect, TypedPage, history
    <3>3. ConnectionReady \in Message
      BY DEF ConnectionReady, Message
    <3>4. <<ConnectionReady>> \in Seq(Message) /\ << >> \in Seq(Message)
      BY <3>3
    <3>5. wire' \in [Conn -> Seq(Message)]
      BY <2>16, <3>4 DEF Connect
    <3>6. socket' \in [Conn -> {"none", "open", "closing", "closed"}]
      BY <2>16, <2>e DEF Connect
    <3>7. left' \in [Bounded -> Nat]
      BY <2>16, <2>f, <2>g DEF Connect
    <3>8. QED BY <2>16, <2>a, <2>b, <2>c, <3>2, <3>5, <3>6, <3>7 DEF Connect, Typed
  <2>17. CASE Drop
    <3>1. wire' \in [Conn -> Seq(Message)]
      BY <2>17, <2>e, QueueTypes, EmptySeq DEF Drop
    <3>2. socket' \in [Conn -> {"none", "open", "closing", "closed"}]
      BY <2>17, <2>e DEF Drop
    <3>3. QED BY <2>17, <2>a, <2>b, <2>c, <2>d, <2>e, <3>1, <3>2 DEF Drop, Typed
  <2>18. CASE CreateSession \/ AttachSession
    <3>1. PICK type \in {"session.create", "session.attach"} : Send([type |-> type])
      BY <2>18 DEF CreateSession, AttachSession
    <3>2. [type |-> type] \in Question
      BY DEF Question
    <3>3. TypedReader'
      BY <2>18, <2>c, <3>1, <3>2, QueueTypes DEF CreateSession, AttachSession, Send, TypedReader
    <3>4. page' \in Page /\ page'.seenSeqs = << >>
      <4>1. NoAnswer \in Answer
        BY DEF NoAnswer, Answer
      <4>2. PICK known \in BOOLEAN : page' = Cleared(page, known)
        BY <2>18 DEF CreateSession, AttachSession
      <4>3. [t \in Turn |-> NoAnswer] \in [Turn -> Answer]
        BY <4>1
      <4>4. page' = [page EXCEPT !.sessionId = known, !.pendingTurnId = NoTurn, !.lastSeq = 0,
                        !.seenSeqs = << >>, !.asked = {}, !.answer = [t \in Turn |-> NoAnswer]]
        BY <4>2 DEF Cleared
      <4>5. page \in Page
        BY <2>d DEF TypedPage
      <4>6. QED BY <4>3, <4>4, <4>5, EmptySeq DEF Page
    <3>5. TypedPage'
      <4>1. told' = << >> /\ shown' = {} /\ strays' = {} /\ conn' = conn
        BY <2>18 DEF CreateSession, AttachSession, Forget
      <4>2. << >> \in Seq(Nat) /\ Len(page'.seenSeqs) <= SeenLimit
        BY <3>4, EmptySeq, SeenLimitAssumption
      <4>3. QED BY <2>d, <3>4, <4>1, <4>2 DEF TypedPage
    <3>6. left' \in [Bounded -> Nat]
      BY <2>18, <2>e, <2>f, <2>g DEF CreateSession, AttachSession
    <3>7. QED BY <2>18, <2>a, <2>b, <2>e, <3>3, <3>5, <3>6 DEF CreateSession, AttachSession, Typed
  <2>19. CASE CancelTurn
    <3>1. page.pendingTurnId \in Turn
      BY <2>19, <2>d DEF CancelTurn, TypedPage, Page
    <3>2. [type |-> "turn.cancel", turn |-> page.pendingTurnId] \in Question
      BY <3>1 DEF Question
    <3>3. TypedReader'
      BY <2>19, <2>c, <3>2, QueueTypes DEF CancelTurn, Send, TypedReader
    <3>4. left' \in [Bounded -> Nat]
      BY <2>19, <2>f, <2>g DEF CancelTurn
    <3>5. QED BY <2>19, <2>a, <2>b, <2>d, <2>e, <3>3, <3>4 DEF CancelTurn, Typed
  <2>20. CASE UNCHANGED vars
    BY <2>20, <2>a, <2>b, <2>c, <2>d, <2>e DEF vars, Typed
  <2>21. QED
    BY <2>1, <2>2, <2>3, <2>4, <2>5, <2>6, <2>7, <2>8, <2>9, <2>10, <2>11, <2>12, <2>13, <2>14,
       <2>15, <2>16, <2>17, <2>18, <2>19, <2>20 DEF Next
<1>3. QED
  BY <1>1, <1>2, PTL DEF Spec

\* The variables have their types, and the page never remembers more than it may.
THEOREM TypeCorrect == Spec => []TypeOK
<1>1. Typed => TypeOK
  <2>1. Proper \subseteq Event
    BY DEF Proper
  <2>2. Seq(Proper) \subseteq Seq(Event)
    BY <2>1, SeqMonotonic
  <2>3. QED
    BY <2>2 DEF Typed, TypedSession, TypedTurns, TypedReader, TypedPage, TypeOK
<1>2. QED
  BY <1>1, TypedHolds, PTL

-----------------------------------------------------------------------------
(* Connections *)

\* Only the latest connection is open, messages wait only for an open one, and what has
\* not been opened yet is untouched.
SocketAt(c) ==
    /\ socket[c] = "open" => c = conn
    /\ socket[c] # "open" => wire[c] = << >>
    /\ c > conn => /\ socket[c] = "none" /\ ~attached[c] /\ inbox[c] = << >>
                   /\ out[c] = << >> /\ cancelling[c] = NoTurn
Sockets == \A c \in Conn : SocketAt(c)

LEMMA SocketsHold == Spec => []Sockets
<1>1. Init => Sockets
  BY DEF Init, Sockets, SocketAt
<1>2. Typed /\ Sockets /\ [Next]_vars => Sockets'
  <2> SUFFICES ASSUME Typed, Sockets, [Next]_vars, NEW d \in Conn PROVE SocketAt(d)'
    BY DEF Sockets
  <2>a. SocketAt(d) /\ \A c \in Conn : SocketAt(c)
    BY DEF Sockets
  <2>b. /\ inbox \in [Conn -> Seq(Question)] /\ out \in [Conn -> Seq(Message)]
        /\ wire \in [Conn -> Seq(Message)] /\ DOMAIN socket = Conn /\ DOMAIN attached = Conn
        /\ DOMAIN cancelling = Conn /\ conn \in 0..MaxConns /\ d \in 1..MaxConns
        /\ Conn = 1..MaxConns
    BY DEF Typed, TypedReader, TypedPage, Conn
  <2>1. ASSUME UNCHANGED <<reader, wire, socket, conn>> PROVE SocketAt(d)'
    BY <2>1, <2>a DEF SocketAt, reader
  <2>2. ASSUME UNCHANGED <<reader, socket, conn>>,
               NEW c, NEW m, socket[c] = "open", wire' = [wire EXCEPT ![c] = Append(@, m)]
        PROVE  SocketAt(d)'
    BY <2>2, <2>a, <2>b DEF SocketAt, reader
  <2>3. ASSUME NEW t \in Turn, Register(t) \/ Reject(t) PROVE SocketAt(d)'
    BY <2>1, <2>3 DEF Register, Reject, client
  <2>4. CASE Speak \/ LeaveToCancel \/ LoseLive \/ Leave \/ UNCHANGED vars
    BY <2>1, <2>4 DEF Speak, LeaveToCancel, LoseLive, Leave, vars, client
  <2>5. CASE SendLive
    BY <2>2, <2>5 DEF SendLive, client
  <2>6. ASSUME NEW c \in Conn, SendStray(c) PROVE SocketAt(d)'
    BY <2>2, <2>6 DEF SendStray, client
  <2>7. ASSUME NEW c \in Conn, c <= conn, inbox'[d] = inbox[d] \/ d = c,
               attached'[d] = attached[d] \/ d = c, out'[d] = out[d] \/ d = c,
               cancelling'[d] = cancelling[d] \/ d = c, UNCHANGED <<socket, conn>>,
               wire'[d] = wire[d] \/ socket[d] = "open"
        PROVE  SocketAt(d)'
    BY <2>7, <2>a, <2>b DEF SocketAt
  <2>8. ASSUME NEW c \in Conn, inbox[c] # << >> \/ out[c] # << >> \/ cancelling[c] # NoTurn
        PROVE  c <= conn
    BY <2>8, <2>a, <2>b DEF SocketAt
  <2>9. ASSUME NEW c \in Conn, HandleCreate(c) \/ HandleAttach(c) PROVE SocketAt(d)'
    BY <2>b, <2>7, <2>8, <2>9 DEF HandleCreate, HandleAttach, Handles, client
  <2>10. ASSUME NEW c \in Conn, HandleTurnStart(c) \/ HandleTurnCancel(c) PROVE SocketAt(d)'
    BY <2>b, <2>7, <2>8, <2>10 DEF HandleTurnStart, HandleTurnCancel, Handles, client
  <2>11. ASSUME NEW c \in Conn, Announce(c) \/ SendReply(c) \/ HangUp(c) PROVE SocketAt(d)'
    BY <2>b, <2>7, <2>8, <2>11 DEF Announce, SendReply, HangUp, client
  <2>12. ASSUME NEW c \in Conn, OnClose(c) PROVE SocketAt(d)'
    BY <2>12, <2>a, <2>b DEF OnClose, SocketAt, reader
  <2>13. ASSUME NEW c \in Conn, Receive(c) PROVE SocketAt(d)'
    BY <2>13, <2>a, <2>b DEF Receive, SocketAt, reader
  <2>14. CASE Connect
    BY <2>14, <2>a, <2>b DEF Connect, SocketAt, reader
  <2>15. CASE Drop
    BY <2>15, <2>a, <2>b DEF Drop, Open, SocketAt, reader, client
  <2>16. CASE CreateSession \/ AttachSession \/ CancelTurn
    <3>1. PICK m : Send(m)
      BY <2>16 DEF CreateSession, AttachSession, CancelTurn
    <3>2. UNCHANGED <<attached, out, cancelling, wire, socket, conn>>
      BY <2>16 DEF CreateSession, AttachSession, CancelTurn, client
    <3>3. QED BY <2>a, <2>b, <3>1, <3>2 DEF Send, SocketAt
  <2>17. ASSUME NEW t \in Turn, SendTurn(t) PROVE SocketAt(d)'
    BY <2>17, <2>a, <2>b DEF SendTurn, Send, SocketAt, client
  <2>18. QED
    BY <2>3, <2>4, <2>5, <2>6, <2>9, <2>10, <2>11, <2>12, <2>13, <2>14, <2>15, <2>16, <2>17
       DEF Next
<1>3. QED
  BY <1>1, <1>2, TypedHolds, PTL DEF Spec

\* What the page asks.
Asks(m) ==
    /\ m \in Question
    /\ m.type = "session.create" => log = << >>
    /\ m.type = "turn.start" => SendTurn(m.turn)
    /\ m.type = "turn.cancel" => m.turn = page.pendingTurnId

LEMMA InboxSteps ==
    ASSUME Typed, [Next]_vars, NEW c \in Conn
    PROVE  \/ inbox'[c] = inbox[c]
           \/ /\ inbox[c] # << >> /\ inbox'[c] = Tail(inbox[c])
              /\ Head(inbox[c]).type = "session.attach" => HandleAttach(c)
           \/ inbox'[c] = << >> /\ socket[c] # "open"
           \/ c = conn /\ \E m : Asks(m) /\ inbox'[c] = Append(inbox[c], m)
<1>1. c \in DOMAIN inbox /\ inbox \in [Conn -> Seq(Question)]
  BY DEF Typed, TypedReader
<1>2. ASSUME NEW d \in Conn, NEW type, Handles(d, type)
      PROVE  \/ inbox'[c] = inbox[c]
             \/ c = d /\ inbox[c] # << >> /\ inbox'[c] = Tail(inbox[c]) /\ Head(inbox[c]).type = type
  BY <1>1, <1>2 DEF Handles
<1>3. ASSUME NEW m, Asks(m), Send(m)
      PROVE  \/ inbox'[c] = inbox[c]
             \/ c = conn /\ \E q : Asks(q) /\ inbox'[c] = Append(inbox[c], q)
  BY <1>1, <1>3 DEF Send
<1>4. ASSUME NEW d \in Conn, HandleCreate(d) \/ HandleAttach(d) \/ HandleTurnStart(d)
                             \/ HandleTurnCancel(d)
      PROVE  \/ inbox'[c] = inbox[c]
             \/ /\ inbox[c] # << >> /\ inbox'[c] = Tail(inbox[c])
                /\ Head(inbox[c]).type = "session.attach" => HandleAttach(c)
  <2>1. PICK type : Handles(d, type) /\ (type = "session.attach" => HandleAttach(d))
    BY <1>4 DEF HandleCreate, HandleAttach, HandleTurnStart, HandleTurnCancel
  <2>2. QED BY <1>2, <2>1
<1>5. ASSUME NEW d \in Conn, HangUp(d)
      PROVE  inbox'[c] = inbox[c] \/ (inbox'[c] = << >> /\ socket[c] # "open")
  BY <1>1, <1>5 DEF HangUp
<1>6. ASSUME NEW t \in Turn, SendTurn(t) PROVE \E m : Asks(m) /\ Send(m)
  <2>1. Asks([type |-> "turn.start", turn |-> t])
    BY <1>6 DEF Asks, Question
  <2>2. QED BY <1>6, <2>1 DEF SendTurn
<1>7. CASE CreateSession \/ AttachSession
  <2>1. CreateSession => Asks([type |-> "session.create"])
    BY DEF CreateSession, Asks, Question
  <2>2. Asks([type |-> "session.attach"])
    BY DEF Asks, Question
  <2>3. \E m : Asks(m) /\ Send(m)
    BY <1>7, <2>1, <2>2 DEF CreateSession, AttachSession
  <2>4. QED BY <1>3, <2>3
<1>8. CASE CancelTurn
  <2>1. page.pendingTurnId \in Turn
    BY <1>8 DEF CancelTurn, Typed, TypedPage, Page
  <2>2. Asks([type |-> "turn.cancel", turn |-> page.pendingTurnId])
    BY <2>1 DEF Asks, Question
  <2>3. QED BY <1>3, <1>8, <2>2 DEF CancelTurn
<1>9. ASSUME NEW t \in Turn, Register(t) \/ Reject(t) PROVE UNCHANGED inbox
  BY <1>9 DEF Register, Reject, reader
<1>10. ASSUME Speak \/ LeaveToCancel \/ SendLive \/ LoseLive \/ Leave \/ Connect \/ Drop
              \/ UNCHANGED vars
       PROVE  UNCHANGED inbox
  BY <1>10 DEF Speak, LeaveToCancel, SendLive, LoseLive, Leave, Connect, Drop, vars, reader
<1>11. ASSUME NEW d \in Conn, Announce(d) \/ SendReply(d) \/ SendStray(d) \/ OnClose(d)
                              \/ Receive(d)
       PROVE  UNCHANGED inbox
  BY <1>11 DEF Announce, SendReply, SendStray, OnClose, Receive, reader
<1>12. QED
  BY <1>3, <1>4, <1>5, <1>6, <1>7, <1>8, <1>9, <1>10, <1>11 DEF Next

\* Nothing in the log changes but that one event is added at its end.
Adding(type, t) ==
    /\ log' \in Seq(Proper) /\ Len(log') = Len(log) + 1 /\ Len(log) \in Nat
    /\ \A i \in 1..Len(log) : log'[i] = log[i]
    /\ Last(log') = log'[Len(log')] /\ Last(log') \in Proper
    /\ log'[Len(log) + 1] = [type |-> type, turn |-> t, seq |-> Len(log) + 1]

LEMMA LogSteps ==
    ASSUME Typed, [Next]_vars
    PROVE  \/ UNCHANGED log
           \/ \E c \in Conn : HandleCreate(c) /\ Adding("session.created", NoTurn)
           \/ \E type \in EventType \ {"session.created"} :
                Speak /\ current \in Turn /\ Adding(type, current)
           \/ \E c \in Conn : /\ Announce(c) /\ cancelling[c] \in Turn
                              /\ Adding("turn.cancelled", cancelling[c])
<1>a. TypedSession /\ TypedReader
  BY DEF Typed
<1>1. ASSUME NEW c \in Conn, HandleCreate(c) PROVE Adding("session.created", NoTurn)
  BY <1>1, <1>a, AddsType DEF HandleCreate, EventType, Adding
<1>2. ASSUME Speak
      PROVE  \E type \in EventType \ {"session.created"} :
                Speak /\ current \in Turn /\ Adding(type, current)
  <2>1. PICK type \in EventType \ {"session.created"} : Session!Adds(type, current)
    BY <1>2, <1>a, SpeakAdds
  <2>2. current \in Turn
    BY <1>2, <1>a, SpeakAdds
  <2>3. QED BY <1>2, <1>a, <2>1, <2>2, AddsType DEF Adding
<1>3. ASSUME NEW c \in Conn, Announce(c)
      PROVE  cancelling[c] \in Turn /\ Adding("turn.cancelled", cancelling[c])
  <2>1. cancelling[c] \in Turn
    BY <1>3, <1>a DEF Announce, TypedReader
  <2>2. Session!Adds("turn.cancelled", cancelling[c])
    BY <1>3 DEF Announce, Session!SettleCancel
  <2>3. QED BY <1>a, <2>1, <2>2, AddsType DEF Adding, EventType, TerminalType
<1>4. ASSUME NEW t \in Turn, Register(t) \/ Reject(t) \/ SendTurn(t) PROVE UNCHANGED log
  BY <1>4 DEF Register, Reject, SendTurn, Session!Take, session
<1>5. ASSUME LeaveToCancel \/ SendLive \/ LoseLive \/ Leave \/ Connect \/ Drop \/ CreateSession
             \/ AttachSession \/ CancelTurn \/ UNCHANGED vars
      PROVE  UNCHANGED log
  BY <1>5 DEF LeaveToCancel, SendLive, LoseLive, Leave, Connect, Drop, CreateSession,
              AttachSession, CancelTurn, vars, session, Session!FallSilent, Session!Leave
<1>6. ASSUME NEW c \in Conn, HandleAttach(c) \/ HandleTurnStart(c) \/ HandleTurnCancel(c)
                \/ SendReply(c) \/ SendStray(c) \/ HangUp(c) \/ OnClose(c) \/ Receive(c)
      PROVE  UNCHANGED log
  BY <1>6 DEF HandleAttach, HandleTurnStart, HandleTurnCancel, SendReply, SendStray, HangUp,
              OnClose, Receive, session, Session!AcceptCancel
<1>7. QED
  BY <1>1, <1>2, <1>3, <1>4, <1>5, <1>6 DEF Next

\* Before the session is created nothing asks for anything else, and only once.
Untouched ==
    /\ ~page.sessionId /\ current = NoTurn /\ phase = "none" /\ unsent = << >>
    /\ \A t \in Turn : stage[t] = "new"
    /\ \A c \in Conn :
        /\ ~attached[c] /\ out[c] = << >> /\ cancelling[c] = NoTurn
        /\ \A m \in ToSet(wire[c]) : m.type \in {"connection.ready", "session.event"}
        /\ inbox[c] \in {<< >>, <<[type |-> "session.create"]>>}
        /\ \A d \in Conn : inbox[c] # << >> /\ inbox[d] # << >> => c = d

Beginning ==
    /\ log = << >> => Untouched
    /\ log # << >> =>
        \A c \in Conn : \A m \in ToSet(inbox[c]) : m.type # "session.create"

LEMMA BeginningHolds == Spec => []Beginning
<1>1. Init => Beginning
  BY SetOfEmpty DEF Init, Session!Init, Beginning, Untouched, InitPage
<1>2. Typed /\ Beginning /\ [Next]_vars => Beginning'
  <2> SUFFICES ASSUME Typed, Beginning, [Next]_vars PROVE Beginning'
    OBVIOUS
  <2>1. ASSUME log # << >> PROVE Beginning'
    <3>1. log' # << >>
      <4>1. log \in Seq(Proper) /\ Len(log) \in Nat /\ Len(log) > 0
        BY <2>1 DEF Typed, TypedSession
      <4>2. Len(log') > 0
        <5>1. Len(log') = Len(log) \/ Len(log') = Len(log) + 1
          BY LogSteps DEF Adding
        <5>2. QED BY <4>1, <5>1
      <4>3. QED BY <4>2
    <3>2. ASSUME NEW c \in Conn, NEW m \in ToSet(inbox'[c]) PROVE m.type # "session.create"
      <4>1. inbox[c] \in Seq(Question) /\ \A q \in ToSet(inbox[c]) : q.type # "session.create"
        BY <2>1 DEF Beginning, Typed, TypedReader
      <4>2. CASE inbox'[c] = inbox[c] \/ inbox'[c] = << >>
        BY <3>2, <4>1, <4>2, SetOfEmpty
      <4>3. CASE inbox[c] # << >> /\ inbox'[c] = Tail(inbox[c])
        BY <3>2, <4>1, <4>3, SetOfTail
      <4>4. CASE \E q : Asks(q) /\ inbox'[c] = Append(inbox[c], q)
        BY <2>1, <3>2, <4>1, <4>4, SetOfAppend DEF Asks
      <4>5. QED BY <4>2, <4>3, <4>4, InboxSteps
    <3>3. QED BY <3>1, <3>2 DEF Beginning
  <2>2. ASSUME log = << >>, log' # log PROVE Beginning'
    <3>1. Untouched
      BY <2>2 DEF Beginning
    <3>2. PICK c \in Conn : HandleCreate(c) /\ Adding("session.created", NoTurn)
      BY <2>2, <3>1, LogSteps, NoTurnAssumption DEF Untouched, Announce
    <3>3. log' # << >>
      BY <2>2
    <3>4. inbox[c] = <<[type |-> "session.create"]>>
      BY <3>1, <3>2 DEF Untouched, HandleCreate, Handles
    <3>5. \A d \in Conn : d # c => inbox[d] = << >>
      BY <3>1, <3>4 DEF Untouched
    <3>6. inbox' = [inbox EXCEPT ![c] = Tail(@)]
      BY <3>2 DEF HandleCreate, Handles
    <3>7. \A d \in Conn : inbox'[d] = << >>
      BY <3>4, <3>5, <3>6 DEF Typed, TypedReader
    <3>8. QED BY <3>3, <3>7, SetOfEmpty DEF Beginning
  <2>3. ASSUME log = << >>, log' = log PROVE Untouched'
    <3> USE DEF Untouched
    <3>1. Untouched
      BY <2>3 DEF Beginning
    <3>2. \A c \in Conn : inbox[c] # << >> => Head(inbox[c]).type = "session.create"
      BY <3>1
    <3>3. ASSUME NEW c \in Conn, SendStray(c) PROVE Untouched'
      <4>1. PICK m : wire' = [wire EXCEPT ![c] = Append(@, m)] /\ m.type = "session.event"
        <5>1. PICK n \in 1..SeenLimit :
                wire' = [wire EXCEPT ![c] = Append(@, SessionEvent(
                            [type |-> "assistant.delta", turn |-> NoTurn, seq |-> n]))]
          BY <3>3 DEF SendStray
        <5>2. SessionEvent([type |-> "assistant.delta", turn |-> NoTurn, seq |-> n]).type
                = "session.event"
          BY DEF SessionEvent
        <5>3. QED BY <5>1, <5>2
      <4>2. \A d \in Conn : ToSet(wire'[d]) \subseteq ToSet(wire[d]) \cup {m}
        BY <4>1, SetOfAppend DEF Typed
      <4>3. QED BY <3>1, <3>3, <4>1, <4>2 DEF SendStray, session, turns, reader, client
    <3>4. ASSUME NEW c \in Conn, HangUp(c) PROVE Untouched'
      <4>1. \A d \in Conn : inbox'[d] = inbox[d] \/ inbox'[d] = << >>
        BY <3>4 DEF HangUp, Typed, TypedReader
      <4>2. QED BY <3>1, <3>4, <4>1 DEF HangUp, session, turns, client
    <3>5. ASSUME NEW c \in Conn, OnClose(c) PROVE Untouched'
      <4>1. page'.sessionId = page.sessionId
        BY <3>5 DEF OnClose, Typed, TypedPage, Page
      <4>2. QED BY <3>1, <3>5, <4>1 DEF OnClose, session, turns, reader
    <3>6. ASSUME NEW c \in Conn, Receive(c) PROVE Untouched'
      <4> DEFINE m == Head(wire[c])
      <4>1. wire[c] \in Seq(Message) /\ wire[c] # << >> /\ wire \in [Conn -> Seq(Message)]
        BY <3>6 DEF Receive, Typed
      <4>2. m \in Message /\ m \in ToSet(wire[c]) /\ ToSet(Tail(wire[c])) \subseteq ToSet(wire[c])
        BY <4>1, SetOfTail
      <4>3. m.type \in {"connection.ready", "session.event"}
        BY <3>1, <4>2
      <4>4. Reduce(page, m).sessionId = page.sessionId
        <5>1. page \in Page /\ Len(page.seenSeqs) <= SeenLimit
          BY DEF Typed, TypedPage
        <5>2. CASE m.type = "connection.ready"
          BY <5>1, <5>2 DEF Reduce, Page
        <5>3. CASE m.type = "session.event"
          <6>1. m.event \in Proper
            BY <4>2, <5>3 DEF Message
          <6>2. Reduce(page, m) = ReduceEvent(page, m.event)
            BY <5>3 DEF Reduce
          <6>3. CASE Seen(page, m.event)
            BY <6>2, <6>3 DEF ReduceEvent
          <6>4. CASE ~Seen(page, m.event)
            <7>1. ReduceEvent(page, m.event).sessionId = page.sessionId
              BY <5>1, <6>1, <6>4, NewEvent
            <7>2. QED BY <6>2, <7>1
          <6>5. QED BY <6>3, <6>4
        <5>4. QED BY <4>3, <5>2, <5>3
      <4>5. \A d \in Conn : ToSet(wire'[d]) \subseteq ToSet(wire[d])
        BY <3>6, <4>1, <4>2 DEF Receive
      <4> HIDE DEF m
      <4>6. page'.sessionId = page.sessionId
        BY <3>6, <4>4 DEF Receive, m
      <4>7. QED BY <3>1, <3>6, <4>5, <4>6 DEF Receive, session, turns, reader
    <3>7. CASE Connect
      <4>1. \A d \in Conn : wire'[d] = <<ConnectionReady>> \/ wire'[d] = << >>
        BY <3>7 DEF Connect
      <4>2. \A d \in Conn : ToSet(wire'[d]) \subseteq {ConnectionReady}
        BY <4>1, SetOfEmpty, SetOfOne
      <4>3. page'.sessionId = page.sessionId
        BY <3>7 DEF Connect, Typed, TypedPage, Page
      <4>4. QED BY <3>1, <3>7, <4>2, <4>3 DEF Connect, ConnectionReady, session, turns, reader
    <3>8. CASE Drop
      <4>1. \A d \in Conn : wire'[d] = wire[d] \/ wire'[d] = << >>
        BY <3>8 DEF Drop, Typed
      <4>2. QED BY <3>1, <3>8, <4>1, SetOfEmpty DEF Drop, session, turns, reader, client
    <3>9. CASE CreateSession
      <4>1. \/ UNCHANGED inbox
            \/ inbox' = [inbox EXCEPT ![conn] = Append(@, [type |-> "session.create"])]
        BY <3>9 DEF CreateSession, Send
      <4>2. \A d \in Conn : inbox[d] = << >>
        BY <3>9 DEF CreateSession
      <4>3. \/ UNCHANGED inbox
            \/ \A d \in Conn :
                inbox'[d] = IF d = conn THEN <<[type |-> "session.create"]>> ELSE << >>
        <5>1. Append(<< >>, [type |-> "session.create"]) = <<[type |-> "session.create"]>>
          OBVIOUS
        <5>2. QED BY <4>1, <4>2, <5>1 DEF Typed, TypedReader
      <4>4. ~page'.sessionId
        BY <3>9 DEF CreateSession, Cleared, Typed, TypedPage, Page
      <4>5. QED BY <3>1, <3>9, <4>3, <4>4 DEF CreateSession, session, turns
    <3>10. ASSUME NEW t \in Turn PROVE ~Register(t) /\ ~Reject(t) /\ ~SendTurn(t)
      BY <3>1 DEF Register, Reject, SendTurn
    <3>11. ~Speak /\ ~SendLive /\ ~LoseLive /\ ~AttachSession /\ ~CancelTurn
      BY <2>3, <3>1 DEF Speak, SendLive, LoseLive, AttachSession, CancelTurn, Session!Says,
                        Session!Streams
    <3>12. ~LeaveToCancel /\ ~Leave
      BY <3>1 DEF LeaveToCancel, Leave, Session!Leave
    <3>13. ASSUME NEW c \in Conn
           PROVE  /\ ~HandleCreate(c) /\ ~HandleAttach(c) /\ ~HandleTurnStart(c)
                  /\ ~HandleTurnCancel(c) /\ ~Announce(c) /\ ~SendReply(c)
      <4>1. ~HandleAttach(c) /\ ~HandleTurnStart(c) /\ ~HandleTurnCancel(c)
        BY <3>2 DEF HandleAttach, HandleTurnStart, HandleTurnCancel, Handles
      <4>2. ~Announce(c) /\ ~SendReply(c)
        BY <3>1 DEF Announce, SendReply
      <4>3. ~HandleCreate(c)
        <5>1. HandleCreate(c) => Len(log') = Len(log) + 1 /\ Len(log) \in Nat
          BY AddsType DEF HandleCreate, Typed, EventType
        <5>2. QED BY <2>3, <5>1
      <4>4. QED BY <4>1, <4>2, <4>3
    <3>14. CASE UNCHANGED vars
      BY <3>1, <3>14 DEF vars, session, turns, reader, client
    <3>15. QED
      BY <3>3, <3>4, <3>5, <3>6, <3>7, <3>8, <3>9, <3>10, <3>11, <3>12, <3>13, <3>14 DEF Next
  <2>4. QED
    BY <2>1, <2>2, <2>3 DEF Beginning
<1>3. QED
  BY <1>1, <1>2, TypedHolds, PTL DEF Spec

\* A connection takes part in the session once it has created or attached it.
LEMMA AttachedSteps ==
    ASSUME Typed, [Next]_vars, NEW c \in Conn
    PROVE  \/ attached'[c] = attached[c]
           \/ HandleCreate(c) \/ HandleAttach(c)
<1>1. DOMAIN attached = Conn
  BY DEF Typed, TypedReader
<1>2. ASSUME NEW d \in Conn, HandleCreate(d) \/ HandleAttach(d), c # d
      PROVE  attached'[c] = attached[c]
  BY <1>1, <1>2 DEF HandleCreate, HandleAttach
<1>3. ASSUME NEW t \in Turn, Register(t) \/ Reject(t) \/ SendTurn(t) PROVE UNCHANGED attached
  BY <1>3 DEF Register, Reject, SendTurn, reader
<1>4. ASSUME Speak \/ LeaveToCancel \/ SendLive \/ LoseLive \/ Leave \/ Connect \/ Drop
             \/ CreateSession \/ AttachSession \/ CancelTurn \/ UNCHANGED vars
      PROVE  UNCHANGED attached
  BY <1>4 DEF Speak, LeaveToCancel, SendLive, LoseLive, Leave, Connect, Drop, CreateSession,
              AttachSession, CancelTurn, vars, reader
<1>5. ASSUME NEW d \in Conn, HandleTurnStart(d) \/ HandleTurnCancel(d) \/ Announce(d)
                \/ SendReply(d) \/ SendStray(d) \/ HangUp(d) \/ OnClose(d) \/ Receive(d)
      PROVE  UNCHANGED attached
  BY <1>5 DEF HandleTurnStart, HandleTurnCancel, Announce, SendReply, SendStray, HangUp, OnClose,
              Receive, reader
<1>6. QED
  BY <1>2, <1>3, <1>4, <1>5 DEF Next

\* What the readers have yet to send.
LEMMA OutSteps ==
    ASSUME Typed, [Next]_vars, NEW c \in Conn
    PROVE  \/ out'[c] = out[c]
           \/ SendReply(c) /\ out[c] # << >> /\ out'[c] = Tail(out[c])
           \/ /\ HandleCreate(c) /\ out[c] = << >>
              /\ out'[c] = <<SessionReady(1), SessionEvent(log'[1])>>
           \/ HandleAttach(c) /\ out[c] = << >> /\ out'[c] = <<SessionReady(Len(log))>> \o Events
           \/ Announce(c) /\ out'[c] = <<SessionEvent(Last(log'))>>
<1>1. out \in [Conn -> Seq(Message)]
  BY DEF Typed, TypedReader
<1>2. ASSUME NEW d \in Conn, HandleCreate(d) \/ HandleAttach(d) \/ Announce(d) \/ SendReply(d)
      PROVE  c # d => out'[c] = out[c]
  BY <1>1, <1>2 DEF HandleCreate, HandleAttach, Announce, SendReply
<1>3. CASE HandleCreate(c)
  BY <1>1, <1>3 DEF HandleCreate, Handles
<1>4. CASE HandleAttach(c)
  BY <1>1, <1>4 DEF HandleAttach, Handles
<1>5. CASE Announce(c)
  BY <1>1, <1>5 DEF Announce
<1>6. CASE SendReply(c)
  BY <1>1, <1>6 DEF SendReply
<1>7. ASSUME NEW t \in Turn, Register(t) \/ Reject(t) \/ SendTurn(t) PROVE UNCHANGED out
  BY <1>7 DEF Register, Reject, SendTurn, reader
<1>8. ASSUME Speak \/ LeaveToCancel \/ SendLive \/ LoseLive \/ Leave \/ Connect \/ Drop
             \/ CreateSession \/ AttachSession \/ CancelTurn \/ UNCHANGED vars
      PROVE  UNCHANGED out
  BY <1>8 DEF Speak, LeaveToCancel, SendLive, LoseLive, Leave, Connect, Drop, CreateSession,
              AttachSession, CancelTurn, vars, reader
<1>9. ASSUME NEW d \in Conn, HandleTurnStart(d) \/ HandleTurnCancel(d) \/ SendStray(d)
                             \/ HangUp(d) \/ OnClose(d) \/ Receive(d)
      PROVE  UNCHANGED out
  BY <1>9 DEF HandleTurnStart, HandleTurnCancel, SendStray, HangUp, OnClose, Receive, reader
<1>10. QED
  BY <1>2, <1>3, <1>4, <1>5, <1>6, <1>7, <1>8, <1>9 DEF Next

\* The event of another session with number n.
Stray(n) == SessionEvent([type |-> "assistant.delta", turn |-> NoTurn, seq |-> n])

\* What is on the way to the page.
LEMMA WireSteps ==
    ASSUME Typed, [Next]_vars, NEW c \in Conn
    PROVE  \/ wire'[c] = wire[c]
           \/ Receive(c) /\ wire[c] # << >> /\ wire'[c] = Tail(wire[c])
           \/ Drop /\ c = conn /\ wire'[c] = << >>
           \/ Connect /\ c # conn' /\ wire'[c] = << >>
           \/ Connect /\ c = conn' /\ wire'[c] = <<ConnectionReady>>
           \/ /\ SendReply(c) /\ out[c] # << >> /\ socket[c] = "open"
              /\ wire'[c] = Append(wire[c], Head(out[c]))
           \/ /\ SendLive /\ c = home[current] /\ unsent # << >> /\ socket[c] = "open"
              /\ wire'[c] = Append(wire[c], SessionEvent(Head(unsent)))
           \/ /\ HandleTurnStart(c) /\ attached[c] /\ inbox[c] # << >> /\ socket[c] = "open"
              /\ Head(inbox[c]).type = "turn.start"
              /\ wire'[c] = Append(wire[c], TurnAccepted(Head(inbox[c]).turn))
           \/ /\ SendStray(c) /\ socket[c] = "open"
              /\ \E n \in 1..SeenLimit : wire'[c] = Append(wire[c], Stray(n))
<1>1. wire \in [Conn -> Seq(Message)]
  BY DEF Typed
<1>2. ASSUME NEW d \in Conn, Receive(d) \/ SendReply(d) \/ HandleTurnStart(d) \/ SendStray(d)
      PROVE  c # d => wire'[c] = wire[c]
  BY <1>1, <1>2 DEF Receive, SendReply, HandleTurnStart, SendStray
<1>3. CASE Receive(c)
  BY <1>1, <1>3 DEF Receive
<1>4. CASE SendReply(c)
  BY <1>1, <1>4 DEF SendReply
<1>5. CASE HandleTurnStart(c)
  BY <1>1, <1>5 DEF HandleTurnStart, Handles
<1>6. CASE SendStray(c)
  BY <1>1, <1>6 DEF SendStray, Stray
<1>7. CASE SendLive
  BY <1>1, <1>7 DEF SendLive
<1>8. CASE Connect
  BY <1>8 DEF Connect
<1>9. CASE Drop
  BY <1>1, <1>9 DEF Drop
<1>10. ASSUME NEW t \in Turn, Register(t) \/ Reject(t) \/ SendTurn(t) PROVE UNCHANGED wire
  BY <1>10 DEF Register, Reject, SendTurn
<1>11. ASSUME Speak \/ LeaveToCancel \/ LoseLive \/ Leave \/ CreateSession \/ AttachSession
              \/ CancelTurn \/ UNCHANGED vars
       PROVE  UNCHANGED wire
  BY <1>11 DEF Speak, LeaveToCancel, LoseLive, Leave, CreateSession, AttachSession, CancelTurn,
               vars
<1>12. ASSUME NEW d \in Conn, HandleCreate(d) \/ HandleAttach(d) \/ HandleTurnCancel(d)
                              \/ Announce(d) \/ HangUp(d) \/ OnClose(d)
       PROVE  UNCHANGED wire
  BY <1>12 DEF HandleCreate, HandleAttach, HandleTurnCancel, Announce, HangUp, OnClose
<1>13. QED
  BY <1>2, <1>3, <1>4, <1>5, <1>6, <1>7, <1>8, <1>9, <1>10, <1>11, <1>12 DEF Next

\* What the turn that holds the session has yet to send.
LEMMA UnsentSteps ==
    ASSUME Typed, [Next]_vars
    PROVE  \/ UNCHANGED unsent /\ (UNCHANGED current \/ current = NoTurn \/ unsent = << >>)
           \/ Speak /\ UNCHANGED current /\ unsent = << >> /\ unsent' = <<Last(log')>>
           \/ (SendLive \/ LoseLive) /\ unsent # << >> /\ unsent' = << >>
<1>1. CASE Speak
  BY <1>1, SpeakAdds DEF Typed
<1>2. CASE SendLive \/ LoseLive
  BY <1>2 DEF SendLive, LoseLive
<1>3. ASSUME NEW t \in Turn, Register(t) \/ Reject(t) \/ SendTurn(t)
      PROVE  UNCHANGED unsent /\ (UNCHANGED current \/ current = NoTurn)
  BY <1>3 DEF Register, Reject, SendTurn, Session!Take, session
<1>4. CASE Leave \/ LeaveToCancel
  BY <1>4 DEF Leave, LeaveToCancel, turns
<1>5. ASSUME Connect \/ Drop \/ CreateSession \/ AttachSession \/ CancelTurn \/ UNCHANGED vars
      PROVE  UNCHANGED <<unsent, current>>
  BY <1>5 DEF Connect, Drop, CreateSession, AttachSession, CancelTurn, vars, turns, session
<1>6. ASSUME NEW c \in Conn, HandleCreate(c) \/ HandleAttach(c) \/ HandleTurnStart(c)
                \/ HandleTurnCancel(c) \/ Announce(c)
      PROVE  UNCHANGED <<unsent, current>>
  BY <1>6 DEF HandleCreate, HandleAttach, HandleTurnStart, HandleTurnCancel, Announce, turns,
              session, Session!AcceptCancel, Session!SettleCancel
<1>7. ASSUME NEW c \in Conn, SendReply(c) \/ SendStray(c) \/ HangUp(c) \/ OnClose(c) \/ Receive(c)
      PROVE  UNCHANGED <<unsent, current>>
  BY <1>7 DEF SendReply, SendStray, HangUp, OnClose, Receive, turns, session
<1>8. QED
  BY <1>1, <1>2, <1>3, <1>4, <1>5, <1>6, <1>7 DEF Next

\* What the page knows of events stays, is forgotten, or is one event more.
Keeps == /\ UNCHANGED history /\ page'.seenSeqs = page.seenSeqs /\ page'.answer = page.answer
         /\ page'.asked = page.asked
Forgets == /\ Forget /\ page'.seenSeqs = << >> /\ page'.answer = [t \in Turn |-> NoAnswer]
           /\ page'.asked = {} /\ page'.pendingTurnId = NoTurn
Notices(c) ==
    /\ Receive(c) /\ wire[c] # << >> /\ Head(wire[c]).type = "session.event"
    /\ Notes(Head(wire[c])) /\ page' = ReduceEvent(page, Head(wire[c]).event)

LEMMA PageSteps ==
    ASSUME Typed, [Next]_vars
    PROVE  \/ Keeps
           \/ Forgets /\ (CreateSession \/ AttachSession)
           \/ \E c \in Conn : Notices(c)
<1>1. page \in Page
  BY DEF Typed, TypedPage
<1>2. ASSUME UNCHANGED client PROVE Keeps
  BY <1>2 DEF client, Keeps
<1>3. ASSUME NEW t \in Turn, Register(t) \/ Reject(t) \/ SendTurn(t) PROVE Keeps
  BY <1>2, <1>3 DEF Register, Reject, SendTurn
<1>4. CASE Speak \/ LeaveToCancel \/ SendLive \/ LoseLive \/ Leave \/ Drop \/ CancelTurn
           \/ UNCHANGED vars
  BY <1>2, <1>4 DEF Speak, LeaveToCancel, SendLive, LoseLive, Leave, Drop, CancelTurn, vars
<1>5. ASSUME NEW c \in Conn, HandleCreate(c) \/ HandleAttach(c) \/ HandleTurnStart(c)
                \/ HandleTurnCancel(c) \/ Announce(c) \/ SendReply(c) \/ SendStray(c) \/ HangUp(c)
      PROVE  Keeps
  BY <1>2, <1>5 DEF HandleCreate, HandleAttach, HandleTurnStart, HandleTurnCancel, Announce,
                    SendReply, SendStray, HangUp
<1>6. ASSUME NEW c \in Conn, OnClose(c) PROVE Keeps
  BY <1>1, <1>6 DEF OnClose, Keeps, Page
<1>7. CASE Connect
  BY <1>1, <1>7 DEF Connect, Keeps, Page
<1>8. CASE CreateSession \/ AttachSession
  <2>1. PICK known \in BOOLEAN : page' = Cleared(page, known)
    BY <1>8 DEF CreateSession, AttachSession
  <2>2. Forget
    BY <1>8 DEF CreateSession, AttachSession
  <2>3. QED BY <1>1, <1>8, <2>1, <2>2 DEF Cleared, Page, Forgets
<1>9. ASSUME NEW c \in Conn, Receive(c) PROVE Keeps \/ Notices(c)
  <2> DEFINE m == Head(wire[c])
  <2>1. /\ wire[c] # << >> /\ page' = Reduce(page, m)
        /\ IF m.type = "session.event" THEN Notes(m) ELSE UNCHANGED history
    BY <1>9 DEF Receive
  <2>2. m \in Message
    BY <2>1, SetOfTail DEF Typed
  <2>3. CASE m.type = "session.event"
    BY <1>9, <2>1, <2>3 DEF Notices, Reduce
  <2>4. CASE m.type = "connection.ready"
    BY <1>1, <2>1, <2>4 DEF Reduce, Keeps, Page
  <2>5. CASE m.type = "session.ready"
    BY <1>1, <2>1, <2>5 DEF Reduce, Welcome, Keeps, Page
  <2>6. CASE m.type = "turn.accepted"
    BY <1>1, <2>1, <2>6 DEF Reduce, Keeps, Page
  <2>7. QED BY <2>2, <2>3, <2>4, <2>5, <2>6 DEF Message
<1>10. QED
  BY <1>3, <1>4, <1>5, <1>6, <1>7, <1>8, <1>9 DEF Next

\* Sockets open one after the other, and close once.
LEMMA SocketSteps ==
    ASSUME Typed, [Next]_vars
    PROVE  /\ \/ UNCHANGED conn
              \/ Connect /\ conn' = conn + 1 /\ conn' \in Conn /\ socket'[conn'] = "open"
           /\ \A c \in Conn :
                \/ socket'[c] = socket[c]
                \/ Connect /\ c = conn'
                \/ socket[c] = "open" /\ socket'[c] = "closing"
                \/ socket[c] = "closing" /\ OnClose(c) /\ page'.pendingTurnId = NoTurn
<1>1. conn \in 0..MaxConns /\ DOMAIN socket = Conn /\ page \in Page /\ Conn = 1..MaxConns
  BY DEF Typed, TypedPage, Conn
<1>2. CASE Connect
  <2>1. conn' = conn + 1 /\ conn' \in Conn
    BY <1>1, <1>2, PageSessionAssumption DEF Connect
  <2>2. \A c \in Conn : socket'[c] = IF c = conn' THEN "open"
                                    ELSE IF socket[c] = "open" THEN "closing" ELSE socket[c]
    BY <1>2, <2>1 DEF Connect
  <2>3. QED BY <1>2, <2>1, <2>2
<1>3. CASE Drop
  BY <1>1, <1>3 DEF Drop, Open, client
<1>4. ASSUME NEW d \in Conn, OnClose(d)
      PROVE  /\ UNCHANGED conn /\ page'.pendingTurnId = NoTurn
             /\ \A c \in Conn : c # d => socket'[c] = socket[c]
             /\ socket[d] = "closing"
  BY <1>1, <1>4 DEF OnClose, Page
<1>5. ASSUME NEW t \in Turn, Register(t) \/ Reject(t) \/ SendTurn(t) PROVE UNCHANGED <<socket, conn>>
  BY <1>5 DEF Register, Reject, SendTurn, client
<1>6. ASSUME Speak \/ LeaveToCancel \/ SendLive \/ LoseLive \/ Leave \/ CreateSession
             \/ AttachSession \/ CancelTurn \/ UNCHANGED vars
      PROVE  UNCHANGED <<socket, conn>>
  BY <1>6 DEF Speak, LeaveToCancel, SendLive, LoseLive, Leave, CreateSession, AttachSession,
              CancelTurn, vars, client
<1>7. ASSUME NEW d \in Conn, HandleCreate(d) \/ HandleAttach(d) \/ HandleTurnStart(d)
                \/ HandleTurnCancel(d) \/ Announce(d)
      PROVE  UNCHANGED <<socket, conn>>
  BY <1>7 DEF HandleCreate, HandleAttach, HandleTurnStart, HandleTurnCancel, Announce, client
<1>8. ASSUME NEW d \in Conn, SendReply(d) \/ SendStray(d) \/ HangUp(d) \/ Receive(d)
      PROVE  UNCHANGED <<socket, conn>>
  BY <1>8 DEF SendReply, SendStray, HangUp, Receive, client
<1>9. QED
  BY <1>2, <1>3, <1>4, <1>5, <1>6, <1>7, <1>8 DEF Next

\* Turns go through their stages, and get their connection once they are accepted.
Accepts(c, t) ==
    /\ HandleTurnStart(c) /\ attached[c] /\ inbox[c] # << >> /\ inbox'[c] = Tail(inbox[c])
    /\ Head(inbox[c]).type = "turn.start" /\ Head(inbox[c]).turn = t

LEMMA StageSteps ==
    ASSUME Typed, [Next]_vars, NEW t \in Turn
    PROVE  \/ stage'[t] = stage[t] /\ home'[t] = home[t]
           \/ Register(t) /\ stage[t] = "accepted" /\ stage'[t] = "running" /\ UNCHANGED home
           \/ Reject(t) /\ stage[t] = "accepted" /\ stage'[t] = "rejected" /\ UNCHANGED home
           \/ SendTurn(t) /\ stage[t] = "new" /\ stage'[t] = "sent" /\ UNCHANGED home
           \/ Leave /\ current = t /\ current' = NoTurn /\ stage'[t] = "done" /\ UNCHANGED home
           \/ \E c \in Conn : Accepts(c, t) /\ stage'[t] = "accepted" /\ home'[t] = c
<1>1. DOMAIN stage = Turn /\ DOMAIN home = Turn /\ DOMAIN inbox = Conn
  BY DEF Typed, TypedTurns, TypedReader
<1>2. ASSUME NEW u \in Turn, Register(u)
      PROVE  \/ stage'[t] = stage[t] /\ home'[t] = home[t]
             \/ Register(t) /\ stage[t] = "accepted" /\ stage'[t] = "running" /\ UNCHANGED home
  BY <1>1, <1>2 DEF Register
<1>3. ASSUME NEW u \in Turn, Reject(u)
      PROVE  \/ stage'[t] = stage[t] /\ home'[t] = home[t]
             \/ Reject(t) /\ stage[t] = "accepted" /\ stage'[t] = "rejected" /\ UNCHANGED home
  BY <1>1, <1>3 DEF Reject
<1>4. ASSUME NEW u \in Turn, SendTurn(u)
      PROVE  \/ stage'[t] = stage[t] /\ home'[t] = home[t]
             \/ SendTurn(t) /\ stage[t] = "new" /\ stage'[t] = "sent" /\ UNCHANGED home
  BY <1>1, <1>4 DEF SendTurn
<1>5. CASE Leave
  BY <1>1, <1>5 DEF Leave, Session!Leave
<1>6. ASSUME NEW c \in Conn, HandleTurnStart(c)
      PROVE  \/ stage'[t] = stage[t] /\ home'[t] = home[t]
             \/ Accepts(c, t) /\ stage'[t] = "accepted" /\ home'[t] = c
  BY <1>1, <1>6 DEF HandleTurnStart, Handles, Accepts
<1>7. ASSUME Speak \/ LeaveToCancel \/ SendLive \/ LoseLive \/ Connect \/ Drop \/ CreateSession
             \/ AttachSession \/ CancelTurn \/ UNCHANGED vars
      PROVE  UNCHANGED <<stage, home>>
  BY <1>7 DEF Speak, LeaveToCancel, SendLive, LoseLive, Connect, Drop, CreateSession,
              AttachSession, CancelTurn, vars, turns
<1>8. ASSUME NEW c \in Conn, HandleCreate(c) \/ HandleAttach(c) \/ HandleTurnCancel(c)
                \/ Announce(c) \/ SendReply(c)
      PROVE  UNCHANGED <<stage, home>>
  BY <1>8 DEF HandleCreate, HandleAttach, HandleTurnCancel, Announce, SendReply, turns
<1>9. ASSUME NEW c \in Conn, SendStray(c) \/ HangUp(c) \/ OnClose(c) \/ Receive(c)
      PROVE  UNCHANGED <<stage, home>>
  BY <1>9 DEF SendStray, HangUp, OnClose, Receive, turns
<1>10. QED
  BY <1>2, <1>3, <1>4, <1>5, <1>6, <1>7, <1>8, <1>9 DEF Next

\* A reader takes over a cancellation, and announces it.
LEMMA CancellingSteps ==
    ASSUME Typed, [Next]_vars, NEW c \in Conn
    PROVE  \/ cancelling'[c] = cancelling[c]
           \/ Announce(c) /\ cancelling'[c] = NoTurn
           \/ /\ HandleTurnCancel(c) /\ inbox[c] # << >> /\ Head(inbox[c]).type = "turn.cancel"
              /\ cancelling[c] = NoTurn /\ cancelling'[c] = Head(inbox[c]).turn
              /\ current = cancelling'[c]
<1>1. DOMAIN cancelling = Conn
  BY DEF Typed, TypedReader
<1>2. ASSUME NEW d \in Conn, Announce(d)
      PROVE  cancelling'[c] = cancelling[c] \/ (Announce(c) /\ cancelling'[c] = NoTurn)
  BY <1>1, <1>2 DEF Announce
<1>3. ASSUME NEW d \in Conn, HandleTurnCancel(d), c # d PROVE cancelling'[c] = cancelling[c]
  BY <1>1, <1>3 DEF HandleTurnCancel
<1>4. ASSUME HandleTurnCancel(c)
      PROVE  \/ cancelling'[c] = cancelling[c]
             \/ /\ HandleTurnCancel(c) /\ inbox[c] # << >> /\ Head(inbox[c]).type = "turn.cancel"
                /\ cancelling[c] = NoTurn /\ cancelling'[c] = Head(inbox[c]).turn
                /\ current = cancelling'[c]
  BY <1>1, <1>4 DEF HandleTurnCancel, Handles
<1>5. ASSUME NEW t \in Turn, Register(t) \/ Reject(t) \/ SendTurn(t) PROVE UNCHANGED cancelling
  BY <1>5 DEF Register, Reject, SendTurn, reader
<1>6. ASSUME Speak \/ LeaveToCancel \/ SendLive \/ LoseLive \/ Leave \/ Connect \/ Drop
             \/ CreateSession \/ AttachSession \/ CancelTurn \/ UNCHANGED vars
      PROVE  UNCHANGED cancelling
  BY <1>6 DEF Speak, LeaveToCancel, SendLive, LoseLive, Leave, Connect, Drop, CreateSession,
              AttachSession, CancelTurn, vars, reader
<1>7. ASSUME NEW d \in Conn, HandleCreate(d) \/ HandleAttach(d) \/ HandleTurnStart(d)
                \/ SendReply(d) \/ SendStray(d) \/ HangUp(d) \/ OnClose(d) \/ Receive(d)
      PROVE  UNCHANGED cancelling
  BY <1>7 DEF HandleCreate, HandleAttach, HandleTurnStart, SendReply, SendStray, HangUp, OnClose,
              Receive, reader
<1>8. QED
  BY <1>2, <1>3, <1>4, <1>5, <1>6, <1>7 DEF Next

\* The page waits for the turn it has been told of, until an end or a close.
LEMMA PendingSteps ==
    ASSUME Typed, [Next]_vars
    PROVE  \/ page'.pendingTurnId = page.pendingTurnId
           \/ page'.pendingTurnId = NoTurn
           \/ \E c \in Conn : /\ Receive(c) /\ wire[c] # << >> /\ Head(wire[c]).type = "turn.accepted"
                              /\ page'.pendingTurnId = Head(wire[c]).turn
<1>1. page \in Page /\ Len(page.seenSeqs) <= SeenLimit
  BY DEF Typed, TypedPage
<1>2. ASSUME NEW t \in Turn, Register(t) \/ Reject(t) \/ SendTurn(t) PROVE UNCHANGED page
  BY <1>2 DEF Register, Reject, SendTurn, client
<1>3. ASSUME Speak \/ LeaveToCancel \/ SendLive \/ LoseLive \/ Leave \/ Drop \/ CancelTurn
             \/ UNCHANGED vars
      PROVE  UNCHANGED page
  BY <1>3 DEF Speak, LeaveToCancel, SendLive, LoseLive, Leave, Drop, CancelTurn, vars, client
<1>4. ASSUME NEW c \in Conn, HandleCreate(c) \/ HandleAttach(c) \/ HandleTurnStart(c)
                \/ HandleTurnCancel(c) \/ Announce(c) \/ SendReply(c) \/ SendStray(c) \/ HangUp(c)
      PROVE  UNCHANGED page
  BY <1>4 DEF HandleCreate, HandleAttach, HandleTurnStart, HandleTurnCancel, Announce,
              SendReply, SendStray, HangUp, client
<1>5. ASSUME NEW c \in Conn, OnClose(c) PROVE page'.pendingTurnId = NoTurn
  BY <1>1, <1>5 DEF OnClose, Page
<1>6. CASE Connect
  BY <1>1, <1>6 DEF Connect, Page
<1>7. CASE CreateSession \/ AttachSession
  BY <1>1, <1>7 DEF CreateSession, AttachSession, Cleared, Page
<1>8. ASSUME NEW c \in Conn, Receive(c)
      PROVE  \/ page'.pendingTurnId = page.pendingTurnId
             \/ page'.pendingTurnId = NoTurn
             \/ /\ wire[c] # << >> /\ Head(wire[c]).type = "turn.accepted"
                /\ page'.pendingTurnId = Head(wire[c]).turn
  <2> DEFINE m == Head(wire[c])
  <2>1. wire[c] # << >> /\ page' = Reduce(page, m)
    BY <1>8 DEF Receive
  <2>2. m \in Message
    BY <2>1, SetOfTail DEF Typed
  <2>3. CASE m.type = "session.event"
    <3>1. m.event \in Proper /\ page' = ReduceEvent(page, m.event)
      BY <2>1, <2>2, <2>3 DEF Reduce, Message
    <3>2. CASE Seen(page, m.event)
      BY <3>1, <3>2 DEF ReduceEvent
    <3>3. CASE ~Seen(page, m.event)
      <4>1. page'.pendingTurnId = PendingAfter(page.pendingTurnId, m.event)
        BY <1>1, <3>1, <3>3, NewEvent
      <4>2. QED BY <4>1 DEF PendingAfter
    <3>4. QED BY <3>2, <3>3
  <2>4. CASE m.type = "connection.ready"
    BY <1>1, <2>1, <2>4 DEF Reduce, Page
  <2>5. CASE m.type = "session.ready"
    BY <1>1, <2>1, <2>5 DEF Reduce, Welcome, Page
  <2>6. CASE m.type = "turn.accepted"
    BY <1>1, <2>1, <2>6 DEF Reduce, Page
  <2>7. QED BY <2>2, <2>3, <2>4, <2>5, <2>6 DEF Message
<1>9. QED
  BY <1>2, <1>3, <1>4, <1>5, <1>6, <1>7, <1>8 DEF Next

\* Who holds the session, and how far it is.
LEMMA HolderSteps ==
    ASSUME Typed, [Next]_vars
    PROVE  \/ UNCHANGED <<current, phase, cancelEmitted>>
           \/ \E t \in Turn : /\ Register(t) /\ current = NoTurn /\ current' = t
                              /\ phase' = "taken" /\ ~cancelEmitted'
           \/ Leave /\ phase = "over" /\ current' = NoTurn
           \/ Speak /\ UNCHANGED <<current, cancelEmitted>> /\ phase # "over"
           \/ LeaveToCancel /\ UNCHANGED <<current, cancelEmitted>> /\ cancelEmitted
           \/ LoseLive /\ UNCHANGED <<current, cancelEmitted>>
           \/ \E c \in Conn : HandleTurnCancel(c) /\ UNCHANGED <<current, phase>>
                                                  /\ cancelling'[c] = current
<1>1. DOMAIN cancelling = Conn /\ DOMAIN stage = Turn
  BY DEF Typed, TypedReader, TypedTurns
<1>2. ASSUME NEW t \in Turn, Register(t)
      PROVE  current = NoTurn /\ current' = t /\ phase' = "taken" /\ ~cancelEmitted'
  BY <1>2 DEF Register, Session!Take
<1>3. CASE Leave
  BY <1>3 DEF Leave, Session!Leave
<1>4. CASE Speak
  BY <1>4 DEF Speak, Session!Says, Session!Streams
<1>5. CASE LeaveToCancel \/ LoseLive
  BY <1>5 DEF LeaveToCancel, LoseLive, Session!FallSilent, session, turns
<1>6. ASSUME NEW c \in Conn, HandleTurnCancel(c)
      PROVE  \/ UNCHANGED <<current, phase, cancelEmitted>>
             \/ UNCHANGED <<current, phase>> /\ cancelling'[c] = current
  BY <1>1, <1>6 DEF HandleTurnCancel, Session!AcceptCancel, session
<1>7. ASSUME NEW t \in Turn, Reject(t) \/ SendTurn(t)
      PROVE  UNCHANGED <<current, phase, cancelEmitted>>
  BY <1>7 DEF Reject, SendTurn, session
<1>8. ASSUME SendLive \/ Connect \/ Drop \/ CreateSession \/ AttachSession \/ CancelTurn
             \/ UNCHANGED vars
      PROVE  UNCHANGED <<current, phase, cancelEmitted>>
  BY <1>8 DEF SendLive, Connect, Drop, CreateSession, AttachSession, CancelTurn, vars, session,
              turns
<1>9. ASSUME NEW c \in Conn, HandleCreate(c) \/ HandleAttach(c) \/ HandleTurnStart(c)
                \/ Announce(c) \/ SendReply(c)
      PROVE  UNCHANGED <<current, phase, cancelEmitted>>
  BY <1>9 DEF HandleCreate, HandleAttach, HandleTurnStart, Announce, SendReply, session, turns,
              Session!SettleCancel
<1>10. ASSUME NEW c \in Conn, SendStray(c) \/ HangUp(c) \/ OnClose(c) \/ Receive(c)
       PROVE  UNCHANGED <<current, phase, cancelEmitted>>
  BY <1>10 DEF SendStray, HangUp, OnClose, Receive, session, turns
<1>11. QED
  BY <1>2, <1>3, <1>4, <1>5, <1>6, <1>7, <1>8, <1>9, <1>10 DEF Next

-----------------------------------------------------------------------------
(* Events *)

Logged(e) == e.seq \in 1..Len(log) /\ log[e.seq] = e

\* What a reader sends is an event of the log; what arrives may be one of another session.
FromLog(m) == m.type = "session.ready" \/ (m.type = "session.event" /\ Logged(m.event))
Travels(m) ==
    m.type = "session.event" => IF Foreign(m) THEN m.event.seq \in 1..SeenLimit ELSE Logged(m.event)

Numbered ==
    \A i \in 1..Len(log) :
        log[i].seq = i /\ (log[i].type = "assistant.delta" => log[i].turn \in Turn)

\* What is on its way is an event of the log or one of another session, and the page
\* remembers nothing else.
Genuine ==
    /\ Numbered
    /\ IF current = NoTurn THEN unsent = << >>
       ELSE unsent = << >> \/ \E n \in 1..Len(log) : unsent = <<log[n]>> /\ log[n].turn = current
    /\ \A c \in Conn : /\ \A m \in ToSet(out[c]) : FromLog(m)
                       /\ \A m \in ToSet(wire[c]) : Travels(m)
    /\ ToSet(told) \subseteq 1..Len(log) /\ strays \subseteq 1..SeenLimit
    /\ ToSet(page.seenSeqs) \subseteq ToSet(told) \cup strays

LEMMA LogStays ==
    ASSUME Typed, [Next]_vars
    PROVE  /\ Len(log) \in Nat /\ Len(log') \in {Len(log), Len(log) + 1}
           /\ \A i \in 1..Len(log) : i \in 1..Len(log') /\ log'[i] = log[i]
           /\ \A e : Logged(e) => Logged(e)'
<1>1. Len(log) \in Nat
  BY DEF Typed, TypedSession
<1>2. /\ Len(log') \in {Len(log), Len(log) + 1}
      /\ \A i \in 1..Len(log) : log'[i] = log[i]
  BY LogSteps DEF Adding
<1>3. \A i \in 1..Len(log) : i \in 1..Len(log')
  BY <1>1, <1>2
<1>4. QED
  BY <1>1, <1>2, <1>3 DEF Logged

LEMMA NumberedStep == ASSUME Typed, Numbered, [Next]_vars PROVE Numbered'
<1>1. CASE UNCHANGED log
  BY <1>1 DEF Numbered
<1>2. ASSUME NEW type \in EventType, NEW t \in Turn \cup {NoTurn}, Adding(type, t),
             type = "assistant.delta" => t \in Turn
      PROVE  Numbered'
  <2>1. \A i \in 1..Len(log') : i \in 1..Len(log) \/ i = Len(log) + 1
    BY <1>2 DEF Adding
  <2>2. QED BY <1>2, <2>1 DEF Adding, Numbered
<1>3. CASE \E c \in Conn : HandleCreate(c) /\ Adding("session.created", NoTurn)
  BY <1>2, <1>3 DEF EventType
<1>4. CASE \E type \in EventType \ {"session.created"} :
             Speak /\ current \in Turn /\ Adding(type, current)
  BY <1>2, <1>4
<1>5. CASE \E c \in Conn : Announce(c) /\ cancelling[c] \in Turn
                              /\ Adding("turn.cancelled", cancelling[c])
  BY <1>2, <1>5 DEF EventType, TerminalType
<1>6. QED BY <1>1, <1>3, <1>4, <1>5, LogSteps

\* An event of the log is not one of another session.
LEMMA LoggedTravels ==
    ASSUME Numbered, NEW m, FromLog(m)
    PROVE  Travels(m)
BY NoTurnAssumption DEF Numbered, FromLog, Travels, Foreign, Logged

\* An event of the log by its number.
LEMMA LoggedAt ==
    ASSUME Numbered, NEW i \in 1..Len(log)
    PROVE  Logged(log[i]) /\ FromLog(SessionEvent(log[i])) /\ SessionEvent(log[i]).event = log[i]
BY DEF Numbered, Logged, FromLog, SessionEvent

\* The numbers that a notice adds to what the page knows.
LEMMA Noticed ==
    ASSUME Typed, NEW c \in Conn, Notices(c)
    PROVE  LET m == Head(wire[c])  n == m.event.seq
           IN  /\ m \in Message /\ m \in ToSet(wire[c]) /\ m.event \in Proper /\ n \in Nat
               /\ IF Foreign(m)
                  THEN strays' = strays \cup {n} /\ UNCHANGED <<told, shown>>
                  ELSE ToSet(told') = ToSet(told) \cup {n} /\ UNCHANGED strays
               /\ IF Contains(page.seenSeqs, n) THEN page' = page
                  ELSE /\ page'.seenSeqs = Remember(page.seenSeqs, n)
                       /\ page'.pendingTurnId = PendingAfter(page.pendingTurnId, m.event)
<1> DEFINE m == Head(wire[c])
           n == m.event.seq
<1>1. m \in Message /\ m \in ToSet(wire[c])
  BY SetOfTail DEF Notices, Typed
<1>2. m.event \in Proper /\ n \in Nat
  BY <1>1 DEF Notices, Message, Proper, Event
<1>3. page \in Page /\ Len(page.seenSeqs) <= SeenLimit /\ told \in Seq(Nat)
  BY DEF Typed, TypedPage
<1>4. Notes(m) /\ page' = ReduceEvent(page, m.event)
  BY DEF Notices
<1>5. IF Foreign(m) THEN strays' = strays \cup {n} /\ UNCHANGED <<told, shown>>
      ELSE told' = (IF Contains(told, n) THEN told ELSE Append(told, n)) /\ UNCHANGED strays
  BY <1>4 DEF Notes
<1>6. Contains(told, n) => n \in ToSet(told)
  BY <1>3 DEF Contains, ToSet
<1>7. ToSet(Append(told, n)) = ToSet(told) \cup {n}
  BY <1>3, SetOfAppend
<1>8. Contains(page.seenSeqs, n) <=> Seen(page, m.event)
  BY DEF Seen
<1>9. CASE Seen(page, m.event)
  <2>1. page' = page
    BY <1>4, <1>9 DEF ReduceEvent
  <2>2. QED BY <1>1, <1>2, <1>5, <1>6, <1>7, <1>8, <1>9, <2>1
<1>10. CASE ~Seen(page, m.event)
  <2>1. /\ page'.seenSeqs = Remember(page.seenSeqs, n)
        /\ page'.pendingTurnId = PendingAfter(page.pendingTurnId, m.event)
    BY <1>2, <1>3, <1>4, <1>10, NewEvent
  <2>2. QED BY <1>1, <1>2, <1>5, <1>6, <1>7, <1>8, <1>10, <2>1
<1>11. QED BY <1>9, <1>10

LEMMA GenuineHolds == Spec => []Genuine
<1>1. Init => Genuine
  <2> SUFFICES ASSUME Init PROVE Genuine
    OBVIOUS
  <2>1. /\ log = << >> /\ unsent = << >> /\ told = << >> /\ strays = {} /\ current = NoTurn
        /\ \A c \in Conn : out[c] = << >> /\ wire[c] = << >>
        /\ page.seenSeqs = << >>
    BY DEF Init, Session!Init, InitPage
  <2>2. Numbered
    BY <2>1 DEF Numbered
  <2>3. QED BY <2>1, <2>2, SetOfEmpty DEF Genuine
<1>2. Typed /\ Genuine /\ [Next]_vars => Genuine'
  <2> SUFFICES ASSUME Typed, Genuine, [Next]_vars PROVE Genuine'
    OBVIOUS
  <2>1. Numbered /\ Numbered'
    BY NumberedStep DEF Genuine
  <2>2. /\ Len(log) \in Nat /\ Len(log') \in {Len(log), Len(log) + 1}
        /\ \A i \in 1..Len(log) : i \in 1..Len(log') /\ log'[i] = log[i]
        /\ \A e : Logged(e) => Logged(e)'
    BY LogStays
  <2>3. IF current' = NoTurn THEN unsent' = << >>
        ELSE unsent' = << >> \/ \E n \in 1..Len(log') :
                                    unsent' = <<log'[n]>> /\ log'[n].turn = current'
    <3>1. CASE UNCHANGED unsent /\ (UNCHANGED current \/ current = NoTurn \/ unsent = << >>)
      BY <2>2, <3>1 DEF Genuine
    <3>2. CASE Speak /\ UNCHANGED current /\ unsent = << >> /\ unsent' = <<Last(log')>>
      <4>1. PICK type : Adding(type, current)
        <5>1. PICK type \in EventType \ {"session.created"} : Session!Adds(type, current)
          BY <3>2, SpeakAdds DEF Typed
        <5>2. current \in Turn
          BY <3>2, SpeakAdds DEF Typed
        <5>3. QED BY <5>1, <5>2, AddsType DEF Adding, Typed
      <4>2. current # NoTurn
        BY <3>2, SpeakAdds, NoTurnAssumption DEF Typed
      <4>3. QED BY <2>2, <3>2, <4>1, <4>2 DEF Adding
    <3>3. CASE (SendLive \/ LoseLive) /\ unsent # << >> /\ unsent' = << >>
      BY <3>3
    <3>4. QED BY <3>1, <3>2, <3>3, UnsentSteps
  <2>4. ASSUME NEW c \in Conn, NEW m \in ToSet(out'[c]) PROVE FromLog(m)'
    <3> DEFINE old == m \in ToSet(out[c])
    <3>1. out[c] \in Seq(Message)
      BY DEF Typed, TypedReader
    <3>2. old => FromLog(m)'
      BY <2>2 DEF Genuine, FromLog
    <3>3. CASE out'[c] = out[c]
      BY <2>4, <3>2, <3>3
    <3>4. CASE SendReply(c) /\ out[c] # << >> /\ out'[c] = Tail(out[c])
      BY <2>4, <3>1, <3>2, <3>4, SetOfTail
    <3>5. CASE HandleCreate(c) /\ out[c] = << >>
               /\ out'[c] = <<SessionReady(1), SessionEvent(log'[1])>>
      <4>1. m = SessionReady(1) \/ m = SessionEvent(log'[1])
        BY <2>4, <3>5, SetOfTwo
      <4>2. 1 \in 1..Len(log')
        <5>1. Len(log') = Len(log) + 1
          BY <3>5, AddsType DEF HandleCreate, Typed, EventType
        <5>2. QED BY <2>2, <5>1
      <4>3. log'[1].seq = 1
        BY <2>1, <4>2 DEF Numbered
      <4>4. m = SessionEvent(log'[1]) => FromLog(m)'
        BY <4>2, <4>3 DEF FromLog, SessionEvent, Logged
      <4>5. m = SessionReady(1) => FromLog(m)'
        BY DEF SessionReady, FromLog
      <4>6. QED BY <4>1, <4>4, <4>5
    <3>6. CASE HandleAttach(c) /\ out[c] = << >> /\ out'[c] = <<SessionReady(Len(log))>> \o Events
      <4>1. \A i \in 1..Len(log) : SessionEvent(log[i]) \in Message
        BY DEF Typed, TypedSession, SessionEvent, Message
      <4>2. Events \in Seq(Message) /\ SessionReady(Len(log)) \in Message
        BY <2>2, <4>1, IsASeq DEF Events, SessionReady, Message
      <4>3. m = SessionReady(Len(log)) \/ m \in ToSet(Events)
        BY <2>4, <3>6, <4>2, SetOfConcat
      <4>4. ASSUME m \in ToSet(Events) PROVE FromLog(m)'
        <5>1. PICK i \in 1..Len(log) : m = SessionEvent(log[i])
          BY <4>4 DEF ToSet, Events
        <5>2. FromLog(m)
          BY <2>1, <5>1, LoggedAt
        <5>3. QED BY <2>2, <5>2 DEF FromLog
      <4>5. QED BY <4>3, <4>4 DEF SessionReady, FromLog
    <3>7. CASE Announce(c) /\ out'[c] = <<SessionEvent(Last(log'))>>
      <4>1. m = SessionEvent(Last(log'))
        BY <2>4, <3>7, SetOfOne
      <4>2. PICK t : Adding("turn.cancelled", t)
        <5>1. cancelling[c] \in Turn
          BY <3>7 DEF Announce, Typed, TypedReader
        <5>2. Session!Adds("turn.cancelled", cancelling[c])
          BY <3>7 DEF Announce, Session!SettleCancel
        <5>3. QED BY <5>1, <5>2, AddsType DEF Typed, Adding, EventType, TerminalType
      <4>3. Len(log') \in 1..Len(log') /\ Last(log') = log'[Len(log')]
        BY <2>2, <4>2 DEF Adding
      <4>4. QED BY <2>1, <4>1, <4>3 DEF Numbered, FromLog, SessionEvent, Logged
    <3>8. QED BY <3>3, <3>4, <3>5, <3>6, <3>7, OutSteps
  <2>5. ASSUME NEW c \in Conn, NEW m \in ToSet(wire'[c]) PROVE Travels(m)'
    <3>1. wire[c] \in Seq(Message) /\ out[c] \in Seq(Message)
      BY DEF Typed, TypedReader
    <3>2. ASSUME m \in ToSet(wire[c]) PROVE Travels(m)'
      BY <2>2, <3>2 DEF Genuine, Travels, Foreign
    <3>3. ASSUME FromLog(m) PROVE Travels(m)'
      <4>1. Travels(m)
        BY <2>1, <3>3, LoggedTravels
      <4>2. QED BY <2>2, <4>1 DEF Travels, Foreign
    <3>4. ASSUME m.type # "session.event" PROVE Travels(m)'
      BY <3>4 DEF Travels
    <3>5. CASE wire'[c] = wire[c] \/ wire'[c] = << >>
      BY <2>5, <3>2, <3>5, SetOfEmpty
    <3>6. CASE wire[c] # << >> /\ wire'[c] = Tail(wire[c])
      BY <2>5, <3>1, <3>2, <3>6, SetOfTail
    <3>7. CASE wire'[c] = <<ConnectionReady>>
      BY <2>5, <3>4, <3>7, SetOfOne DEF ConnectionReady
    <3>8. ASSUME NEW x, wire'[c] = Append(wire[c], x) PROVE m \in ToSet(wire[c]) \/ m = x
      BY <2>5, <3>1, <3>8, SetOfAppend
    <3>9. CASE out[c] # << >> /\ wire'[c] = Append(wire[c], Head(out[c]))
      <4>1. Head(out[c]) \in ToSet(out[c])
        BY <3>1, <3>9, SetOfTail
      <4>2. QED BY <3>2, <3>3, <3>8, <3>9, <4>1 DEF Genuine
    <3>10. CASE unsent # << >> /\ wire'[c] = Append(wire[c], SessionEvent(Head(unsent)))
      <4>1. PICK i \in 1..Len(log) : unsent = <<log[i]>>
        BY <3>10 DEF Genuine
      <4>2. FromLog(SessionEvent(Head(unsent)))
        BY <2>1, <4>1, LoggedAt
      <4>3. QED BY <3>2, <3>3, <3>8, <3>10, <4>2
    <3>11. CASE wire'[c] = Append(wire[c], TurnAccepted(Head(inbox[c]).turn))
      BY <3>2, <3>4, <3>8, <3>11 DEF TurnAccepted
    <3>12. CASE \E n \in 1..SeenLimit : wire'[c] = Append(wire[c], Stray(n))
      <4>1. PICK n \in 1..SeenLimit : wire'[c] = Append(wire[c], Stray(n))
        BY <3>12
      <4>2. Foreign(Stray(n)) /\ Stray(n).event.seq = n
        BY DEF Stray, SessionEvent, Foreign
      <4>3. Travels(Stray(n))'
        BY <4>2 DEF Travels, Foreign
      <4>4. QED BY <3>2, <3>8, <4>1, <4>3
    <3>13. QED
      BY <3>5, <3>6, <3>7, <3>9, <3>10, <3>11, <3>12, WireSteps
  <2>6. /\ ToSet(told') \subseteq 1..Len(log') /\ strays' \subseteq 1..SeenLimit
        /\ ToSet(page'.seenSeqs) \subseteq ToSet(told') \cup strays'
    <3>1. /\ ToSet(told) \subseteq 1..Len(log') /\ strays \subseteq 1..SeenLimit
          /\ ToSet(page.seenSeqs) \subseteq ToSet(told) \cup strays
      BY <2>2 DEF Genuine
    <3>2. CASE Keeps
      BY <3>1, <3>2 DEF Keeps, history
    <3>3. CASE Forgets
      BY <3>3, SetOfEmpty DEF Forgets, Forget
    <3>4. ASSUME NEW c \in Conn, Notices(c)
          PROVE  /\ ToSet(told') \subseteq 1..Len(log') /\ strays' \subseteq 1..SeenLimit
                 /\ ToSet(page'.seenSeqs) \subseteq ToSet(told') \cup strays'
      <4> DEFINE m == Head(wire[c])
                 n == m.event.seq
      <4>1. /\ m \in ToSet(wire[c]) /\ m.type = "session.event" /\ n \in Nat
            /\ IF Foreign(m) THEN strays' = strays \cup {n} /\ UNCHANGED told
               ELSE ToSet(told') = ToSet(told) \cup {n} /\ UNCHANGED strays
            /\ page'.seenSeqs \in {page.seenSeqs, Remember(page.seenSeqs, n)}
        BY <3>4, Noticed DEF Notices
      <4>2. IF Foreign(m) THEN n \in 1..SeenLimit ELSE n \in 1..Len(log')
        BY <2>2, <4>1 DEF Genuine, Travels, Logged
      <4>3. ToSet(page'.seenSeqs) \subseteq ToSet(page.seenSeqs) \cup {n}
        BY <4>1, RememberFacts DEF Typed, TypedPage, Page
      <4> HIDE DEF n, m
      <4>4. QED BY <3>1, <4>1, <4>2, <4>3
    <3>5. QED BY <3>2, <3>3, <3>4, PageSteps
  <2>7. QED
    BY <2>1, <2>3, <2>4, <2>5, <2>6 DEF Genuine
<1>3. QED
  BY <1>1, <1>2, TypedHolds, PTL DEF Spec

-----------------------------------------------------------------------------
(* The memory of the page *)

\* As long as everything fits, the page forgets nothing.
Recalls ==
    /\ ToSet(page.seenSeqs) = ToSet(told) \cup strays
    /\ IsInjective(page.seenSeqs)
    /\ ToSet(told) \subseteq shown \cup strays
    /\ \A t \in Turn : /\ IsInjective(page.answer[t].text)
                       /\ ToSet(page.answer[t].text) \subseteq ToSet(page.seenSeqs)
Remembered == Fits => Recalls

LEMMA InjectiveMore ==
    ASSUME NEW s \in Seq(Nat), IsInjective(s), NEW n \in Nat, n \notin ToSet(s)
    PROVE  IsInjective(Append(s, n))
<1>1. /\ Len(s) \in Nat /\ DOMAIN s = 1..Len(s) /\ DOMAIN Append(s, n) = 1..(Len(s) + 1)
      /\ \A i \in 1..Len(s) : Append(s, n)[i] = s[i]
      /\ Append(s, n)[Len(s) + 1] = n
  OBVIOUS
<1>2. \A i \in 1..Len(s) : s[i] # n
  BY <1>1 DEF ToSet
<1>3. \A i \in 1..(Len(s) + 1) : i \in 1..Len(s) \/ i = Len(s) + 1
  BY <1>1
<1>4. ASSUME NEW i \in 1..(Len(s) + 1), NEW j \in 1..(Len(s) + 1),
             Append(s, n)[i] = Append(s, n)[j]
      PROVE  i = j
  <2>1. CASE i \in 1..Len(s) /\ j \in 1..Len(s)
    BY <1>1, <1>4, <2>1 DEF IsInjective
  <2>2. CASE i = Len(s) + 1 /\ j = Len(s) + 1
    BY <2>2
  <2>3. CASE i \in 1..Len(s) /\ j = Len(s) + 1
    BY <1>1, <1>2, <1>4, <2>3
  <2>4. CASE j \in 1..Len(s) /\ i = Len(s) + 1
    BY <1>1, <1>2, <1>4, <2>4
  <2>5. QED BY <1>3, <2>1, <2>2, <2>3, <2>4
<1>5. QED
  BY <1>1, <1>4 DEF IsInjective

\* Different numbers below a bound, and a few others, are not many.
LEMMA InjectiveShort ==
    ASSUME NEW s \in Seq(Nat), IsInjective(s), NEW k \in Nat, NEW T, IsFiniteSet(T),
           ToSet(s) \subseteq (1..k) \cup T
    PROVE  Len(s) <= k + Cardinality(T)
<1> DEFINE R == (1..k) \cup T
<1>1. Len(s) \in Nat /\ DOMAIN s = 1..Len(s)
  OBVIOUS
<1>2. \A i \in 1..Len(s) : s[i] \in R
  BY <1>1 DEF ToSet
<1>3. [i \in 1..Len(s) |-> s[i]] \in Injection(1..Len(s), R)
  BY <1>1, <1>2 DEF IsInjective, Injection
<1>a. \A n \in Nat : IsFiniteSet(1..n) /\ Cardinality(1..n) = n
  <2> TAKE n \in Nat
  <2>1. /\ IsFiniteSet(1..n)
        /\ Cardinality(1..n) = IF 1 > n THEN 0 ELSE n - 1 + 1
    BY FS_Interval
  <2>2. QED BY <2>1
<1>4. IsFiniteSet(1..k) /\ Cardinality(1..k) = k
  BY <1>a
<1>5. IsFiniteSet(R) /\ Cardinality(R) = k + Cardinality(T) - Cardinality((1..k) \cap T)
  BY <1>4, FS_Union
<1>6. Cardinality((1..k) \cap T) \in Nat /\ Cardinality(T) \in Nat /\ Cardinality(R) \in Nat
  BY <1>4, <1>5, FS_Intersection, FS_CardinalityType
<1>7. Cardinality(1..Len(s)) = Len(s)
  BY <1>1, <1>a
<1>8. Cardinality(1..Len(s)) <= Cardinality(R)
  BY <1>3, <1>5, FS_Injection
<1> HIDE DEF R
<1>9. QED
  BY <1>1, <1>5, <1>6, <1>7, <1>8

\* What fits has fitted before, unless the page has been cleared.
LEMMA FitsBefore ==
    ASSUME Typed, Genuine', [Next]_vars, strays \subseteq strays', Fits'
    PROVE  Fits
<1> DEFINE a == Cardinality(strays)
           b == Cardinality(strays')
<1>1. strays' \subseteq 1..SeenLimit /\ IsFiniteSet(1..SeenLimit)
  <2>1. strays' \subseteq 1..SeenLimit
    BY DEF Genuine
  <2>2. IsFiniteSet(1..SeenLimit)
    BY SeenLimitAssumption, FS_Interval
  <2>3. QED BY <2>1, <2>2
<1>2. IsFiniteSet(strays')
  BY <1>1, FS_Subset
<1>3. a \in Nat /\ b \in Nat /\ a <= b
  BY <1>2, FS_Subset, FS_CardinalityType
<1> HIDE DEF a, b
<1>4. Len(log) \in Nat /\ Len(log') \in {Len(log), Len(log) + 1}
  BY LogStays
<1>5. Len(log') + b <= SeenLimit
  BY DEF Fits, b
<1>6. Len(log) + a <= SeenLimit
  BY <1>3, <1>4, <1>5, SeenLimitAssumption
<1>7. QED BY <1>6 DEF Fits, a

LEMMA RememberedHolds == Spec => []Remembered
<1>1. Init => Remembered
  <2> SUFFICES ASSUME Init PROVE Remembered
    OBVIOUS
  <2>1. /\ told = << >> /\ strays = {} /\ page.seenSeqs = << >>
        /\ \A t \in Turn : page.answer[t].text = << >>
    BY DEF Init, InitPage, NoAnswer
  <2>2. QED BY <2>1, SetOfEmpty DEF Remembered, Recalls, IsInjective
<1>2. Typed /\ Genuine /\ Genuine' /\ Remembered /\ [Next]_vars => Remembered'
  <2> SUFFICES ASSUME Typed, Genuine, Genuine', Remembered, [Next]_vars, Fits'
               PROVE  Recalls'
    BY DEF Remembered
  <2>1. CASE Forgets
    <3>1. \A t \in Turn : page'.answer[t].text = << >>
      BY <2>1 DEF Forgets, NoAnswer
    <3>2. QED BY <2>1, <3>1, SetOfEmpty DEF Forgets, Forget, Recalls, IsInjective
  <2>2. ASSUME strays \subseteq strays' PROVE Fits
    BY <2>2, FitsBefore
  <2>3. CASE Keeps
    <3>1. Recalls
      BY <2>2, <2>3 DEF Keeps, history, Remembered
    <3>2. QED BY <2>3, <3>1 DEF Keeps, history, Recalls
  <2>4. ASSUME NEW c \in Conn, Notices(c) PROVE Recalls'
    <3> DEFINE m == Head(wire[c])
               n == m.event.seq
    <3>1. /\ m.event \in Proper /\ n \in Nat
          /\ IF Foreign(m)
             THEN strays' = strays \cup {n} /\ UNCHANGED <<told, shown>>
             ELSE ToSet(told') = ToSet(told) \cup {n} /\ UNCHANGED strays
          /\ IF Contains(page.seenSeqs, n) THEN page' = page
             ELSE page'.seenSeqs = Remember(page.seenSeqs, n)
      BY <2>4, Noticed
    <3>2. Recalls
      BY <2>2, <3>1 DEF Remembered
    <3>3. ~Foreign(m) => shown' = IF page' = page THEN shown ELSE shown \cup {n}
      BY <2>4 DEF Notices, Notes
    <3>4. page.seenSeqs \in Seq(Nat) /\ Len(page.seenSeqs) <= SeenLimit /\ page \in Page
      BY DEF Typed, TypedPage, Page
    <3>5. ToSet(page.seenSeqs) \cup {n} = ToSet(told') \cup strays'
      BY <3>1, <3>2 DEF Recalls
    <3>6. CASE Contains(page.seenSeqs, n)
      <4>1. n \in ToSet(page.seenSeqs)
        BY <3>4, <3>6, ContainsIs
      <4>2. shown \subseteq shown'
        BY <3>1, <3>3
      <4> HIDE DEF n, m
      <4>3. QED BY <3>1, <3>2, <3>5, <3>6, <4>1, <4>2 DEF Recalls
    <3>7. CASE ~Contains(page.seenSeqs, n)
      <4>1. n \notin ToSet(page.seenSeqs)
        BY <3>4, <3>7, ContainsIs
      <4> DEFINE all == Append(page.seenSeqs, n)
      <4>2. all \in Seq(Nat) /\ Len(all) = Len(page.seenSeqs) + 1 /\ all # page.seenSeqs
        BY <3>1, <3>4
      <4>3. ToSet(all) = ToSet(page.seenSeqs) \cup {n}
        BY <3>1, <3>4, SetOfAppend
      <4>4. IsInjective(all)
        BY <3>1, <3>2, <3>4, <4>1, InjectiveMore DEF Recalls
      <4>5. IsFiniteSet(strays') /\ ToSet(all) \subseteq (1..Len(log')) \cup strays' /\ Len(log') \in Nat
        <5>1. strays' \subseteq 1..SeenLimit /\ IsFiniteSet(1..SeenLimit)
          <6>1. strays' \subseteq 1..SeenLimit
            BY DEF Genuine
          <6>2. IsFiniteSet(1..SeenLimit)
            BY SeenLimitAssumption, FS_Interval
          <6>3. QED BY <6>1, <6>2
        <5>2. Len(log') \in Nat
          BY LogStays
        <5>3. QED BY <3>5, <4>3, <5>1, <5>2, FS_Subset DEF Genuine
      <4>6. Len(all) <= Len(log') + Cardinality(strays') /\ Cardinality(strays') \in Nat
        BY <4>2, <4>4, <4>5, InjectiveShort, FS_CardinalityType
      <4> DEFINE b == Cardinality(strays')
      <4> HIDE DEF all, b
      <4>7. Len(all) <= SeenLimit
        <5>1. Len(all) <= Len(log') + b /\ b \in Nat /\ Len(all) \in Nat
          BY <4>2, <4>6 DEF b
        <5>2. Len(log') + b <= SeenLimit
          BY DEF Fits, b
        <5>3. QED BY <4>5, <5>1, <5>2, SeenLimitAssumption
      <4>8. page'.seenSeqs = all
        <5>1. Len(page.seenSeqs) \in Nat /\ Len(page.seenSeqs) < SeenLimit
          BY <3>4, <4>2, <4>7, SeenLimitAssumption
        <5>2. QED BY <3>1, <3>4, <3>7, <5>1, RememberFacts DEF all
      <4>9. page' # page
        BY <4>2, <4>8
      <4>10. ToSet(told') \subseteq shown' \cup strays'
        BY <3>1, <3>2, <3>3, <4>9 DEF Recalls
      <4>11. ASSUME NEW t \in Turn
             PROVE  /\ IsInjective(page'.answer[t].text)
                    /\ ToSet(page'.answer[t].text) \subseteq ToSet(all)
        <5>1. ~Seen(page, m.event)
          BY <3>7 DEF Seen
        <5>2. page'.answer[t] = IF t = m.event.turn THEN AnswerAfter(page.answer[t], m.event)
                                ELSE page.answer[t]
          BY <2>4, <3>1, <3>4, <5>1, NewEvent DEF Notices
        <5>3. page.answer[t] \in Answer /\ page.answer[t].text \in Seq(Nat) /\ m.event \in Event
          BY <3>1, <3>4 DEF Page, Answer, Proper
        <5> DEFINE text == page.answer[t].text
        <5>4. page'.answer[t].text \in {text, Append(text, n), <<n>>}
          BY <5>2, <5>3, AnswerFacts
        <5>5. IsInjective(text) /\ ToSet(text) \subseteq ToSet(page.seenSeqs)
          BY <3>2 DEF Recalls
        <5>6. IsInjective(Append(text, n)) /\ ToSet(Append(text, n)) = ToSet(text) \cup {n}
          BY <3>1, <4>1, <5>3, <5>5, InjectiveMore, SetOfAppend
        <5>7. IsInjective(<<n>>) /\ ToSet(<<n>>) = {n}
          BY SetOfOne DEF IsInjective
        <5> HIDE DEF text
        <5>8. QED BY <4>3, <5>4, <5>5, <5>6, <5>7
      <4>12. QED
        BY <3>5, <4>3, <4>4, <4>8, <4>10, <4>11 DEF Recalls
    <3>8. QED BY <3>6, <3>7
  <2>5. QED BY <2>1, <2>3, <2>4, PageSteps
<1>3. QED
  BY <1>1, <1>2, TypedHolds, GenuineHolds, PTL DEF Spec

\* m stands before n in s.
Before(s, m, n) == \E i, j \in DOMAIN s : i < j /\ s[i] = m /\ s[j] = n

\* The text of an answer is made of events of its turn.  All but the first of them are
\* deltas, and those have arrived after the first.
Composed(t) ==
    LET text == page.answer[t].text
    IN  /\ \A i \in DOMAIN text :
            text[i] \in 1..Len(log) /\ log[text[i]].turn = t /\ text[i] \in ToSet(told)
        /\ \A i \in DOMAIN text : i > 1 =>
            log[text[i]].type = "assistant.delta" /\ Before(told, text[1], text[i])
Ordered == Fits => \A t \in Turn : Composed(t)

LEMMA OrderedHolds == Spec => []Ordered
<1>1. Init => Ordered
  <2> SUFFICES ASSUME Init PROVE Ordered
    OBVIOUS
  <2>1. \A t \in Turn : page.answer[t].text = << >>
    BY DEF Init, InitPage, NoAnswer
  <2>2. \A t \in Turn : Composed(t)
    <3>1. DOMAIN << >> = {}
      OBVIOUS
    <3>2. QED BY <2>1, <3>1 DEF Composed
  <2>3. QED BY <2>2 DEF Ordered
<1>2. Typed /\ Genuine /\ Genuine' /\ Remembered /\ Ordered /\ [Next]_vars => Ordered'
  <2> SUFFICES ASSUME Typed, Genuine, Genuine', Remembered, Ordered, [Next]_vars, Fits',
                      NEW t \in Turn
               PROVE  Composed(t)'
    BY DEF Ordered
  <2> DEFINE text == page.answer[t].text
  <2>1. \A i \in 1..Len(log) : i \in 1..Len(log') /\ log'[i] = log[i]
    BY LogStays
  <2>2. CASE Forgets
    <3>1. page'.answer[t].text = << >>
      BY <2>2 DEF Forgets, NoAnswer
    <3>2. QED BY <3>1 DEF Composed
  <2>3. CASE Keeps
    <3>1. Composed(t)
      BY <2>3, FitsBefore DEF Keeps, history, Ordered
    <3>2. QED BY <2>1, <2>3, <3>1 DEF Keeps, history, Composed, Before
  <2>4. ASSUME NEW c \in Conn, Notices(c) PROVE Composed(t)'
    <3> DEFINE m == Head(wire[c])
               e == m.event
               n == e.seq
    <3>1. /\ m \in ToSet(wire[c]) /\ e \in Proper /\ n \in Nat
          /\ IF Foreign(m) THEN strays' = strays \cup {n} /\ UNCHANGED told
             ELSE ToSet(told') = ToSet(told) \cup {n} /\ UNCHANGED strays
          /\ IF Contains(page.seenSeqs, n) THEN page' = page
             ELSE page'.seenSeqs = Remember(page.seenSeqs, n)
      BY <2>4, Noticed
    <3>2. Composed(t) /\ Recalls
      BY <3>1, FitsBefore DEF Ordered, Remembered
    <3>3. log' = log
      BY <2>4 DEF Notices, Receive, session
    <3>4. IF Foreign(m) THEN told' = told
          ELSE told' = (IF Contains(told, n) THEN told ELSE Append(told, n))
      BY <2>4 DEF Notices, Notes
    <3>5. /\ told \in Seq(Nat) /\ page.seenSeqs \in Seq(Nat) /\ Len(page.seenSeqs) <= SeenLimit
          /\ page \in Page /\ page.answer[t] \in Answer /\ text \in Seq(Nat)
      BY DEF Typed, TypedPage, Page, Answer
    <3>6. /\ ToSet(told) \subseteq ToSet(told')
          /\ \A i, j : Before(told, i, j) => Before(told', i, j)
      <4>1. \A i \in DOMAIN told : i \in DOMAIN Append(told, n) /\ Append(told, n)[i] = told[i]
        BY <3>1, <3>5
      <4>2. \A i \in DOMAIN told : i \in DOMAIN told' /\ told'[i] = told[i]
        BY <3>4, <4>1
      <4> HIDE DEF n, m, e
      <4>3. QED BY <3>1, <4>2 DEF Before
    <3>7. CASE page'.answer[t].text = text
      <4> HIDE DEF n, m, e
      <4>1. QED BY <3>2, <3>3, <3>6, <3>7 DEF Composed
    <3>8. CASE page'.answer[t].text # text
      <4>1. ~Contains(page.seenSeqs, n) /\ ~Seen(page, e)
        BY <3>1, <3>8 DEF Seen
      <4>2. /\ e.turn = t /\ e \in Event
            /\ page'.answer[t].text \in {text, Append(text, n), <<n>>}
            /\ e.type # "assistant.delta" => page'.answer[t].text \in {text, <<n>>}
        <5>1. page'.answer[t] = IF t = e.turn THEN AnswerAfter(page.answer[t], e)
                                ELSE page.answer[t]
          BY <2>4, <3>1, <3>5, <4>1, NewEvent DEF Notices
        <5>2. e \in Event
          BY <3>1 DEF Proper
        <5>3. e.turn = t
          BY <3>8, <5>1
        <5>4. QED BY <3>5, <5>1, <5>2, <5>3, AnswerFacts
      <4>3. ~Foreign(m) /\ n \in 1..Len(log) /\ log[n] = e
        <5>1. ~Foreign(m)
          BY <4>2, NoTurnAssumption DEF Foreign
        <5>2. m.type = "session.event"
          BY <2>4 DEF Notices
        <5>3. QED BY <3>1, <5>1, <5>2 DEF Genuine, Travels, Logged
      <4>4. n \notin ToSet(told)
        BY <3>2, <3>5, <4>1, ContainsIs DEF Recalls
      <4>5. told' = Append(told, n)
        BY <3>4, <3>5, <4>3, <4>4, ContainsIs
      <4>6. \A i \in ToSet(told) : Before(told', i, n)
        <5>1. /\ DOMAIN told = 1..Len(told) /\ Len(told) \in Nat
              /\ DOMAIN told' = 1..(Len(told) + 1) /\ told'[Len(told) + 1] = n
              /\ \A k \in 1..Len(told) : told'[k] = told[k]
          BY <3>1, <3>5, <4>5
        <5> HIDE DEF n, m, e
        <5>2. TAKE i \in ToSet(told)
        <5>3. PICK k \in 1..Len(told) : told[k] = i
          BY <5>1 DEF ToSet
        <5>4. k < Len(told) + 1 /\ {k, Len(told) + 1} \subseteq DOMAIN told'
          BY <5>1
        <5>5. QED BY <5>1, <5>3, <5>4 DEF Before
      <4>7. n \in ToSet(told')
        BY <3>1, <4>3
      <4>8. CASE page'.answer[t].text = <<n>>
        <5>1. DOMAIN <<n>> = {1} /\ <<n>>[1] = n
          OBVIOUS
        <5> HIDE DEF n, m, e
        <5>2. QED BY <3>3, <4>2, <4>3, <4>7, <4>8, <5>1 DEF Composed
      <4>9. CASE page'.answer[t].text = Append(text, n) /\ e.type = "assistant.delta"
        <5> DEFINE l == Len(text)
        <5>1. /\ l \in Nat /\ DOMAIN text = 1..l /\ DOMAIN Append(text, n) = 1..(l + 1)
              /\ Append(text, n)[l + 1] = n /\ \A i \in 1..l : Append(text, n)[i] = text[i]
          BY <3>1, <3>5
        <5> DEFINE more == page'.answer[t].text
        <5>2. /\ DOMAIN more = 1..(l + 1) /\ more[l + 1] = n
              /\ \A i \in 1..l : more[i] = text[i]
          BY <4>9, <5>1
        <5> HIDE DEF n, m, e, l, text, more
        <5>3. /\ \A i \in 1..l : /\ text[i] \in 1..Len(log) /\ log[text[i]].turn = t
                                  /\ text[i] \in ToSet(told)
              /\ \A i \in 1..l : i > 1 =>
                    log[text[i]].type = "assistant.delta" /\ Before(told, text[1], text[i])
          BY <3>2, <5>1 DEF Composed, text
        <5>4. ASSUME NEW i \in 1..(l + 1)
              PROVE  /\ more[i] \in 1..Len(log) /\ log[more[i]].turn = t
                     /\ more[i] \in ToSet(told')
                     /\ i > 1 => /\ log[more[i]].type = "assistant.delta"
                                 /\ Before(told', more[1], more[i])
          <6>1. CASE i \in 1..l
            <7>1. i > 1 => 1 \in 1..l
              BY <5>1, <6>1
            <7>2. QED BY <3>6, <5>2, <5>3, <6>1, <7>1
          <6>2. CASE i = l + 1
            <7>1. i > 1 => 1 \in 1..l
              BY <5>1, <6>2
            <7>2. i > 1 => more[1] \in ToSet(told)
              BY <5>2, <5>3, <7>1
            <7>3. QED BY <4>2, <4>3, <4>6, <4>7, <4>9, <5>2, <6>2, <7>2
          <6>3. QED BY <5>1, <6>1, <6>2
        <5>5. QED BY <3>3, <5>2, <5>4 DEF Composed, more
      <4>10. QED BY <3>8, <4>2, <4>8, <4>9
    <3>9. QED BY <3>7, <3>8
  <2>5. QED BY <2>2, <2>3, <2>4, PageSteps
<1>3. QED
  BY <1>1, <1>2, TypedHolds, GenuineHolds, RememberedHolds, PTL DEF Spec

\* While the log and the numbers of other sessions fit into the memory of the page, it
\* takes no event into an answer twice, and shows no piece of it twice unless the message
\* of the turn has overtaken the replay of a delta.
THEOREM NoPieceTwiceHolds == Spec => []NoPieceTwice
<1>1. Typed /\ Remembered /\ Ordered => NoPieceTwice
  <2> SUFFICES ASSUME Typed, Recalls, NEW t \in Turn, Composed(t), ~MessageOvertakes(t)
               PROVE  \A i, j \in DOMAIN page.answer[t].text : i # j =>
                        Pieces(page.answer[t].text[i]) \cap Pieces(page.answer[t].text[j]) = {}
    BY DEF Remembered, Ordered, Recalls, NoPieceTwice
  <2> DEFINE text == page.answer[t].text
  <2>1. text \in Seq(Nat) /\ DOMAIN text = 1..Len(text) /\ Len(text) \in Nat
    BY DEF Typed, TypedPage, Page, Answer
  <2>2. ASSUME NEW i \in DOMAIN text, NEW j \in DOMAIN text, i < j
        PROVE  Pieces(text[i]) \cap Pieces(text[j]) = {}
    <3>1. /\ j > 1 /\ 1 \in DOMAIN text /\ (i = 1 \/ i > 1)
      BY <2>1, <2>2
    <3>2. log[text[j]].type = "assistant.delta" /\ Before(told, text[1], text[j])
      BY <3>1 DEF Composed
    <3>3. Pieces(text[j]) = {text[j]}
      BY <3>2 DEF Pieces
    <3>4. text[i] # text[j]
      BY <2>1, <2>2 DEF Recalls, IsInjective
    <3>5. log[text[i]].type # "assistant.message"
      <4> SUFFICES ASSUME log[text[i]].type = "assistant.message" PROVE FALSE
        OBVIOUS
      <4>1. i = 1
        BY <3>1 DEF Composed
      <4>2. PICK k, l \in DOMAIN told : k < l /\ told[k] = text[1] /\ told[l] = text[j]
        BY <3>2 DEF Before
      <4>3. /\ {text[1], text[j]} \subseteq DOMAIN log
            /\ log[text[1]].turn = t /\ log[text[j]].turn = t
        BY <3>1 DEF Composed, Typed, TypedSession
      <4> HIDE DEF text
      <4>4. MessageOvertakes(t)
        BY <3>2, <4>1, <4>2, <4>3 DEF MessageOvertakes
      <4>5. QED BY <4>4
    <3>6. Pieces(text[i]) \in {{text[i]}, {}}
      BY <3>5 DEF Pieces
    <3>7. QED BY <3>3, <3>4, <3>6
  <2>3. \A i, j \in DOMAIN text : i # j => i < j \/ j < i
    BY <2>1
  <2> HIDE DEF text
  <2>4. \A i, j \in DOMAIN text : i # j => Pieces(text[i]) \cap Pieces(text[j]) = {}
    BY <2>2, <2>3
  <2>5. QED BY <2>4 DEF text
<1>2. QED
  BY <1>1, TypedHolds, RememberedHolds, OrderedHolds, PTL

-----------------------------------------------------------------------------
(* Turns *)

Asked(c, type, t) == \E m \in ToSet(inbox[c]) : m.type = type /\ m.turn = t
Accepted(c, t) == \E m \in ToSet(wire[c]) : m.type = "turn.accepted" /\ m.turn = t
StartOf(t) == [type |-> "turn.start", turn |-> t]

\* The place of a turn.start among all that has been asked.
AskedAt(c, i, t) == i \in DOMAIN inbox[c] /\ inbox[c][i] = StartOf(t)

\* A turn is asked for once, and belongs to the connection on which it was.
HomeAt(t) ==
    /\ IF stage[t] \in {"new", "sent"} THEN home[t] = 0 ELSE home[t] \in 1..conn
    /\ current = t => stage[t] = "running"
    /\ page.pendingTurnId = t =>
        home[t] \in 1..conn /\ socket[home[t]] \in {"open", "closing"}
    /\ \A c \in Conn :
        /\ Asked(c, "turn.start", t) => stage[t] = "sent"
        /\ Accepted(c, t) => home[t] = c
        /\ Asked(c, "turn.cancel", t) \/ cancelling[c] = t => home[t] \in 1..c
    /\ \A c, d \in Conn : \A i, j : AskedAt(c, i, t) /\ AskedAt(d, j, t) => c = d /\ i = j
    /\ \A i \in 1..Len(log) : log[i].turn = t => stage[t] \notin {"new", "sent"}
Homes == \A t \in Turn : HomeAt(t)

LEMMA AskedByPlace ==
    ASSUME NEW q \in Seq(Question), NEW t
    PROVE  (\E m \in ToSet(q) : m.type = "turn.start" /\ m.turn = t)
                <=> \E i \in DOMAIN q : q[i] = StartOf(t)
<1>1. \A m \in Question : m.type = "turn.start" /\ m.turn = t <=> m = StartOf(t)
  BY DEF Question, StartOf
<1>2. \A i \in DOMAIN q : q[i] \in Question
  OBVIOUS
<1>3. QED
  BY <1>1, <1>2 DEF ToSet

\* Where a turn.start is after a step.
LEMMA PlaceSteps ==
    ASSUME Typed, [Next]_vars, NEW c \in Conn
    PROVE  \E k \in {0, 1} : \A i, t :
                AskedAt(c, i, t)' =>
                    \/ i \in Nat /\ AskedAt(c, i + k, t)
                    \/ c = conn /\ SendTurn(t) /\ i = Len(inbox[c]) + 1
<1>1. inbox[c] \in Seq(Question) /\ DOMAIN inbox[c] = 1..Len(inbox[c]) /\ Len(inbox[c]) \in Nat
  BY DEF Typed, TypedReader
<1>2. CASE inbox'[c] = inbox[c]
  <2>1. \A i, t : AskedAt(c, i, t)' => i \in Nat /\ AskedAt(c, i + 0, t)
    BY <1>1, <1>2 DEF AskedAt
  <2>2. QED BY <2>1
<1>3. CASE inbox'[c] = << >>
  BY <1>3 DEF AskedAt
<1>4. CASE inbox[c] # << >> /\ inbox'[c] = Tail(inbox[c])
  <2>1. /\ DOMAIN inbox'[c] = 1..(Len(inbox[c]) - 1)
        /\ \A i \in 1..(Len(inbox[c]) - 1) : inbox'[c][i] = inbox[c][i + 1]
    BY <1>1, <1>4
  <2>2. \A i, t : AskedAt(c, i, t)' => i \in Nat /\ AskedAt(c, i + 1, t)
    BY <1>1, <2>1 DEF AskedAt
  <2>3. QED BY <2>2
<1>5. CASE c = conn /\ \E m : Asks(m) /\ inbox'[c] = Append(inbox[c], m)
  <2>1. PICK m : Asks(m) /\ inbox'[c] = Append(inbox[c], m)
    BY <1>5
  <2>2. /\ DOMAIN inbox'[c] = 1..(Len(inbox[c]) + 1)
        /\ \A i \in 1..Len(inbox[c]) : inbox'[c][i] = inbox[c][i]
        /\ inbox'[c][Len(inbox[c]) + 1] = m
    BY <1>1, <2>1 DEF Asks
  <2>3. ASSUME NEW i, NEW t, AskedAt(c, i, t)'
        PROVE  \/ i \in Nat /\ AskedAt(c, i + 0, t)
               \/ c = conn /\ SendTurn(t) /\ i = Len(inbox[c]) + 1
    <3>1. CASE i \in 1..Len(inbox[c])
      BY <1>1, <2>2, <2>3, <3>1 DEF AskedAt
    <3>2. CASE i = Len(inbox[c]) + 1
      <4>1. m = StartOf(t)
        BY <2>2, <2>3, <3>2 DEF AskedAt
      <4>2. SendTurn(t)
        BY <2>1, <4>1 DEF Asks, StartOf
      <4>3. QED BY <1>5, <3>2, <4>2
    <3>3. QED BY <1>1, <2>2, <2>3, <3>1, <3>2 DEF AskedAt
  <2>4. QED BY <2>3
<1>6. QED
  BY <1>2, <1>3, <1>4, <1>5, InboxSteps

\* A turn.accepted goes on the wire when the turn is accepted.
LEMMA AcceptedSteps ==
    ASSUME Typed, Genuine, [Next]_vars, NEW c \in Conn, NEW t \in Turn, Accepted(c, t)'
    PROVE  \/ Accepted(c, t)
           \/ Accepts(c, t) /\ wire'[c] = Append(wire[c], TurnAccepted(t)) /\ socket[c] = "open"
<1>1. wire[c] \in Seq(Message) /\ out[c] \in Seq(Message)
  BY DEF Typed, TypedReader
<1>2. PICK m \in ToSet(wire'[c]) : m.type = "turn.accepted" /\ m.turn = t
  BY DEF Accepted
<1>3. CASE m \in ToSet(wire[c])
  BY <1>2, <1>3 DEF Accepted
<1>4. CASE wire'[c] = wire[c] \/ wire'[c] = << >> \/ wire'[c] = <<ConnectionReady>>
  <2>1. CASE wire'[c] = wire[c]
    BY <1>2, <1>3, <2>1
  <2>2. CASE wire'[c] = << >>
    BY <1>2, <2>2, SetOfEmpty
  <2>3. CASE wire'[c] = <<ConnectionReady>>
    <3>1. m = ConnectionReady
      BY <1>2, <2>3, SetOfOne
    <3>2. QED BY <1>2, <3>1 DEF ConnectionReady
  <2>4. QED BY <1>4, <2>1, <2>2, <2>3
<1>5. CASE wire[c] # << >> /\ wire'[c] = Tail(wire[c])
  BY <1>1, <1>2, <1>3, <1>5, SetOfTail
<1>6. ASSUME NEW x, wire'[c] = Append(wire[c], x) PROVE m \in ToSet(wire[c]) \/ m = x
  BY <1>1, <1>2, <1>6, SetOfAppend
<1>7. CASE out[c] # << >> /\ wire'[c] = Append(wire[c], Head(out[c]))
  <2>1. Head(out[c]) \in ToSet(out[c])
    BY <1>1, <1>7, SetOfTail
  <2>2. Head(out[c]).type # "turn.accepted"
    BY <2>1 DEF Genuine, FromLog
  <2>3. QED BY <1>2, <1>3, <1>6, <1>7, <2>2
<1>8. CASE wire'[c] = Append(wire[c], SessionEvent(Head(unsent)))
           \/ \E n \in 1..SeenLimit : wire'[c] = Append(wire[c], Stray(n))
  <2>1. PICK e : wire'[c] = Append(wire[c], SessionEvent(e))
    BY <1>8 DEF Stray
  <2>2. m # SessionEvent(e)
    BY <1>2 DEF SessionEvent
  <2>3. QED BY <1>3, <1>6, <2>1, <2>2
<1>9. CASE /\ HandleTurnStart(c) /\ attached[c] /\ inbox[c] # << >> /\ socket[c] = "open"
           /\ Head(inbox[c]).type = "turn.start"
           /\ wire'[c] = Append(wire[c], TurnAccepted(Head(inbox[c]).turn))
  <2>1. CASE m = TurnAccepted(Head(inbox[c]).turn)
    <3>1. Head(inbox[c]).turn = t
      BY <1>2, <2>1 DEF TurnAccepted
    <3>2. inbox'[c] = Tail(inbox[c])
      BY <1>9 DEF HandleTurnStart, Handles, Typed, TypedReader
    <3>3. QED BY <1>9, <3>1, <3>2 DEF Accepts
  <2>2. QED BY <1>3, <1>6, <1>9, <2>1
<1>10. QED
  BY <1>4, <1>5, <1>7, <1>8, <1>9, WireSteps

\* An accepted turn has not been accepted before.
LEMMA AcceptsFresh ==
    ASSUME Typed, Homes, NEW c \in Conn, NEW t \in Turn, Accepts(c, t)
    PROVE  stage[t] = "sent" /\ home[t] = 0 /\ AskedAt(c, 1, t)
<1>1. inbox[c] \in Seq(Question) /\ inbox[c] # << >>
  BY DEF Accepts, Typed, TypedReader
<1>2. Head(inbox[c]) \in Question /\ Head(inbox[c]) \in ToSet(inbox[c])
  BY <1>1, SetOfTail
<1>3. Asked(c, "turn.start", t)
  BY <1>2 DEF Accepts, Asked
<1>4. Head(inbox[c]) = StartOf(t)
  BY <1>2 DEF Accepts, Question, StartOf
<1>5. AskedAt(c, 1, t)
  BY <1>1, <1>4 DEF AskedAt
<1>6. QED BY <1>3, <1>5 DEF Homes, HomeAt

LEMMA HomesHold == Spec => []Homes
<1>1. Init => Homes
  <2> SUFFICES ASSUME Init, NEW t \in Turn PROVE HomeAt(t)
    BY DEF Homes
  <2>1. /\ stage[t] = "new" /\ home[t] = 0 /\ current = NoTurn /\ page.pendingTurnId = NoTurn
        /\ log = << >>
        /\ \A c \in Conn : inbox[c] = << >> /\ wire[c] = << >> /\ cancelling[c] = NoTurn
    BY DEF Init, Session!Init, InitPage
  <2>2. QED
    BY <2>1, SetOfEmpty, NoTurnAssumption DEF HomeAt, Asked, Accepted, AskedAt
<1>2. Typed /\ Typed' /\ Sockets /\ Genuine /\ Homes /\ [Next]_vars => Homes'
  <2> SUFFICES ASSUME Typed, Typed', Sockets, Genuine, Homes, [Next]_vars, NEW t \in Turn PROVE HomeAt(t)'
    BY DEF Homes
  <2>1. HomeAt(t)
    BY DEF Homes
  <2>2. /\ conn \in 0..MaxConns /\ conn' \in 0..MaxConns /\ conn \in Nat /\ conn' \in Nat
        /\ conn <= conn' /\ Conn = 1..MaxConns /\ MaxConns \in Nat
    <3>1. conn \in 0..MaxConns /\ Conn = 1..MaxConns /\ MaxConns \in Nat
      BY PageSessionAssumption DEF Typed, TypedPage, Conn
    <3>2. conn' = conn \/ (conn' = conn + 1 /\ conn' \in Conn)
      BY SocketSteps
    <3>3. QED BY <3>1, <3>2
  <2>3. \A c \in Conn : inbox[c] # << >> => c \in 1..conn
    BY <2>2 DEF Sockets, SocketAt
  <2>4. ASSUME NEW c \in Conn, Accepts(c, t)
        PROVE  stage[t] = "sent" /\ home[t] = 0 /\ c \in 1..conn /\ AskedAt(c, 1, t)
    BY <2>3, <2>4, AcceptsFresh DEF Accepts
  <2>5. home[t] # 0 => home'[t] = home[t]
    BY <2>4, StageSteps
  <2>6. IF stage'[t] \in {"new", "sent"} THEN home'[t] = 0 ELSE home'[t] \in 1..conn'
    <3>1. \A k \in 1..conn : k \in 1..conn'
      BY <2>2
    <3>2. IF stage[t] \in {"new", "sent"} THEN home[t] = 0 ELSE home[t] \in 1..conn'
      BY <2>1, <3>1 DEF HomeAt
    <3>3. CASE stage'[t] = stage[t] /\ home'[t] = home[t]
      BY <3>2, <3>3
    <3>4. CASE current = t /\ stage'[t] = "done" /\ UNCHANGED home
      BY <2>1, <3>2, <3>4 DEF HomeAt
    <3>5. CASE stage[t] = "accepted" /\ stage'[t] \in {"running", "rejected"} /\ UNCHANGED home
      BY <3>2, <3>5
    <3>6. CASE stage[t] = "new" /\ stage'[t] = "sent" /\ UNCHANGED home
      BY <3>2, <3>6
    <3>7. ASSUME NEW c \in Conn, Accepts(c, t), stage'[t] = "accepted", home'[t] = c
          PROVE  stage'[t] \notin {"new", "sent"} /\ home'[t] \in 1..conn'
      BY <2>4, <3>1, <3>7
    <3>8. QED BY <3>3, <3>4, <3>5, <3>6, <3>7, StageSteps
  <2>7. current' = t => stage'[t] = "running"
    <3>1. CASE current' = current
      BY <2>1, <2>4, <3>1, StageSteps, NoTurnAssumption DEF HomeAt
    <3>2. CASE current' # current /\ current' = t
      <4>1. Register(t)
        BY <3>2, HolderSteps, NoTurnAssumption
      <4>2. QED BY <4>1 DEF Register, Typed, TypedTurns
    <3>3. QED BY <3>1, <3>2
  <2>8. ASSUME page'.pendingTurnId = t
        PROVE  home'[t] \in 1..conn' /\ socket'[home'[t]] \in {"open", "closing"}
    <3>1. home[t] \in 1..conn /\ socket[home[t]] \in {"open", "closing"}
      <4>1. CASE page.pendingTurnId = t
        BY <2>1, <4>1 DEF HomeAt
      <4>2. CASE \E c \in Conn : /\ Receive(c) /\ wire[c] # << >>
                                 /\ Head(wire[c]).type = "turn.accepted"
                                 /\ page'.pendingTurnId = Head(wire[c]).turn
        <5>1. PICK c \in Conn : /\ Receive(c) /\ wire[c] # << >>
                                /\ Head(wire[c]).type = "turn.accepted"
                                /\ page'.pendingTurnId = Head(wire[c]).turn
          BY <4>2
        <5>2. Head(wire[c]) \in ToSet(wire[c])
          BY <5>1, SetOfTail DEF Typed
        <5>3. Accepted(c, t)
          BY <2>8, <5>1, <5>2 DEF Accepted
        <5>4. socket[c] = "open" /\ c = conn
          BY <5>1 DEF Sockets, SocketAt
        <5>5. QED BY <2>1, <2>2, <5>3, <5>4 DEF HomeAt
      <4>3. QED BY <2>8, <4>1, <4>2, PendingSteps, NoTurnAssumption
    <3>2. home'[t] = home[t] /\ home[t] \in 1..conn' /\ home[t] \in Conn
      BY <2>2, <2>5, <3>1
    <3>3. socket'[home[t]] \in {"open", "closing"}
      <4>1. Connect /\ home[t] = conn' => conn' = conn + 1
        BY DEF Connect
      <4>2. QED BY <2>2, <2>8, <3>1, <3>2, <4>1, SocketSteps, NoTurnAssumption
    <3>4. QED BY <3>2, <3>3
  <2>9. ASSUME NEW c \in Conn, Asked(c, "turn.start", t)' PROVE stage'[t] = "sent"
    <3>1. PICK i : AskedAt(c, i, t)'
      <4>1. inbox'[c] \in Seq(Question)
        BY DEF Typed, TypedReader
      <4>2. \E i \in DOMAIN inbox'[c] : inbox'[c][i] = StartOf(t)
        BY <2>9, <4>1, AskedByPlace DEF Asked
      <4>3. QED BY <4>2 DEF AskedAt
    <3>2. CASE SendTurn(t)
      BY <3>2 DEF SendTurn, Typed, TypedTurns
    <3>3. ASSUME NEW k \in {0, 1}, i \in Nat, AskedAt(c, i + k, t) PROVE stage'[t] = "sent"
      <4>1. inbox[c] \in Seq(Question)
        BY DEF Typed, TypedReader
      <4>2. stage[t] = "sent"
        BY <2>1, <3>3, <4>1, AskedByPlace DEF HomeAt, Asked, AskedAt
      <4>3. ASSUME NEW d \in Conn, Accepts(d, t) PROVE FALSE
        <5>1. d = c /\ i + k = 1
          BY <2>1, <2>4, <3>3, <4>3 DEF HomeAt
        <5>2. inbox'[c] = Tail(inbox[c]) /\ inbox[c] # << >>
          BY <4>3, <5>1 DEF Accepts
        <5>3. i \in 1..(Len(inbox[c]) - 1) /\ inbox[c][i + 1] = StartOf(t) /\ i + 1 \in DOMAIN inbox[c]
          BY <3>1, <4>1, <5>2 DEF AskedAt
        <5>4. AskedAt(c, i + 1, t) /\ AskedAt(c, 1, t)
          BY <2>4, <4>3, <5>1, <5>3 DEF AskedAt
        <5>5. i + 1 = 1
          BY <2>1, <5>4 DEF HomeAt
        <5>6. QED BY <5>3, <5>5
      <4>4. QED BY <2>1, <4>2, <4>3, StageSteps DEF HomeAt
    <3>4. QED BY <3>1, <3>2, <3>3, PlaceSteps
  <2>10. ASSUME NEW c \in Conn, Accepted(c, t)' PROVE home'[t] = c
    <3>1. CASE Accepted(c, t)
      BY <2>1, <2>2, <2>5, <3>1 DEF HomeAt
    <3>2. ASSUME Accepts(c, t) PROVE home'[t] = c
      BY <3>2 DEF Accepts, HandleTurnStart, Typed, TypedTurns
    <3>3. QED BY <2>10, <3>1, <3>2, AcceptedSteps
  <2>11. ASSUME NEW c \in Conn, Asked(c, "turn.cancel", t)' \/ cancelling'[c] = t
         PROVE  home'[t] \in 1..c
    <3>1. inbox[c] \in Seq(Question) /\ c \in Nat
      BY <2>2 DEF Typed, TypedReader
    <3>2. home[t] \in 1..c => home'[t] \in 1..c
      BY <2>5, <3>1
    <3>3. CASE Asked(c, "turn.cancel", t) \/ cancelling[c] = t
      BY <2>1, <3>2, <3>3 DEF HomeAt
    <3>4. ASSUME cancelling'[c] = t, cancelling[c] # t PROVE Asked(c, "turn.cancel", t)
      <4>1. inbox[c] # << >> /\ Head(inbox[c]).type = "turn.cancel" /\ Head(inbox[c]).turn = t
        BY <3>4, CancellingSteps, NoTurnAssumption
      <4>2. QED BY <3>1, <4>1, SetOfTail DEF Asked
    <3>5. ASSUME Asked(c, "turn.cancel", t)', ~Asked(c, "turn.cancel", t) PROVE home[t] \in 1..c
      <4>1. PICK m \in ToSet(inbox'[c]) : m.type = "turn.cancel" /\ m.turn = t
        BY <3>5 DEF Asked
      <4>2. m \notin ToSet(inbox[c])
        BY <3>5, <4>1 DEF Asked
      <4>3. c = conn /\ \E q : Asks(q) /\ inbox'[c] = Append(inbox[c], q)
        BY <3>1, <4>1, <4>2, InboxSteps, SetOfEmpty, SetOfTail
      <4>4. c = conn /\ Asks(m)
        BY <3>1, <4>1, <4>2, <4>3, SetOfAppend DEF Asks
      <4>5. QED BY <2>1, <4>1, <4>4 DEF Asks, HomeAt
    <3>6. QED BY <2>11, <3>2, <3>3, <3>4, <3>5
  <2>12. ASSUME NEW c \in Conn, NEW d \in Conn, NEW i, NEW j,
                AskedAt(c, i, t)', AskedAt(d, j, t)'
         PROVE  c = d /\ i = j
    <3>1. \A e \in Conn : Asked(e, "turn.start", t) <=> \E k : AskedAt(e, k, t)
      <4>1. \A e \in Conn : inbox[e] \in Seq(Question)
        BY DEF Typed, TypedReader
      <4>2. QED BY <4>1, AskedByPlace DEF Asked, AskedAt
    <3>2. CASE SendTurn(t)
      <4>1. stage[t] = "new"
        BY <3>2 DEF SendTurn
      <4>2. \A e \in Conn : \A k : ~AskedAt(e, k, t)
        BY <2>1, <3>1, <4>1 DEF HomeAt
      <4>3. c = conn /\ i = Len(inbox[c]) + 1
        BY <2>12, <4>2, PlaceSteps
      <4>4. d = conn /\ j = Len(inbox[d]) + 1
        BY <2>12, <4>2, PlaceSteps
      <4>5. QED BY <4>3, <4>4
    <3>3. CASE ~SendTurn(t)
      <4>1. PICK k \in {0, 1} : \A a, u : AskedAt(c, a, u)' =>
                    \/ a \in Nat /\ AskedAt(c, a + k, u)
                    \/ c = conn /\ SendTurn(u) /\ a = Len(inbox[c]) + 1
        BY PlaceSteps
      <4>2. PICK l \in {0, 1} : \A a, u : AskedAt(d, a, u)' =>
                    \/ a \in Nat /\ AskedAt(d, a + l, u)
                    \/ d = conn /\ SendTurn(u) /\ a = Len(inbox[d]) + 1
        BY PlaceSteps
      <4>3. i \in Nat /\ j \in Nat /\ AskedAt(c, i + k, t) /\ AskedAt(d, j + l, t)
        BY <2>12, <3>3, <4>1, <4>2
      <4>4. c = d
        BY <2>1, <4>3 DEF HomeAt
      <4>5. j \in Nat /\ AskedAt(c, j + k, t)
        BY <2>12, <3>3, <4>1, <4>4
      <4>6. i + k = j + k
        BY <2>1, <4>3, <4>5 DEF HomeAt
      <4>7. QED BY <4>3, <4>4, <4>6
    <3>4. QED BY <3>2, <3>3
  <2>13. ASSUME NEW i \in 1..Len(log'), log'[i].turn = t PROVE stage'[t] \notin {"new", "sent"}
    <3>1. ASSUME stage[t] \notin {"new", "sent"} PROVE stage'[t] \notin {"new", "sent"}
      BY <2>4, <3>1, StageSteps
    <3>2. Len(log) \in Nat /\ Len(log') \in {Len(log), Len(log) + 1}
          /\ \A k \in 1..Len(log) : log'[k] = log[k]
      BY LogStays
    <3>3. CASE i \in 1..Len(log)
      BY <2>1, <2>13, <3>1, <3>2, <3>3 DEF HomeAt
    <3>4. ASSUME i \notin 1..Len(log) PROVE stage[t] \notin {"new", "sent"}
      <4>1. i = Len(log) + 1 /\ log' # log
        BY <3>2, <3>4
      <4>2. ASSUME NEW type, NEW u, Adding(type, u) PROVE u = t
        BY <2>13, <4>1, <4>2 DEF Adding
      <4>3. CASE \E c \in Conn : HandleCreate(c) /\ Adding("session.created", NoTurn)
        BY <4>2, <4>3, NoTurnAssumption
      <4>4. CASE \E type \in EventType \ {"session.created"} :
                    Speak /\ current \in Turn /\ Adding(type, current)
        BY <2>1, <4>2, <4>4 DEF HomeAt
      <4>5. CASE \E c \in Conn : Announce(c) /\ cancelling[c] \in Turn
                                    /\ Adding("turn.cancelled", cancelling[c])
        <5>1. PICK c \in Conn : cancelling[c] = t
          BY <4>2, <4>5
        <5>2. home[t] \in 1..c
          BY <2>1, <5>1 DEF HomeAt
        <5>3. home[t] # 0
          BY <2>2, <5>2
        <5>4. QED BY <2>1, <5>3 DEF HomeAt
      <4>6. QED BY <4>1, <4>3, <4>4, <4>5, LogSteps
    <3>5. QED BY <3>1, <3>3, <3>4
  <2>14. QED
    BY <2>6, <2>7, <2>8, <2>9, <2>10, <2>11, <2>12, <2>13 DEF HomeAt
<1>3. QED
  BY <1>1, <1>2, TypedHolds, SocketsHold, GenuineHolds, PTL DEF Spec

-----------------------------------------------------------------------------
(* Nothing is missed *)

\* What is on its way to the page on its connection, and the numbers of the events in it.
Underway == ToSet(wire[conn]) \cup ToSet(out[conn]) \cup {SessionEvent(e) : e \in ToSet(unsent)}
Numbers(S) == {m.event.seq : m \in {x \in S : x.type = "session.event"}}

\* The page of a connection with the session hears of every event on it.
Covered ==
    /\ Open /\ attached[conn] /\ \A t \in Turn : home[t] \in {0, conn}
    /\ \A m \in ToSet(inbox[conn]) : m.type # "session.attach"
    => 1..Len(log) \subseteq ToSet(told) \cup strays \cup Numbers(Underway)

\* A reader announces a cancellation when it has sent all else.
Replied == \A c \in Conn : cancelling[c] # NoTurn => out[c] = << >>

LEMMA RepliedHolds == Spec => []Replied
<1>1. Init => Replied
  BY DEF Init, Replied
<1>2. Typed /\ Replied /\ [Next]_vars => Replied'
  <2> SUFFICES ASSUME Typed, Replied, [Next]_vars, NEW c \in Conn, cancelling'[c] # NoTurn
               PROVE  out'[c] = << >>
    BY DEF Replied
  <2>1. DOMAIN cancelling = Conn
    BY DEF Typed, TypedReader
  <2>2. ASSUME Announce(c) PROVE FALSE
    BY <2>1, <2>2 DEF Announce
  <2>3. CASE cancelling[c] # NoTurn
    <3>1. ~HandleCreate(c) /\ ~HandleAttach(c)
      BY <2>3 DEF HandleCreate, HandleAttach, Handles
    <3>2. QED BY <2>2, <2>3, <3>1, OutSteps DEF Replied
  <2>4. CASE cancelling[c] = NoTurn
    <3>1. HandleTurnCancel(c)
      BY <2>2, <2>4, CancellingSteps
    <3>2. QED BY <3>1 DEF HandleTurnCancel, Handles
  <2>5. QED BY <2>3, <2>4
<1>3. QED
  BY <1>1, <1>2, TypedHolds, PTL DEF Spec

\* What is on its way on an open connection stays so until the page receives it.
LEMMA UnderwayStep ==
    ASSUME Typed, Genuine, Replied, [Next]_vars, Open, Open', conn' = conn,
           NEW m \in Underway, m \in {SessionEvent(e) : e \in ToSet(unsent)} => home[current] = conn
    PROVE  m \in Underway' \/ (Receive(conn) /\ wire[conn] # << >> /\ m = Head(wire[conn]))
<1>1. /\ conn \in Conn /\ wire[conn] \in Seq(Message) /\ out[conn] \in Seq(Message)
      /\ socket[conn] = "open" /\ socket'[conn] = "open"
  <2>1. socket[conn] = "open" /\ socket'[conn] = "open"
    BY DEF Open
  <2>2. conn \in Conn
    BY PageSessionAssumption DEF Open, Typed, TypedPage, Conn
  <2>3. QED BY <2>1, <2>2 DEF Typed, TypedReader
<1>2. ~Connect /\ ~Drop
  <2>1. Drop => socket'[conn] = "closing"
    BY <1>1 DEF Drop, Typed
  <2>2. Connect => conn' = conn + 1
    BY DEF Connect
  <2>3. QED BY <1>1, <2>1, <2>2 DEF Conn
<1>3. Underway' = ToSet(wire'[conn]) \cup ToSet(out'[conn])
                     \cup {SessionEvent(e) : e \in ToSet(unsent')}
  BY DEF Underway
<1>4. CASE m \in ToSet(wire[conn])
  <2>1. CASE Receive(conn) /\ wire[conn] # << >> /\ wire'[conn] = Tail(wire[conn])
    BY <1>1, <1>3, <1>4, <2>1, SetOfTail
  <2>2. CASE wire'[conn] = wire[conn] \/ \E x : wire'[conn] = Append(wire[conn], x)
    BY <1>1, <1>3, <1>4, <2>2, SetOfAppend
  <2>3. QED BY <1>1, <1>2, <2>1, <2>2, WireSteps
<1>5. CASE m \in ToSet(out[conn])
  <2>1. out[conn] # << >>
    BY <1>5, SetOfEmpty
  <2>2. ~Announce(conn)
    BY <1>1, <2>1 DEF Announce, Replied
  <2>3. CASE SendReply(conn) /\ out'[conn] = Tail(out[conn])
    <3>1. wire'[conn] = Append(wire[conn], Head(out[conn]))
      BY <1>1, <2>3 DEF SendReply, Typed
    <3>2. Head(out[conn]) \in ToSet(wire'[conn])
      BY <1>1, <3>1, SetOfAppend
    <3>3. QED BY <1>1, <1>3, <1>5, <2>1, <2>3, <3>2, SetOfTail
  <2>4. CASE out'[conn] = out[conn]
    BY <1>3, <1>5, <2>4
  <2>5. QED BY <1>1, <2>1, <2>2, <2>3, <2>4, OutSteps
<1>6. CASE m \in {SessionEvent(e) : e \in ToSet(unsent)}
  <2>1. PICK e \in ToSet(unsent) : m = SessionEvent(e)
    BY <1>6
  <2>2. unsent # << >> /\ unsent = <<e>> /\ Head(unsent) = e
    BY <2>1, SetOfEmpty, SetOfOne DEF Genuine
  <2>3. CASE UNCHANGED unsent
    BY <1>3, <1>6, <2>3
  <2>4. CASE SendLive
    <3>1. wire'[conn] = Append(wire[conn], SessionEvent(e))
      BY <1>1, <1>6, <2>2, <2>4 DEF SendLive, Typed
    <3>2. QED BY <1>1, <1>3, <2>1, <3>1, SetOfAppend
  <2>5. ~LoseLive
    BY <1>1, <1>6 DEF LoseLive
  <2>6. QED BY <2>2, <2>3, <2>4, <2>5, UnsentSteps
<1>7. QED BY <1>4, <1>5, <1>6 DEF Underway

\* An event that is on its way counts.
LEMMA NumberOfEvent == ASSUME NEW S, NEW e, SessionEvent(e) \in S PROVE e.seq \in Numbers(S)
<1>1. SessionEvent(e).type = "session.event" /\ SessionEvent(e).event = e
  BY DEF SessionEvent
<1>2. QED BY <1>1 DEF Numbers

\* What the page has heard of, it knows of until it is cleared.
LEMMA KnownStep ==
    ASSUME Typed, [Next]_vars, ~(CreateSession \/ AttachSession)
    PROVE  /\ ToSet(told) \subseteq ToSet(told') /\ strays \subseteq strays'
           /\ \A c \in Conn :
                Receive(c) /\ wire[c] # << >> /\ Head(wire[c]).type = "session.event"
                    => Head(wire[c]).event.seq \in ToSet(told') \cup strays'
<1>1. ASSUME NEW c \in Conn, Notices(c)
      PROVE  /\ ToSet(told) \subseteq ToSet(told') /\ strays \subseteq strays'
             /\ Head(wire[c]).event.seq \in ToSet(told') \cup strays'
  BY <1>1, Noticed
<1>2. /\ ToSet(told) \subseteq ToSet(told') /\ strays \subseteq strays'
  <2>1. Keeps => told' = told /\ strays' = strays
    BY DEF Keeps, history
  <2>2. QED BY <1>1, <2>1, PageSteps
<1>3. ASSUME NEW c \in Conn, Receive(c), wire[c] # << >>, Head(wire[c]).type = "session.event"
      PROVE  Notices(c)
  BY <1>3 DEF Notices, Receive, Reduce
<1>4. QED BY <1>1, <1>2, <1>3

\* The answer to session.attach holds the whole log.
LEMMA ReplayHolds ==
    ASSUME Typed
    PROVE  \A i \in 1..Len(log) :
                SessionEvent(log[i]) \in ToSet(<<SessionReady(Len(log))>> \o Events)
<1>1. /\ Len(log) \in Nat /\ \A i \in 1..Len(log) : log[i] \in Proper
  BY DEF Typed, TypedSession
<1>2. SessionReady(Len(log)) \in Message
  BY <1>1 DEF SessionReady, Message
<1>3. Events \in Seq(Message) /\ Len(Events) = Len(log) /\ DOMAIN Events = 1..Len(log)
  <2>1. \A i \in 1..Len(log) : SessionEvent(log[i]) \in Message
    BY <1>1 DEF SessionEvent, Message
  <2>2. QED BY <1>1, <2>1 DEF Events
<1>4. ASSUME NEW i \in 1..Len(log)
      PROVE  SessionEvent(log[i]) \in ToSet(<<SessionReady(Len(log))>> \o Events)
  <2>1. Events[i] = SessionEvent(log[i])
    BY DEF Events
  <2>2. ToSet(<<SessionReady(Len(log))>> \o Events) = {SessionReady(Len(log))} \cup ToSet(Events)
    BY <1>2, <1>3, SetOfConcat
  <2>3. SessionEvent(log[i]) \in ToSet(Events)
    BY <1>3, <2>1 DEF ToSet
  <2>4. QED BY <2>2, <2>3
<1>5. QED BY <1>4

\* An open connection was open before, unless it is a new one.
LEMMA OpenBefore == ASSUME Typed, [Next]_vars, Open', conn' = conn PROVE Open
<1>1. conn \in Conn /\ conn \in Nat /\ socket'[conn] = "open"
  BY PageSessionAssumption DEF Open, Typed, TypedPage, Conn
<1>2. ~Connect
  BY <1>1 DEF Connect
<1>3. OnClose(conn) => socket'[conn] = "closed"
  BY <1>1 DEF OnClose, Typed
<1>4. socket[conn] = "open"
  BY <1>1, <1>2, <1>3, SocketSteps
<1>5. QED BY <1>4 DEF Open

LEMMA CoveredHolds == Spec => []Covered
<1>1. Init => Covered
  BY DEF Init, Covered, Open
<1>2. Typed /\ Typed' /\ Sockets /\ Beginning /\ Genuine /\ Homes /\ Replied /\ Covered /\ [Next]_vars
        => Covered'
  <2> SUFFICES ASSUME Typed, Typed', Sockets, Beginning, Genuine, Homes, Replied, Covered,
                      [Next]_vars,
                      Open', attached'[conn'], \A t \in Turn : home'[t] \in {0, conn'},
                      \A m \in ToSet(inbox'[conn']) : m.type # "session.attach",
                      NEW n \in 1..Len(log')
               PROVE  n \in ToSet(told') \cup strays' \cup Numbers(Underway')
    BY DEF Covered, Numbers
  <2>1. conn' = conn /\ conn \in Conn /\ conn \in Nat
    <3>1. conn \in 0..MaxConns /\ conn \in Nat /\ Conn = 1..MaxConns
      BY PageSessionAssumption DEF Typed, TypedPage, Conn
    <3>2. ~Connect
      <4> SUFFICES ASSUME Connect PROVE FALSE
        OBVIOUS
      <4>1. conn' = conn + 1 /\ attached' = attached /\ conn' \in Conn /\ conn' > conn
        BY <3>1, PageSessionAssumption DEF Connect, reader
      <4>2. QED BY <4>1 DEF Sockets, SocketAt
    <3>3. conn' = conn
      BY <3>2, SocketSteps
    <3>4. QED BY <3>1, <3>3 DEF Open
  <2>2. Open
    BY <2>1, OpenBefore
  <2>3. \A t \in Turn : home[t] \in {0, conn}
    <3> TAKE t \in Turn
    <3>1. home'[t] = home[t] \/ home[t] = 0
      <4>1. ASSUME NEW c \in Conn, Accepts(c, t) PROVE home[t] = 0
        BY <4>1, AcceptsFresh
      <4>2. QED BY <4>1, StageSteps
    <3>2. QED BY <2>1, <3>1
  <2>4. \A t \in Turn : current = t => home[t] = conn
    BY <2>1, <2>3 DEF Homes, HomeAt
  <2>5. CASE HandleAttach(conn)
    <3>1. log' = log /\ out'[conn] = <<SessionReady(Len(log))>> \o Events
      BY <2>1, <2>5 DEF HandleAttach, session, Typed, TypedReader
    <3>2. SessionEvent(log[n]) \in Underway'
      BY <2>1, <3>1, ReplayHolds DEF Underway
    <3>3. log[n].seq = n
      BY <3>1 DEF Genuine, Numbered
    <3>4. QED BY <3>2, <3>3, NumberOfEvent
  <2>6. CASE HandleCreate(conn)
    <3>1. log = << >>
      <4>1. Head(inbox[conn]) \in ToSet(inbox[conn]) /\ Head(inbox[conn]).type = "session.create"
        BY <2>1, <2>6, SetOfTail DEF HandleCreate, Handles, Typed, TypedReader
      <4>2. QED BY <2>1, <4>1 DEF Beginning
    <3>2. out'[conn] = <<SessionReady(1), SessionEvent(log'[1])>> /\ Session!Adds("session.created", NoTurn)
      BY <2>1, <2>6 DEF HandleCreate, Typed, TypedReader
    <3>3. n = 1 /\ log'[1].seq = 1
      <4>1. log' = <<[type |-> "session.created", turn |-> NoTurn, seq |-> 1]>>
        BY <3>1, <3>2 DEF Session!Adds, Session!Stamp
      <4>2. QED BY <4>1
    <3>4. SessionEvent(log'[1]) \in Underway'
      BY <2>1, <3>2, SetOfTwo DEF Underway
    <3>5. QED BY <3>3, <3>4, NumberOfEvent
  <2>7. CASE ~HandleAttach(conn) /\ ~HandleCreate(conn)
    <3>1. attached[conn]
      <4>1. attached'[conn] = attached[conn]
        BY <2>1, <2>7, AttachedSteps
      <4>2. QED BY <2>1, <4>1
    <3>2. \A m \in ToSet(inbox[conn]) : m.type # "session.attach"
      <4>1. inbox[conn] \in Seq(Question) /\ socket[conn] = "open"
        BY <2>1, <2>2 DEF Typed, TypedReader, Open
      <4>2. CASE inbox'[conn] = inbox[conn]
        BY <2>1, <4>2
      <4>3. CASE inbox[conn] # << >> /\ inbox'[conn] = Tail(inbox[conn])
                 /\ Head(inbox[conn]).type # "session.attach"
        BY <2>1, <4>1, <4>3, SetOfTail
      <4>4. CASE \E m : Asks(m) /\ inbox'[conn] = Append(inbox[conn], m)
        BY <2>1, <4>1, <4>4, SetOfAppend
      <4>5. QED BY <2>1, <2>7, <4>1, <4>2, <4>3, <4>4, InboxSteps
    <3>3. \A k \in 1..Len(log) : k \in ToSet(told) \cup strays \cup Numbers(Underway)
      BY <2>2, <2>3, <3>1, <3>2 DEF Covered
    <3>4. ~AttachSession /\ (CreateSession => log = << >> /\ log' = log)
      <4>1. ASSUME AttachSession PROVE FALSE
        <5>1. inbox'[conn] = Append(inbox[conn], [type |-> "session.attach"])
          BY <2>1, <2>2, <4>1 DEF AttachSession, Send, Typed, TypedReader
        <5>2. [type |-> "session.attach"] \in ToSet(inbox'[conn])
          BY <2>1, <5>1, SetOfAppend DEF Typed, TypedReader
        <5>3. QED BY <2>1, <5>2
      <4>2. QED BY <4>1 DEF CreateSession, session
    <3>5. CASE n \in 1..Len(log)
      <4>1. ~CreateSession
        BY <3>4, <3>5
      <4>2. CASE n \in ToSet(told) \cup strays
        BY <3>4, <4>1, <4>2, KnownStep
      <4>3. CASE n \in Numbers(Underway)
        <5>1. PICK m \in Underway : m.type = "session.event" /\ n = m.event.seq
          BY <4>3 DEF Numbers
        <5>2. m \in {SessionEvent(e) : e \in ToSet(unsent)} => home[current] = conn
          <6>1. current = NoTurn => unsent = << >>
            BY DEF Genuine
          <6>2. current \in Turn \cup {NoTurn}
            BY DEF Typed, TypedSession
          <6>3. QED BY <2>4, <6>1, <6>2, SetOfEmpty
        <5>3. m \in Underway' \/ (Receive(conn) /\ wire[conn] # << >> /\ m = Head(wire[conn]))
          BY <2>1, <2>2, <5>2, UnderwayStep
        <5>4. m \in Underway' => n \in Numbers(Underway')
          BY <5>1 DEF Numbers
        <5>5. QED BY <2>1, <3>4, <4>1, <5>1, <5>3, <5>4, KnownStep
      <4>4. QED BY <3>3, <3>5, <4>2, <4>3
    <3>6. CASE n \notin 1..Len(log)
      <4>1. n = Len(log) + 1 /\ n = Len(log') /\ log' # log
        BY <3>6, LogStays
      <4>2. ASSUME NEW type, NEW t, Adding(type, t) PROVE Last(log').seq = n
        BY <4>1, <4>2 DEF Adding
      <4>3. CASE \E c \in Conn : HandleCreate(c)
        <5>1. PICK c \in Conn : HandleCreate(c)
          BY <4>3
        <5>2. Head(inbox[c]) \in ToSet(inbox[c]) /\ Head(inbox[c]).type = "session.create"
          BY <5>1, SetOfTail DEF HandleCreate, Handles, Typed, TypedReader
        <5>3. QED BY <2>1, <3>1, <5>2 DEF Beginning, Untouched
      <4>4. CASE \E type \in EventType \ {"session.created"} :
                    Speak /\ current \in Turn /\ Adding(type, current)
        <5>1. unsent' = <<Last(log')>> /\ Last(log').seq = n
          BY <4>2, <4>4 DEF Speak
        <5>2. SessionEvent(Last(log')) \in Underway'
          BY <5>1, SetOfOne DEF Underway
        <5>3. QED BY <5>1, <5>2, NumberOfEvent
      <4>5. CASE \E c \in Conn : /\ Announce(c) /\ cancelling[c] \in Turn
                                 /\ Adding("turn.cancelled", cancelling[c])
        <5>1. PICK c \in Conn : /\ Announce(c) /\ cancelling[c] \in Turn
                                /\ Adding("turn.cancelled", cancelling[c])
          BY <4>5
        <5>2. c = conn
          <6>1. home[cancelling[c]] \in 1..c /\ c \in Nat
            BY <5>1 DEF Homes, HomeAt, Conn
          <6>2. home[cancelling[c]] = conn /\ conn <= c
            BY <2>1, <2>3, <5>1, <6>1
          <6>3. ~(c > conn)
            BY <5>1, NoTurnAssumption DEF Sockets, SocketAt
          <6>4. QED BY <2>1, <6>1, <6>2, <6>3
        <5>3. out'[conn] = <<SessionEvent(Last(log'))>>
          BY <2>1, <5>1, <5>2 DEF Announce, Typed, TypedReader
        <5>4. SessionEvent(Last(log')) \in Underway'
          BY <2>1, <5>3, SetOfOne DEF Underway
        <5>5. QED BY <4>2, <5>1, <5>4, NumberOfEvent
      <4>6. QED BY <4>1, <4>3, <4>4, <4>5, LogSteps
    <3>7. QED BY <3>5, <3>6
  <2>8. QED BY <2>5, <2>6, <2>7
<1>3. QED
  BY <1>1, <1>2, TypedHolds, SocketsHold, BeginningHolds, GenuineHolds, HomesHold, RepliedHolds,
     PTL DEF Spec

\* The replay of the log and the live events leave no gap between them: a page whose turns
\* all ran on its connection has taken in every event, except those whose numbers it has
\* met in events of another session.
THEOREM NothingMissedHolds == Spec => []NothingMissed
<1>1. Typed /\ Covered /\ Genuine /\ Remembered => NothingMissed
  <2> SUFFICES ASSUME Typed, Covered, Genuine, Remembered, AtRest, Fits,
                      \A t \in Turn : home[t] \in {0, conn},
                      NEW n \in 1..Len(log), n \notin strays
               PROVE  n \in shown
    BY DEF NothingMissed
  <2>1. conn # 0 /\ conn \in Conn /\ Open
    BY PageSessionAssumption DEF AtRest, Open, Typed, TypedPage, Conn
  <2>2. inbox[conn] = << >> /\ out[conn] = << >> /\ wire[conn] = << >> /\ unsent = << >>
    BY <2>1 DEF AtRest, Genuine
  <2>3. Underway = {}
    BY <2>2, SetOfEmpty DEF Underway
  <2>4. n \in ToSet(told)
    <3>1. Numbers(Underway) = {}
      BY <2>3 DEF Numbers
    <3>2. QED BY <2>1, <2>2, <3>1, SetOfEmpty DEF Covered, AtRest
  <2>5. QED BY <2>4 DEF Remembered, Recalls
<1>2. QED
  BY <1>1, TypedHolds, CoveredHolds, GenuineHolds, RememberedHolds, PTL

-----------------------------------------------------------------------------
(* Waiting for the end of a turn *)

\* The page waits for turn t, or is about to.
Waits(t) == page.pendingTurnId = t \/ \E c \in Conn : Accepted(c, t)

EndsOf(t) == {n \in 1..Len(log) : Ends(log[n], t)}
IsEnd(m, t) == m.type = "session.event" /\ Ends(m.event, t)

\* On a connection the acceptance of a turn comes before its ends.
InTurn(c, t) ==
    \A i, j \in DOMAIN wire[c] :
        /\ wire[c][i].type = "turn.accepted" /\ wire[c][i].turn = t
        /\ IsEnd(wire[c][j], t)
        => i < j

\* The page that waits for a turn will get its end: the turn is still to come or to end,
\* a reader is to announce it, it is on its way, or its number has been taken.
EndToCome(t) ==
    \/ stage[t] \in {"accepted", "rejected"}
    \/ current = t /\ phase # "over" /\ ~cancelEmitted
    \/ cancelling[conn] = t
    \/ \E m \in Underway : IsEnd(m, t)
    \/ ~Accepted(conn, t) /\ EndsOf(t) \cap strays # {}

AwaitedAt(t) ==
    /\ Waits(t) => EndsOf(t) \cap ToSet(page.seenSeqs) \subseteq strays
    /\ \A c \in Conn : InTurn(c, t)
    /\ Open /\ home[t] = conn /\ Waits(t) => EndToCome(t)
Awaited == \A t \in Turn : AwaitedAt(t)

\* What arrives and is an end of a turn is the event of the log with its number.
LEMMA EndOnWire ==
    ASSUME Genuine, NEW c \in Conn, NEW m \in ToSet(wire[c]), NEW t \in Turn, IsEnd(m, t)
    PROVE  ~Foreign(m) /\ Logged(m.event) /\ m.event.seq \in EndsOf(t)
<1>1. ~Foreign(m)
  BY DEF IsEnd, Ends, TerminalType, Foreign
<1>2. Logged(m.event)
  BY <1>1 DEF Genuine, Travels, IsEnd
<1>3. QED BY <1>1, <1>2 DEF Logged, EndsOf, IsEnd

\* A page that still waits for a turn whose end it receives has met the number before.
LEMMA EndReceived ==
    ASSUME Typed, Sockets, Genuine, Awaited, [Next]_vars, NEW c \in Conn, NEW t \in Turn,
           Receive(c), wire[c] # << >>, IsEnd(Head(wire[c]), t)
    PROVE  /\ \A d \in Conn : ~Accepted(d, t)'
           /\ Waits(t)' => /\ page.pendingTurnId = t
                           /\ Head(wire[c]).event.seq \in ToSet(page.seenSeqs)
<1>1. /\ wire[c] \in Seq(Message) /\ wire' = [wire EXCEPT ![c] = Tail(@)]
      /\ \A d \in Conn : d # c => wire'[d] = wire[d] /\ wire[d] = << >>
  BY DEF Receive, Typed, Sockets, SocketAt
<1>2. ASSUME NEW d \in Conn, Accepted(d, t)' PROVE FALSE
  <2>1. PICK m \in ToSet(wire'[d]) : m.type = "turn.accepted" /\ m.turn = t
    BY <1>2 DEF Accepted
  <2>2. d = c /\ wire'[c] = Tail(wire[c])
    BY <1>1, <2>1, SetOfEmpty DEF Typed
  <2>3. PICK i \in 1..(Len(wire[c]) - 1) : m = wire[c][i + 1]
    <3>1. /\ DOMAIN Tail(wire[c]) = 1..(Len(wire[c]) - 1)
          /\ \A i \in 1..(Len(wire[c]) - 1) : Tail(wire[c])[i] = wire[c][i + 1]
      BY <1>1
    <3>2. m \in ToSet(Tail(wire[c]))
      BY <2>1, <2>2
    <3>3. QED BY <3>1, <3>2 DEF ToSet
  <2>4. 1 \in DOMAIN wire[c] /\ i + 1 \in DOMAIN wire[c] /\ Head(wire[c]) = wire[c][1]
    BY <1>1, <2>3
  <2>5. i + 1 < 1
    BY <2>1, <2>3, <2>4 DEF Awaited, AwaitedAt, InTurn
  <2>6. QED BY <2>3, <2>5
<1>3. ASSUME page'.pendingTurnId = t
      PROVE  page.pendingTurnId = t /\ Head(wire[c]).event.seq \in ToSet(page.seenSeqs)
  <2>1. Notices(c)
    BY DEF IsEnd, Notices, Receive, Reduce
  <2>2. page.seenSeqs \in Seq(Nat)
    BY DEF Typed, TypedPage, Page
  <2>3. CASE Contains(page.seenSeqs, Head(wire[c]).event.seq)
    BY <1>3, <2>1, <2>2, <2>3, Noticed, ContainsIs
  <2>4. CASE ~Contains(page.seenSeqs, Head(wire[c]).event.seq)
    <3>1. page'.pendingTurnId = PendingAfter(page.pendingTurnId, Head(wire[c]).event)
      BY <2>1, <2>4, Noticed
    <3>2. QED BY <1>3, <3>1, NoTurnAssumption DEF PendingAfter, IsEnd
  <2>5. QED BY <2>3, <2>4
<1>4. QED BY <1>2, <1>3 DEF Waits

\* The page comes to wait for a turn when the turn is accepted.
LEMMA WaitsBefore ==
    ASSUME Typed, Genuine, [Next]_vars, NEW t \in Turn, Waits(t)'
    PROVE  \/ Waits(t)
           \/ \E c \in Conn : /\ Accepts(c, t) /\ wire'[c] = Append(wire[c], TurnAccepted(t))
                              /\ socket[c] = "open"
<1>1. ASSUME page'.pendingTurnId = t PROVE Waits(t)
  <2>1. ASSUME NEW c \in Conn, wire[c] # << >>, Head(wire[c]).type = "turn.accepted",
               page'.pendingTurnId = Head(wire[c]).turn
        PROVE  Accepted(c, t)
    <3>1. Head(wire[c]) \in ToSet(wire[c])
      BY <2>1, SetOfTail DEF Typed
    <3>2. QED BY <1>1, <2>1, <3>1 DEF Accepted
  <2>2. QED BY <1>1, <2>1, PendingSteps, NoTurnAssumption DEF Waits
<1>2. QED BY <1>1, AcceptedSteps DEF Waits

\* Nothing of a turn is in the log before it is accepted.
LEMMA NoEndYet ==
    ASSUME Typed, Homes, NEW c \in Conn, NEW t \in Turn, Accepts(c, t)
    PROVE  UNCHANGED log /\ EndsOf(t) = {} /\ EndsOf(t)' = {}
<1>1. UNCHANGED log
  BY DEF Accepts, HandleTurnStart, session
<1>2. \A i \in 1..Len(log) : log[i].turn # t
  BY AcceptsFresh DEF Homes, HomeAt
<1>3. QED BY <1>1, <1>2 DEF EndsOf, Ends

LEMMA EndsStay ==
    ASSUME Typed, [Next]_vars, NEW t \in Turn
    PROVE  EndsOf(t) \subseteq EndsOf(t)' /\ EndsOf(t)' \cap 1..Len(log) \subseteq EndsOf(t)
BY LogStays DEF EndsOf

LEMMA EndsUnseen ==
    ASSUME Typed, Sockets, Genuine, Homes, Awaited, [Next]_vars, NEW t \in Turn, Waits(t)'
    PROVE  EndsOf(t)' \cap ToSet(page'.seenSeqs) \subseteq strays'
<1>1. CASE ~Waits(t)
  BY <1>1, WaitsBefore, NoEndYet
<1>2. ASSUME Waits(t), NEW n \in EndsOf(t)', n \in ToSet(page'.seenSeqs) PROVE n \in strays'
  <2>1. n \in ToSet(page.seenSeqs) => n \in strays
    <3>1. n \in ToSet(page.seenSeqs) => n \in strays \/ n \in 1..Len(log)
      BY DEF Genuine
    <3>2. EndsOf(t) \cap ToSet(page.seenSeqs) \subseteq strays
      BY <1>2 DEF Awaited, AwaitedAt
    <3>3. QED BY <1>2, <3>1, <3>2, EndsStay
  <2>2. CASE Keeps
    BY <1>2, <2>1, <2>2 DEF Keeps, history
  <2>3. CASE Forgets
    BY <1>2, <2>3, SetOfEmpty DEF Forgets
  <2>4. ASSUME NEW c \in Conn, Notices(c) PROVE n \in strays'
    <3> DEFINE m == Head(wire[c])
    <3>1. m \in ToSet(wire[c]) /\ Receive(c) /\ wire[c] # << >> /\ m.type = "session.event"
      BY <2>4, Noticed DEF Notices
    <3>2. strays \subseteq strays'
      BY <2>4, Noticed
    <3>3. CASE n \in ToSet(page.seenSeqs)
      BY <2>1, <3>2, <3>3
    <3>4. CASE n \notin ToSet(page.seenSeqs)
      <4>1. n = m.event.seq
        <5>1. page.seenSeqs \in Seq(Nat)
          BY DEF Typed, TypedPage, Page
        <5>2. page'.seenSeqs = Remember(page.seenSeqs, m.event.seq) /\ m.event.seq \in Nat
          BY <1>2, <2>4, <3>4, Noticed
        <5>3. ToSet(page'.seenSeqs) \subseteq ToSet(Append(page.seenSeqs, m.event.seq))
          <6> DEFINE all == Append(page.seenSeqs, m.event.seq)
          <6>1. all \in Seq(Nat) /\ Len(all) = Len(page.seenSeqs) + 1 /\ Len(page.seenSeqs) \in Nat
            BY <5>1, <5>2
          <6>b. all # << >>
            BY <6>1
          <6>2. page'.seenSeqs \in {all, Tail(all)}
            BY <5>2 DEF Remember
          <6> HIDE DEF all
          <6>3. ToSet(page'.seenSeqs) \subseteq ToSet(all)
            BY <6>1, <6>b, <6>2, SetOfTail
          <6>4. QED BY <6>3 DEF all
        <5>4. QED BY <1>2, <3>4, <5>1, <5>2, <5>3, SetOfAppend
      <4>2. CASE Foreign(m)
        BY <2>4, <4>1, <4>2, Noticed
      <4>3. CASE ~Foreign(m)
        <5>1. Logged(m.event)
          BY <3>1, <4>3 DEF Genuine, Travels
        <5>2. Ends(m.event, t)
          BY <1>2, <4>1, <5>1, LogStays DEF EndsOf, Logged
        <5>3. IsEnd(m, t)
          BY <3>1, <5>2 DEF IsEnd
        <5>4. QED BY <3>1, <3>4, <4>1, <5>3, EndReceived
      <4>4. QED BY <4>2, <4>3
    <3>5. QED BY <3>3, <3>4
  <2>5. QED BY <2>2, <2>3, <2>4, PageSteps
<1>3. QED BY <1>1, <1>2

LEMMA InTurnStep ==
    ASSUME Typed, Genuine, Homes, Awaited, [Next]_vars, NEW t \in Turn, NEW c \in Conn
    PROVE  InTurn(c, t)'
<1> SUFFICES ASSUME NEW i \in DOMAIN wire'[c], NEW j \in DOMAIN wire'[c],
                    wire'[c][i].type = "turn.accepted", wire'[c][i].turn = t,
                    IsEnd(wire'[c][j], t)
             PROVE  i < j
  BY DEF InTurn, IsEnd
<1>1. InTurn(c, t) /\ wire[c] \in Seq(Message) /\ out[c] \in Seq(Message)
      /\ DOMAIN wire[c] = 1..Len(wire[c]) /\ Len(wire[c]) \in Nat
  BY DEF Awaited, AwaitedAt, Typed, TypedReader
<1>2. i # j
  BY DEF IsEnd
<1>3. CASE wire'[c] = wire[c]
  BY <1>1, <1>3 DEF InTurn
<1>4. CASE wire'[c] = << >> \/ wire'[c] = <<ConnectionReady>>
  <2>1. i = 1 /\ j = 1
    BY <1>4
  <2>2. QED BY <1>2, <2>1
<1>5. CASE wire[c] # << >> /\ wire'[c] = Tail(wire[c])
  <2>1. /\ DOMAIN wire'[c] = 1..(Len(wire[c]) - 1)
        /\ \A k \in 1..(Len(wire[c]) - 1) : wire'[c][k] = wire[c][k + 1]
    BY <1>1, <1>5
  <2>2. i + 1 \in DOMAIN wire[c] /\ j + 1 \in DOMAIN wire[c] /\ i \in Int /\ j \in Int
    BY <1>1, <2>1
  <2>3. i + 1 < j + 1
    BY <1>1, <2>1, <2>2 DEF InTurn
  <2>4. QED BY <2>2, <2>3
<1>6. ASSUME NEW x, wire'[c] = Append(wire[c], x)
      PROVE  /\ i \in DOMAIN wire[c] \/ x.type = "turn.accepted"
             /\ i < j \/ (j \in DOMAIN wire[c] /\ IsEnd(wire[c][j], t) /\ x = wire'[c][i])
  <2>1. /\ DOMAIN wire'[c] = 1..(Len(wire[c]) + 1)
        /\ \A k \in 1..Len(wire[c]) : wire'[c][k] = wire[c][k]
        /\ wire'[c][Len(wire[c]) + 1] = x
    BY <1>1, <1>6
  <2>2. CASE i \in 1..Len(wire[c]) /\ j \in 1..Len(wire[c])
    BY <1>1, <2>1, <2>2 DEF InTurn
  <2>3. CASE i \in 1..Len(wire[c]) /\ j = Len(wire[c]) + 1
    BY <1>1, <2>3
  <2>4. CASE i = Len(wire[c]) + 1
    <3>1. j \in 1..Len(wire[c])
      BY <1>1, <1>2, <2>1, <2>4
    <3>2. QED BY <1>1, <2>1, <2>4, <3>1
  <2>5. QED BY <1>1, <2>1, <2>2, <2>3, <2>4
<1>7. ASSUME NEW x, wire'[c] = Append(wire[c], x), x.type # "turn.accepted" PROVE i < j
  BY <1>6, <1>7
<1>8. CASE out[c] # << >> /\ wire'[c] = Append(wire[c], Head(out[c]))
  <2>1. Head(out[c]) \in ToSet(out[c])
    BY <1>1, <1>8, SetOfTail
  <2>2. Head(out[c]).type # "turn.accepted"
    BY <2>1 DEF Genuine, FromLog
  <2>3. QED BY <1>7, <1>8, <2>2
<1>9. CASE wire'[c] = Append(wire[c], SessionEvent(Head(unsent)))
           \/ \E n \in 1..SeenLimit : wire'[c] = Append(wire[c], Stray(n))
  <2>1. PICK e : wire'[c] = Append(wire[c], SessionEvent(e))
    BY <1>9 DEF Stray
  <2>2. SessionEvent(e).type # "turn.accepted"
    BY DEF SessionEvent
  <2>3. QED BY <1>7, <2>1, <2>2
<1>10. CASE /\ HandleTurnStart(c) /\ attached[c] /\ inbox[c] # << >> /\ socket[c] = "open"
            /\ Head(inbox[c]).type = "turn.start"
            /\ wire'[c] = Append(wire[c], TurnAccepted(Head(inbox[c]).turn))
  <2> SUFFICES ASSUME ~(i < j) PROVE FALSE
    BY DEF InTurn
  <2>1. wire'[c][i] = TurnAccepted(Head(inbox[c]).turn) /\ j \in DOMAIN wire[c]
        /\ IsEnd(wire[c][j], t)
    BY <1>6, <1>10
  <2>2. Head(inbox[c]).turn = t
    BY <2>1 DEF TurnAccepted
  <2>3. Accepts(c, t)
    BY <1>10, <2>2 DEF Accepts, HandleTurnStart, Handles, Typed, TypedReader
  <2>4. wire[c][j] \in ToSet(wire[c])
    BY <2>1 DEF ToSet
  <2>5. EndsOf(t) # {}
    BY <2>1, <2>4, EndOnWire
  <2>6. QED BY <2>3, <2>5, NoEndYet
<1>11. QED
  BY <1>3, <1>4, <1>5, <1>8, <1>9, <1>10, WireSteps

\* A turn that ends in the log has its end sent, announced or ahead of it.
LEMMA EndToComeStep ==
    ASSUME Typed, Typed', Sockets, Genuine, Homes, Homes', Replied, Awaited, [Next]_vars, NEW t \in Turn,
           Open', home'[t] = conn', Waits(t)'
    PROVE  EndToCome(t)'
<1>1. ASSUME NEW c \in Conn, Accepts(c, t) PROVE stage'[t] = "accepted"
  BY <1>1 DEF Accepts, HandleTurnStart, Typed, TypedTurns
<1>2. CASE ~Waits(t)
  BY <1>1, <1>2, WaitsBefore DEF EndToCome
<1>3. CASE Waits(t)
  <2>1. /\ conn' = conn /\ Open /\ home[t] = conn /\ home'[t] = home[t]
        /\ conn \in Conn /\ conn \in Nat \ {0} /\ socket[conn] = "open"
    <3>1. conn \in 0..MaxConns /\ Conn = 1..MaxConns /\ conn \in Nat /\ MaxConns \in Nat
      BY PageSessionAssumption DEF Typed, TypedPage, Conn
    <3>2. home[t] \in 1..conn
      <4>1. ASSUME NEW c \in Conn, Accepted(c, t) PROVE home[t] # 0
        BY <3>1, <4>1 DEF Homes, HomeAt
      <4>2. page.pendingTurnId = t => home[t] \in 1..conn
        BY DEF Homes, HomeAt
      <4>3. home[t] # 0 => home[t] \in 1..conn
        BY DEF Homes, HomeAt
      <4>4. QED BY <1>3, <4>1, <4>2, <4>3 DEF Waits
    <3>3. home'[t] = home[t]
      <4>1. ASSUME NEW c \in Conn, Accepts(c, t) PROVE FALSE
        BY <3>1, <3>2, <4>1, AcceptsFresh
      <4>2. QED BY <4>1, StageSteps
    <3>4. conn' = conn
      BY <3>1, <3>2, <3>3, SocketSteps
    <3>5. Open
      BY <3>4, OpenBefore
    <3>6. home[t] = conn
      BY <3>3, <3>4
    <3>7. QED BY <3>1, <3>3, <3>4, <3>5, <3>6 DEF Open
  <2>2. EndToCome(t)
    BY <1>3, <2>1 DEF Awaited, AwaitedAt
  <2>3. ASSUME NEW c \in Conn, Accepts(c, t) PROVE FALSE
    BY <2>1, <2>3, AcceptsFresh
  <2>4. ASSUME NEW e, SessionEvent(e) \in Underway', Ends(e, t) PROVE EndToCome(t)'
    <3>1. IsEnd(SessionEvent(e), t)
      BY <2>4 DEF IsEnd, SessionEvent
    <3>2. \E m \in Underway' : IsEnd(m, t)
      BY <2>4, <3>1
    <3>3. QED BY <3>2 DEF EndToCome, IsEnd
  <2>5. CASE stage[t] \in {"accepted", "rejected"}
    <3>1. CASE stage'[t] \in {"accepted", "rejected"}
      BY <3>1 DEF EndToCome
    <3>2. CASE Register(t)
      <4>1. current' = t /\ phase' = "taken" /\ ~cancelEmitted'
        BY <3>2 DEF Register, Session!Take
      <4>2. QED BY <4>1 DEF EndToCome
    <3>3. current # t
      BY <2>5 DEF Homes, HomeAt
    <3>4. QED BY <2>3, <2>5, <3>1, <3>2, <3>3, StageSteps
  <2>6. CASE current = t /\ phase # "over" /\ ~cancelEmitted
    <3>1. CASE UNCHANGED <<current, phase, cancelEmitted>>
      BY <2>6, <3>1 DEF EndToCome
    <3>2. CASE Speak /\ UNCHANGED <<current, cancelEmitted>>
      <4>1. CASE phase' # "over"
        BY <2>6, <3>2, <4>1 DEF EndToCome
      <4>2. CASE phase' = "over"
        <5>1. PICK type \in TerminalType : Session!Adds(type, current)
          BY <3>2, <4>2 DEF Speak, Session!Says, Session!Streams, TerminalType
        <5>2. Last(log').type = type /\ Last(log').turn = current
          <6>1. type \in EventType /\ type # "turn.started"
            BY DEF EventType, TerminalType
          <6>2. TypedSession /\ current \in Turn \cup {NoTurn}
            BY DEF Typed, TypedSession
          <6>3. /\ Len(log') = Len(log) + 1 /\ Last(log') = log'[Len(log')]
                /\ log'[Len(log) + 1] = [type |-> type, turn |-> current, seq |-> Len(log) + 1]
            BY <5>1, <6>1, <6>2, AddsType
          <6>4. QED BY <6>3
        <5>3. Ends(Last(log'), t)
          BY <2>6, <5>1, <5>2 DEF Ends
        <5>4. SessionEvent(Last(log')) \in Underway'
          <6>1. unsent' = <<Last(log')>>
            BY <3>2 DEF Speak
          <6>2. QED BY <6>1, SetOfOne DEF Underway
        <5>5. QED BY <2>4, <5>3, <5>4
      <4>3. QED BY <4>1, <4>2
    <3>3. ~LoseLive
      BY <2>1, <2>6 DEF LoseLive
    <3>4. ASSUME NEW c \in Conn, HandleTurnCancel(c), cancelling'[c] = current PROVE EndToCome(t)'
      <4>1. home'[t] \in 1..c /\ c \in Nat /\ cancelling'[c] # NoTurn
        BY <2>6, <3>4, NoTurnAssumption DEF Homes, HomeAt, Conn
      <4>2. c <= conn
        <5>1. inbox[c] # << >>
          BY <3>4 DEF HandleTurnCancel, Handles
        <5>2. QED BY <2>1, <4>1, <5>1 DEF Sockets, SocketAt
      <4>3. c = conn
        BY <2>1, <4>1, <4>2
      <4>4. QED BY <2>1, <2>6, <3>4, <4>3 DEF EndToCome
    <3>5. QED BY <2>6, <3>1, <3>2, <3>3, <3>4, HolderSteps, NoTurnAssumption
  <2>7. CASE cancelling[conn] = t
    <3>1. CASE cancelling'[conn] = t
      BY <2>1, <3>1 DEF EndToCome
    <3>2. CASE Announce(conn)
      <4>1. Session!Adds("turn.cancelled", t)
        BY <2>7, <3>2 DEF Announce, Session!SettleCancel
      <4>2. Last(log').type = "turn.cancelled" /\ Last(log').turn = t
        <5>1. "turn.cancelled" \in EventType /\ TypedSession
          BY DEF EventType, TerminalType, Typed
        <5>2. /\ Len(log') = Len(log) + 1 /\ Last(log') = log'[Len(log')]
              /\ log'[Len(log) + 1] = [type |-> "turn.cancelled", turn |-> t, seq |-> Len(log) + 1]
          BY <4>1, <5>1, AddsType
        <5>3. QED BY <5>2
      <4>3. out'[conn] = <<SessionEvent(Last(log'))>>
        BY <2>1, <3>2 DEF Announce, Typed, TypedReader
      <4>4. SessionEvent(Last(log')) \in Underway'
        BY <2>1, <4>3, SetOfOne DEF Underway
      <4>5. QED BY <2>4, <4>2, <4>4 DEF Ends, TerminalType
    <3>3. QED BY <2>1, <2>7, <3>1, <3>2, CancellingSteps, NoTurnAssumption
  <2>8. ~Accepted(conn, t) => ~Accepted(conn, t)'
    BY <2>1, <2>3, AcceptedSteps
  <2>9. CASE \E m \in Underway : IsEnd(m, t)
    <3>1. PICK m \in Underway : IsEnd(m, t)
      BY <2>9
    <3>2. m \in {SessionEvent(e) : e \in ToSet(unsent)} => home[current] = conn
      <4> SUFFICES ASSUME NEW e \in ToSet(unsent), m = SessionEvent(e) PROVE home[current] = conn
        OBVIOUS
      <4>1. e.turn = t
        BY <3>1 DEF SessionEvent, IsEnd, Ends
      <4>2. e.turn = current
        BY SetOfEmpty, SetOfOne DEF Genuine
      <4>3. QED BY <2>1, <4>1, <4>2
    <3>3. CASE m \in Underway'
      BY <3>1, <3>3 DEF EndToCome, IsEnd
    <3>4. CASE Receive(conn) /\ wire[conn] # << >> /\ m = Head(wire[conn])
      <4> DEFINE n == m.event.seq
      <4>1. m \in ToSet(wire[conn]) /\ wire[conn] \in Seq(Message)
        BY <2>1, <3>4, SetOfTail DEF Typed
      <4>2. n \in EndsOf(t)
        BY <2>1, <3>1, <4>1, EndOnWire
      <4>3. ~Accepted(conn, t)' /\ page.pendingTurnId = t /\ n \in ToSet(page.seenSeqs)
        BY <2>1, <3>1, <3>4, EndReceived
      <4>4. n \in strays
        BY <1>3, <4>2, <4>3 DEF Awaited, AwaitedAt
      <4>5. n \in strays'
        <5>1. Notices(conn)
          BY <3>1, <3>4 DEF IsEnd, Notices, Receive, Reduce
        <5>2. QED BY <2>1, <4>4, <5>1, Noticed
      <4>6. n \in EndsOf(t)'
        BY <4>2, EndsStay
      <4>7. EndsOf(t)' \cap strays' # {}
        BY <4>5, <4>6
      <4>8. QED BY <2>1, <4>3, <4>7 DEF EndToCome
    <3>5. QED BY <2>1, <3>2, <3>3, <3>4, UnderwayStep
  <2>10. CASE ~Accepted(conn, t) /\ EndsOf(t) \cap strays # {}
    <3>1. ~Accepted(conn, t)'
      BY <2>8, <2>10
    <3>2. page'.pendingTurnId = t
      <4>1. \A d \in Conn : d # conn => ~Accepted(d, t)
        BY <2>1, SetOfEmpty DEF Sockets, SocketAt, Accepted
      <4>2. \A d \in Conn : ~Accepted(d, t)'
        BY <2>3, <2>10, <4>1, AcceptedSteps
      <4>3. QED BY <4>2 DEF Waits
    <3>3. ~Forgets
      BY <3>2, NoTurnAssumption DEF Forgets
    <3>4. strays \subseteq strays'
      <4>1. Keeps => strays' = strays
        BY DEF Keeps, history
      <4>2. QED BY <3>3, <4>1, PageSteps, Noticed
    <3>5. EndsOf(t)' \cap strays' # {}
      BY <2>10, <3>4, EndsStay
    <3>6. QED BY <2>1, <3>1, <3>5 DEF EndToCome
  <2>11. QED BY <2>2, <2>5, <2>6, <2>7, <2>9, <2>10 DEF EndToCome
<1>4. QED BY <1>2, <1>3

LEMMA AwaitedHolds == Spec => []Awaited
<1>1. Init => Awaited
  <2> SUFFICES ASSUME Init, NEW t \in Turn PROVE AwaitedAt(t)
    BY DEF Awaited
  <2>1. /\ page.pendingTurnId = NoTurn /\ \A c \in Conn : wire[c] = << >>
    BY DEF Init, InitPage
  <2>2. ~Waits(t)
    BY <2>1, SetOfEmpty, NoTurnAssumption DEF Waits, Accepted
  <2>3. \A c \in Conn : InTurn(c, t)
    BY <2>1 DEF InTurn
  <2>4. QED BY <2>2, <2>3 DEF AwaitedAt
<1>2. /\ Typed /\ Typed' /\ Sockets /\ Genuine /\ Homes /\ Homes' /\ Replied
      /\ Awaited /\ [Next]_vars
      => Awaited'
  BY EndsUnseen, InTurnStep, EndToComeStep DEF Awaited, AwaitedAt
<1>3. QED
  BY <1>1, <1>2, TypedHolds, SocketsHold, GenuineHolds, HomesHold, RepliedHolds, PTL DEF Spec

\* At rest the page waits for no turn, except one the server has rejected, or one whose end
\* bears a number the page has met in an event of another session.
THEOREM PendingSettlesHolds == Spec => []PendingSettles
<1>1. Typed /\ Sockets /\ Genuine /\ Homes /\ Awaited => PendingSettles
  <2> SUFFICES ASSUME Typed, Sockets, Genuine, Homes, Awaited, AtRest,
                      page.pendingTurnId # NoTurn
               PROVE  \/ stage[page.pendingTurnId] = "rejected"
                      \/ \E n \in strays \cap DOMAIN log : Ends(log[n], page.pendingTurnId)
    BY DEF PendingSettles
  <2> DEFINE t == page.pendingTurnId
  <2>1. t \in Turn
    BY DEF Typed, TypedPage, Page
  <2>2. conn \in Conn /\ conn \in Nat \ {0} /\ Open
    BY PageSessionAssumption DEF AtRest, Open, Typed, TypedPage, Conn
  <2>3. home[t] = conn
    <3>1. home[t] \in 1..conn /\ socket[home[t]] \in {"open", "closing"}
      BY <2>1 DEF Homes, HomeAt
    <3>2. home[t] \in Conn
      BY <2>1, <2>2, <3>1, PageSessionAssumption DEF Conn
    <3>3. QED BY <3>1, <3>2 DEF AtRest, Sockets, SocketAt
  <2>4. EndToCome(t)
    BY <2>1, <2>2, <2>3 DEF Awaited, AwaitedAt, Waits
  <2>5. Underway = {}
    <3>1. out[conn] = << >> /\ wire[conn] = << >> /\ unsent = << >>
      BY <2>2 DEF AtRest, Genuine
    <3>2. QED BY <3>1, SetOfEmpty DEF Underway
  <2>6. stage[t] # "accepted" /\ current # t /\ cancelling[conn] # t
    BY <2>1, <2>2, NoTurnAssumption DEF AtRest
  <2>7. stage[t] = "rejected" \/ EndsOf(t) \cap strays # {}
    BY <2>4, <2>5, <2>6 DEF EndToCome
  <2>8. log \in Seq(Proper)
    BY DEF Typed, TypedSession
  <2>9. QED BY <2>7, <2>8 DEF EndsOf
<1>2. QED
  BY <1>1, TypedHolds, SocketsHold, GenuineHolds, HomesHold, AwaitedHolds, PTL

-----------------------------------------------------------------------------
(* The session *)

\* createSession
Created ==
    /\ log = << >> /\ Session!Adds("session.created", NoTurn)
    /\ UNCHANGED <<current, phase, pending>>

\* Whatever the page and its connections do, the log of the session begins with one
\* session.created, and from then on what enters it are the turns and cancellations of
\* TurnProtocol: the handlers of the websocket server add nothing, and lose nothing.
THEOREM TurnsFollowProtocol == Spec => Session!Init /\ [][Created \/ Session!Next]_session
<1>1. Init => Session!Init
  BY DEF Init
<1>2. Typed /\ Beginning /\ [Next]_vars => [Created \/ Session!Next]_session
  <2> SUFFICES ASSUME Typed, Beginning, [Next]_vars
               PROVE  Created \/ Session!Next \/ UNCHANGED session
    OBVIOUS
  <2> USE DEF session
  <2>1. ASSUME NEW t \in Turn, Register(t) PROVE Session!Next
    BY <2>1 DEF Register, Session!Next
  <2>2. CASE Speak
    BY <2>2 DEF Speak, Session!Next, Session!Speaks
  <2>3. CASE LeaveToCancel \/ LoseLive \/ Leave
    BY <2>3 DEF LeaveToCancel, LoseLive, Leave, Session!Next
  <2>4. ASSUME NEW c \in Conn, HandleCreate(c) PROVE Created
    <3>1. inbox[c] \in Seq(Question) /\ inbox[c] # << >> /\ Head(inbox[c]).type = "session.create"
      BY <2>4 DEF HandleCreate, Handles, Typed, TypedReader
    <3>2. Head(inbox[c]) \in ToSet(inbox[c])
      BY <3>1, SetOfTail
    <3>3. QED BY <2>4, <3>1, <3>2 DEF HandleCreate, Created, Beginning
  <2>5. ASSUME NEW c \in Conn, HandleTurnCancel(c) PROVE Session!Next \/ UNCHANGED session
    <3>1. current \in Turn \cup {NoTurn}
      BY DEF Typed, TypedSession
    <3>2. inbox[c] \in Seq(Question) /\ inbox[c] # << >> /\ Head(inbox[c]).type = "turn.cancel"
      BY <2>5 DEF HandleTurnCancel, Handles, Typed, TypedReader
    <3>3. Head(inbox[c]) \in Question
      BY <3>2, SetOfTail
    <3>4. Head(inbox[c]).turn \in Turn
      BY <3>2, <3>3 DEF Question
    <3>5. QED BY <2>5, <3>4 DEF HandleTurnCancel, Session!Next
  <2>6. ASSUME NEW c \in Conn, Announce(c) PROVE Session!Next
    <3>1. cancelling[c] \in Turn
      BY <2>6 DEF Announce, Typed, TypedReader
    <3>2. QED BY <2>6, <3>1 DEF Announce, Session!Next
  <2>7. ASSUME NEW t \in Turn, Reject(t) \/ SendTurn(t) PROVE UNCHANGED session
    BY <2>7 DEF Reject, SendTurn
  <2>8. CASE SendLive \/ Connect \/ Drop \/ CreateSession \/ AttachSession \/ CancelTurn
             \/ UNCHANGED vars
    BY <2>8 DEF SendLive, Connect, Drop, CreateSession, AttachSession, CancelTurn, vars
  <2>9. ASSUME NEW c \in Conn, HandleAttach(c) \/ HandleTurnStart(c) \/ SendReply(c)
                  \/ SendStray(c) \/ HangUp(c) \/ OnClose(c) \/ Receive(c)
        PROVE  UNCHANGED session
    BY <2>9 DEF HandleAttach, HandleTurnStart, SendReply, SendStray, HangUp, OnClose, Receive
  <2>10. QED
    BY <2>1, <2>2, <2>3, <2>4, <2>5, <2>6, <2>7, <2>8, <2>9 DEF Next
<1>3. QED
  BY <1>1, <1>2, TypedHolds, BeginningHolds, PTL DEF Spec

-----------------------------------------------------------------------------
(* What the page shows *)

\* What the first k events of log l say of the answer of turn t: those that say anything,
\* those that replace what was there, and those that are left in its text.
SayIn(l, k, t) ==
    {i \in 1..k : l[i].turn = t /\ l[i].type \in
        {"assistant.delta", "assistant.message", "turn.failed", "turn.cancelled"}}
WholeIn(l, k, t) == {i \in SayIn(l, k, t) : l[i].type # "assistant.delta"}
TextIn(l, k, t) == {i \in SayIn(l, k, t) : \A j \in WholeIn(l, k, t) : j <= i}

\* Answer a is what the first k events of log l say of turn t.
SaysLog(a, l, k, t) ==
    IF SayIn(l, k, t) = {} THEN a = NoAnswer
    ELSE /\ a.status = StatusFor(l[Max(SayIn(l, k, t))].type)
         /\ Enumerates(a.text, TextIn(l, k, t))

\* One event more, and the reducer has it in the answer.
LEMMA SaysMore ==
    ASSUME NEW l \in Seq(Proper), NEW k \in Nat, k < Len(l), l[k + 1].seq = k + 1,
           NEW t \in Turn, NEW a \in Answer, SaysLog(a, l, k, t)
    PROVE  SaysLog(IF t = l[k + 1].turn THEN AnswerAfter(a, l[k + 1]) ELSE a, l, k + 1, t)
<1> DEFINE n == k + 1
           e == l[k + 1]
<1>1. /\ Len(l) \in Nat /\ n \in 1..Len(l) /\ e \in Proper /\ e.seq = n
      /\ \A i \in 1..n : i \in 1..k \/ i = n
      /\ \A i \in 1..k : i \in 1..n /\ i < n
  OBVIOUS
<1>2. CASE e.turn = t /\ e.type = "assistant.delta"
  <2>1. SayIn(l, n, t) = SayIn(l, k, t) \cup {n}
    BY <1>1, <1>2 DEF SayIn
  <2>2. WholeIn(l, n, t) = WholeIn(l, k, t)
    BY <1>2, <2>1 DEF WholeIn
  <2>a. \A j \in WholeIn(l, k, t) : j <= n
    BY <1>1 DEF WholeIn, SayIn
  <2>3. TextIn(l, n, t) = TextIn(l, k, t) \cup {n}
    BY <2>1, <2>2, <2>a DEF TextIn
  <2>4. Enumerates(a.text, TextIn(l, k, t))
    <3>1. CASE SayIn(l, k, t) = {}
      <4>1. a.text = << >> /\ TextIn(l, k, t) = {}
        BY <3>1 DEF SaysLog, NoAnswer, TextIn
      <4>2. QED BY <4>1, EmptySeq DEF Enumerates, Range, Increasing
    <3>2. CASE SayIn(l, k, t) # {}
      BY <3>2 DEF SaysLog
    <3>3. QED BY <3>1, <3>2
  <2>5. Enumerates(Append(a.text, n), TextIn(l, n, t))
    <3>1. TextIn(l, k, t) \in SUBSET Nat /\ \A i \in TextIn(l, k, t) : i < n
      BY <1>1 DEF TextIn, SayIn
    <3>2. n \in Nat
      BY <1>1
    <3>3. QED BY <2>3, <2>4, <3>1, <3>2, EnumeratesMore
  <2>6. Max(SayIn(l, n, t)) = n
    <3>1. SayIn(l, n, t) \in SUBSET Nat /\ n \in SayIn(l, n, t) /\ \A i \in SayIn(l, n, t) : i <= n
      BY <1>1, <2>1 DEF SayIn
    <3>2. QED BY <3>1, MaxIs
  <2>7. AnswerAfter(a, e) = [status |-> "streaming", text |-> Append(a.text, n)]
    BY <1>1, <1>2 DEF AnswerAfter, WithDelta
  <2>8. StatusFor(e.type) = "streaming"
    BY <1>2 DEF StatusFor
  <2> DEFINE b == AnswerAfter(a, e)
  <2>9. b.status = StatusFor(e.type) /\ b.text = Append(a.text, n)
    BY <2>7, <2>8
  <2>10. SayIn(l, n, t) # {}
    BY <2>1
  <2>11. SaysLog(b, l, n, t)
    BY <2>5, <2>6, <2>9, <2>10 DEF SaysLog
  <2>12. QED BY <1>2, <2>11
<1>3. CASE e.turn = t /\ e.type \in {"assistant.message", "turn.failed", "turn.cancelled"}
  <2>1. SayIn(l, n, t) = SayIn(l, k, t) \cup {n}
    BY <1>1, <1>3 DEF SayIn
  <2>2. n \in WholeIn(l, n, t) /\ \A i \in SayIn(l, n, t) : i \in Nat /\ i <= n
    BY <1>1, <1>3, <2>1 DEF WholeIn, SayIn
  <2>3. WholeIn(l, n, t) \subseteq SayIn(l, n, t)
    BY DEF WholeIn
  <2>4. TextIn(l, n, t) = {n}
    <3>1. n \in TextIn(l, n, t)
      BY <2>1, <2>2, <2>3 DEF TextIn
    <3>2. ASSUME NEW i \in TextIn(l, n, t) PROVE i = n
      BY <1>1, <2>2 DEF TextIn
    <3>3. QED BY <3>1, <3>2
  <2>5. Enumerates(<<n>>, TextIn(l, n, t))
    BY <2>4 DEF Enumerates, Range, Increasing
  <2>6. Max(SayIn(l, n, t)) = n
    <3>1. SayIn(l, n, t) \in SUBSET Nat /\ n \in SayIn(l, n, t) /\ \A i \in SayIn(l, n, t) : i <= n
      BY <2>1, <2>2
    <3>2. QED BY <3>1, MaxIs
  <2>7. AnswerAfter(a, e) = [status |-> StatusFor(e.type), text |-> <<n>>]
    BY <1>1, <1>3 DEF AnswerAfter, Whole, Upsert, StatusFor
  <2> DEFINE b == AnswerAfter(a, e)
  <2>8. b.status = StatusFor(e.type) /\ b.text = <<n>>
    BY <2>7
  <2>9. SayIn(l, n, t) # {}
    BY <2>1
  <2>10. SaysLog(b, l, n, t)
    BY <2>5, <2>6, <2>8, <2>9 DEF SaysLog
  <2>11. QED BY <1>3, <2>10
<1>4. CASE e.turn # t \/ e.type \in {"session.created", "turn.started", "turn.completed"}
  <2>1. SayIn(l, n, t) = SayIn(l, k, t)
    BY <1>1, <1>4 DEF SayIn
  <2>2. WholeIn(l, n, t) = WholeIn(l, k, t)
    BY <2>1 DEF WholeIn
  <2>3. TextIn(l, n, t) = TextIn(l, k, t)
    BY <2>1, <2>2 DEF TextIn
  <2>4. e.turn = t => AnswerAfter(a, e) = a
    BY <1>4 DEF AnswerAfter
  <2>5. QED BY <2>1, <2>3, <2>4 DEF SaysLog
<1>5. e.type \in EventType
  BY <1>1 DEF Proper, Event
<1>6. QED BY <1>2, <1>3, <1>4, <1>5 DEF EventType, TerminalType

\* An increasing sequence of the elements of S is the sequence of its elements by rank.
LEMMA EnumerationIsAscending ==
    ASSUME NEW S \in SUBSET Nat, NEW s, Enumerates(s, S)
    PROVE  s = Ascending(S)
<1> DEFINE Below(n) == Cardinality({m \in S : m < n})
<1>1. /\ Cardinality(S) = Len(s) /\ Len(s) \in Nat /\ s \in Seq(S)
      /\ \A i \in 1..Len(s) : s[i] \in S /\ Below(s[i]) = i - 1
  <2>1. s \in Seq(S)
    BY DEF Enumerates
  <2>2. Cardinality(S) = Len(s) /\ \A i \in 1..Len(s) : Below(s[i]) = i - 1
    BY Ranks
  <2>3. QED BY <2>1, <2>2, ElementOfSeq
<1>2. \A n \in S : \E i \in 1..Len(s) : n = s[i]
  BY <1>1, LenProperties DEF Enumerates, Range
<1> HIDE DEF Below
<1>3. \A i \in 1..Len(s) : \A n \in S : Below(n) = i - 1 <=> n = s[i]
  BY <1>1, <1>2
<1>4. \A i \in 1..Len(s) : (CHOOSE n \in S : Below(n) = i - 1) = s[i]
  BY <1>1, <1>3
<1>5. Ascending(S) = [i \in 1..Len(s) |-> CHOOSE n \in S : Below(n) = i - 1]
  BY <1>1 DEF Ascending, Below
<1>6. QED
  BY <1>1, <1>4, <1>5

\* The turns the first k events of log l have started.
AskedIn(l, k) == {t \in Turn : \E i \in 1..k : Starts(l[i]) /\ l[i].turn = t}

\* A longer log says the same with its first k events.
LEMMA SaysStays ==
    ASSUME NEW l, NEW m, NEW k \in Nat, \A i \in 1..k : m[i] = l[i]
    PROVE  /\ AskedIn(m, k) = AskedIn(l, k)
           /\ \A t \in Turn, a \in Answer : SaysLog(a, l, k, t) => SaysLog(a, m, k, t)
<1>1. AskedIn(m, k) = AskedIn(l, k)
  BY DEF AskedIn
<1>2. ASSUME NEW t \in Turn, NEW a \in Answer, SaysLog(a, l, k, t) PROVE SaysLog(a, m, k, t)
  <2>1. SayIn(m, k, t) = SayIn(l, k, t)
    BY DEF SayIn
  <2>2. WholeIn(m, k, t) = WholeIn(l, k, t)
    BY <2>1 DEF WholeIn, SayIn
  <2>3. TextIn(m, k, t) = TextIn(l, k, t)
    BY <2>1, <2>2 DEF TextIn
  <2>4. CASE SayIn(l, k, t) = {}
    BY <1>2, <2>1, <2>4 DEF SaysLog
  <2>5. CASE SayIn(l, k, t) # {}
    <3>1. Max(SayIn(l, k, t)) \in 1..k
      BY <2>5, MaxElement DEF SayIn
    <3>2. QED BY <1>2, <2>1, <2>3, <2>5, <3>1 DEF SaysLog
  <2>6. QED BY <2>4, <2>5
<1>3. QED BY <1>1, <1>2

\* What the reducer makes of a piece of a log, this definition says of the log.
LEMMA SaysIsAnswer ==
    ASSUME NEW l \in Seq(Proper), NEW t \in Turn, NEW a \in Answer, SaysLog(a, l, Len(l), t)
    PROVE  a = AnswerInLog(l, t)
<1> DEFINE says == SayIn(l, Len(l), t)
           text == TextIn(l, Len(l), t)
<1>1. AnswerInLog(l, t) = IF says = {} THEN NoAnswer
                          ELSE [status |-> StatusFor(l[Max(says)].type), text |-> Ascending(text)]
  BY DEF AnswerInLog, SayIn, WholeIn, TextIn
<1>2. CASE says = {}
  BY <1>1, <1>2 DEF SaysLog
<1>3. CASE says # {}
  <2>1. a.status = StatusFor(l[Max(says)].type) /\ Enumerates(a.text, text)
    BY <1>3 DEF SaysLog
  <2>2. text \in SUBSET Nat
    BY DEF TextIn, SayIn
  <2>3. a.text = Ascending(text)
    BY <2>1, <2>2, EnumerationIsAscending
  <2> HIDE DEF says, text
  <2>4. a = [status |-> a.status, text |-> a.text]
    BY DEF Answer
  <2>5. QED BY <1>1, <1>3, <2>1, <2>3, <2>4
<1>4. QED BY <1>2, <1>3

\* As long as everything fits, a page that has got the first events of the log in their
\* order, and no others, shows what they say.
InStep == strays = {} /\ \A i \in DOMAIN told : told[i] = i
Faithful ==
    Fits /\ InStep =>
        /\ page.asked = AskedIn(log, Len(told))
        /\ \A t \in Turn : SaysLog(page.answer[t], log, Len(told), t)

LEMMA FaithfulHolds == Spec => []Faithful
<1>1. Init => Faithful
  <2> SUFFICES ASSUME Init PROVE Faithful
    OBVIOUS
  <2>1. told = << >> /\ page.asked = {} /\ \A t \in Turn : page.answer[t] = NoAnswer
    BY DEF Init, InitPage
  <2>2. QED BY <2>1 DEF Faithful, AskedIn, SaysLog, SayIn
<1>2. Typed /\ Typed' /\ Genuine /\ Remembered /\ Faithful /\ [Next]_vars => Faithful'
  <2> SUFFICES ASSUME Typed, Typed', Genuine, Remembered, Faithful, [Next]_vars, Fits', InStep'
               PROVE  /\ page'.asked = AskedIn(log', Len(told'))
                      /\ \A t \in Turn : SaysLog(page'.answer[t], log', Len(told'), t)
    BY DEF Faithful
  <2>1. /\ log \in Seq(Proper) /\ log' \in Seq(Proper) /\ Len(log) \in Nat /\ Len(log') \in Nat
        /\ Len(log) <= Len(log') /\ \A i \in 1..Len(log) : log'[i] = log[i]
    BY LogStays DEF Typed, TypedSession
  <2>2. /\ told \in Seq(Nat) /\ Len(told) \in Nat /\ DOMAIN told = 1..Len(told)
        /\ page \in Page /\ Len(page.seenSeqs) <= SeenLimit
        /\ page.answer \in [Turn -> Answer]
    BY DEF Typed, TypedPage, Page
  <2>3. strays = {} => Fits
    <3>1. strays' = {}
      BY DEF InStep
    <3> DEFINE none == Cardinality({})
    <3>2. none = 0
      BY FS_EmptySet
    <3> HIDE DEF none
    <3>3. Len(log') + none <= SeenLimit
      BY <3>1 DEF Fits, none
    <3>4. Len(log) + none <= SeenLimit
      BY <2>1, <3>2, <3>3, SeenLimitAssumption
    <3>5. QED BY <3>4 DEF Fits, none
  <2>4. ASSUME InStep
        PROVE  /\ Len(told) <= Len(log)
               /\ page.asked = AskedIn(log', Len(told))
               /\ \A t \in Turn : SaysLog(page.answer[t], log', Len(told), t)
    <3>1. Len(told) <= Len(log)
      <4>1. \A i \in 1..Len(told) : told[i] \in ToSet(told)
        BY <2>2 DEF ToSet
      <4>2. \A i \in 1..Len(told) : i \in 1..Len(log)
        BY <2>2, <2>4, <4>1 DEF Genuine, InStep
      <4>3. CASE Len(told) = 0
        BY <2>1, <4>3
      <4>4. CASE Len(told) # 0
        <5>1. Len(told) \in 1..Len(told)
          BY <2>2, <4>4
        <5>2. QED BY <2>1, <2>2, <4>2, <5>1
      <4>5. QED BY <4>3, <4>4
    <3>2. \A i \in 1..Len(told) : log'[i] = log[i]
      BY <2>1, <2>2, <3>1
    <3>3. /\ page.asked = AskedIn(log, Len(told))
          /\ \A t \in Turn : SaysLog(page.answer[t], log, Len(told), t)
      BY <2>3, <2>4 DEF Faithful, InStep
    <3>4. \A t \in Turn : page.answer[t] \in Answer
      BY <2>2
    <3>5. QED BY <2>2, <3>1, <3>2, <3>3, <3>4, SaysStays
  <2>5. CASE Keeps
    <3>1. InStep
      BY <2>5 DEF Keeps, history, InStep
    <3>2. QED BY <2>4, <2>5, <3>1 DEF Keeps, history
  <2>6. CASE Forgets
    <3>1. told' = << >> /\ page'.asked = {} /\ \A t \in Turn : page'.answer[t] = NoAnswer
      BY <2>6 DEF Forgets, Forget
    <3>2. QED BY <3>1 DEF AskedIn, SaysLog, SayIn
  <2>7. ASSUME NEW c \in Conn, Notices(c)
        PROVE  /\ page'.asked = AskedIn(log', Len(told'))
               /\ \A t \in Turn : SaysLog(page'.answer[t], log', Len(told'), t)
    <3> DEFINE m == Head(wire[c])
               n == m.event.seq
    <3>1. /\ m \in ToSet(wire[c]) /\ m.event \in Proper /\ n \in Nat /\ m.type = "session.event"
          /\ page' = ReduceEvent(page, m.event)
      BY <2>7, Noticed DEF Notices
    <3>2. ~Foreign(m) /\ strays' = strays
          /\ told' = IF Contains(told, n) THEN told ELSE Append(told, n)
      <4>1. strays' # strays \cup {n}
        BY DEF InStep
      <4>2. QED BY <2>7, <4>1 DEF Notices, Notes
    <3>3. Logged(m.event) /\ log[n] = m.event /\ n \in 1..Len(log)
      BY <3>1, <3>2 DEF Genuine, Travels, Logged
    <3>4. strays = {} /\ Fits
      BY <2>3, <3>2 DEF InStep
    <3>5. Contains(page.seenSeqs, n) <=> Contains(told, n)
      <4>1. ToSet(page.seenSeqs) = ToSet(told)
        BY <3>4 DEF Remembered, Recalls
      <4>2. page.seenSeqs \in Seq(Nat)
        BY <2>2 DEF Page
      <4>3. QED BY <2>2, <4>1, <4>2, ContainsIs
    <3>6. CASE Contains(told, n)
      <4>1. told' = told /\ page' = page
        BY <3>1, <3>2, <3>5, <3>6 DEF ReduceEvent, Seen
      <4>2. InStep
        BY <3>4, <4>1 DEF InStep
      <4>3. QED BY <2>4, <4>1, <4>2
    <3>7. CASE ~Contains(told, n)
      <4>1. /\ told' = Append(told, n) /\ Len(told') = Len(told) + 1
            /\ DOMAIN told' = 1..(Len(told) + 1) /\ \A i \in 1..Len(told) : told'[i] = told[i]
            /\ told'[Len(told) + 1] = n
        BY <2>2, <3>1, <3>2, <3>7
      <4>2. InStep /\ n = Len(told) + 1
        BY <2>2, <3>4, <4>1 DEF InStep
      <4>3. /\ page'.asked = IF Starts(m.event) THEN page.asked \cup {m.event.turn} ELSE page.asked
            /\ \A t \in Turn : page'.answer[t] = IF t = m.event.turn
                                   THEN AnswerAfter(page.answer[t], m.event) ELSE page.answer[t]
        BY <2>2, <3>1, <3>5, <3>7, NewEvent DEF Seen
      <4>4. log'[n] = m.event /\ log'[Len(told) + 1] = m.event
        BY <2>1, <3>3, <4>2
      <4>5. page'.asked = AskedIn(log', Len(told) + 1)
        <5>1. page.asked = AskedIn(log', Len(told))
          BY <2>4, <4>2
        <5>2. \A i \in 1..(Len(told) + 1) : i \in 1..Len(told) \/ i = Len(told) + 1
          BY <2>2
        <5>3. \A i \in 1..Len(told) : i \in 1..(Len(told) + 1)
          BY <2>2
        <5>4. Len(told) + 1 \in 1..(Len(told) + 1)
          BY <2>2
        <5>5. Starts(m.event) => m.event.turn \in Turn
          BY <3>1 DEF Proper
        <5>6. QED BY <4>3, <4>4, <5>1, <5>2, <5>3, <5>4, <5>5 DEF AskedIn
      <4>6. ASSUME NEW t \in Turn PROVE SaysLog(page'.answer[t], log', Len(told) + 1, t)
        <5>1. SaysLog(page.answer[t], log', Len(told), t) /\ page.answer[t] \in Answer
          BY <2>2, <2>4, <4>2
        <5>2. Len(told) < Len(log') /\ m.event.seq = Len(told) + 1
          BY <2>1, <2>2, <3>3, <4>2
        <5>3. SaysLog(IF t = m.event.turn THEN AnswerAfter(page.answer[t], m.event)
                      ELSE page.answer[t], log', Len(told) + 1, t)
          BY <2>1, <2>2, <4>4, <5>1, <5>2, SaysMore
        <5>4. QED BY <4>3, <5>3
      <4>7. QED BY <4>1, <4>5, <4>6
    <3>8. QED BY <3>6, <3>7
  <2>8. QED BY <2>5, <2>6, <2>7, PageSteps
<1>3. QED
  BY <1>1, <1>2, TypedHolds, GenuineHolds, RememberedHolds, PTL DEF Spec

\* In a session of no more than SeenLimit events: a page that got every event of the log in
\* its order, once or more often, and no others, shows what the log says.
THEOREM InOrderShowsTheLogHolds == Spec => []InOrderShowsTheLog
<1>1. Typed /\ Faithful => InOrderShowsTheLog
  <2> SUFFICES ASSUME Typed, Faithful, InOrder, strays = {}, Fits
               PROVE  /\ page.answer = [t \in Turn |-> AnswerInLog(log, t)]
                      /\ page.asked = AskedInLog(log)
    BY DEF InOrderShowsTheLog
  <2>1. log \in Seq(Proper) /\ Len(log) \in Nat /\ page.answer \in [Turn -> Answer]
    BY DEF Typed, TypedSession, TypedPage, Page
  <2>2. Len(told) = Len(log) /\ InStep
    BY <2>1 DEF InOrder, InStep
  <2>3. \A t \in Turn : page.answer[t] = AnswerInLog(log, t)
    BY <2>1, <2>2, SaysIsAnswer DEF Faithful
  <2>4. page.asked = AskedInLog(log)
    BY <2>2 DEF Faithful, AskedIn, AskedInLog
  <2>5. QED BY <2>1, <2>3, <2>4
<1>2. QED
  BY <1>1, TypedHolds, FaithfulHolds, PTL

=============================================================================
