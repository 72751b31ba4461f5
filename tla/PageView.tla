------------------------------ MODULE PageView ------------------------------
(***************************************************************************)
(* What the page makes of the messages of the server: the reducer of       *)
(* page/src/useAgentSocket.ts as operators on the state of the page.       *)
(*                                                                         *)
(* A text is the sequence of the numbers of the events it came from; the   *)
(* two messages of a turn are kept by turn and not in their order on the   *)
(* screen.  Logs, last error, times and metadata are left out.             *)
(***************************************************************************)
EXTENDS SessionEvents, SequencesExt

CONSTANT SeenLimit      \* how many sequence numbers the page remembers

ASSUME SeenLimitAssumption == SeenLimit \in Nat \ {0}

\* The assistant's message of a turn, and none.
Answer == [status : {"none", "streaming", "complete", "failed", "cancelled"},
           text : Seq(Nat)]
NoAnswer == [status |-> "none", text |-> << >>]

ConnectionStatus == {"idle", "connecting", "connected", "closed", "error"}

Page == [status : ConnectionStatus,     \* state.connection.status
         sessionId : BOOLEAN,           \* there is one
         pendingTurnId : Turn \cup {NoTurn},
         lastSeq : Nat, seenSeqs : Seq(Nat),
         asked : SUBSET Turn,           \* the turns whose user message is shown
         answer : [Turn -> Answer]]

\* What createSession and attachSession leave of the state.
Cleared(page, known) ==
    [page EXCEPT !.sessionId = known, !.pendingTurnId = NoTurn, !.lastSeq = 0,
                 !.seenSeqs = << >>, !.asked = {}, !.answer = [t \in Turn |-> NoAnswer]]

InitPage == [status |-> "idle", sessionId |-> FALSE, pendingTurnId |-> NoTurn, lastSeq |-> 0,
             seenSeqs |-> << >>, asked |-> {}, answer |-> [t \in Turn |-> NoAnswer]]

-----------------------------------------------------------------------------
(* session.event *)

\* seenSeqs keeps the latest SeenLimit numbers in the order of their arrival.
Remember_All(seqs, n) == Append(seqs, n)
Remember(seqs, n) ==
    LET all == Append(seqs, n) IN IF Len(all) > SeenLimit THEN Tail(all) ELSE all

Seen_Never(page, e) == FALSE
Seen_UpToLast(page, e) == e.seq <= page.lastSeq
Seen(page, e) == Contains(page.seenSeqs, e.seq)

\* upsertMessage: the new message replaces the one that is there.
Upsert_KeepsFirst(old, new) == IF old.status = "none" THEN new ELSE old
Upsert(old, new) == new

\* appendAssistantDelta
WithDelta(old, e) == [status |-> "streaming", text |-> Append(old.text, e.seq)]

Whole(old, e, status) == Upsert(old, [status |-> status, text |-> <<e.seq>>])

AnswerAfter(old, e) ==
    CASE e.type = "assistant.delta"   -> WithDelta(old, e)
      [] e.type = "assistant.message" -> Whole(old, e, "complete")
      [] e.type = "turn.failed"       -> Whole(old, e, "failed")
      [] e.type = "turn.cancelled"    -> Whole(old, e, "cancelled")
      [] OTHER                        -> old

\* A terminal event frees the page for the next turn.
PendingAfter_KeptByCancel(pending, e) ==
    IF Ends(e, pending) /\ e.type # "turn.cancelled" THEN NoTurn ELSE pending
PendingAfter(pending, e) == IF Ends(e, pending) THEN NoTurn ELSE pending

ReduceEvent(page, e) ==
    IF Seen(page, e) THEN page
    ELSE [page EXCEPT
            !.lastSeq = IF e.seq > @ THEN e.seq ELSE @,
            !.seenSeqs = Remember(@, e.seq),
            !.asked = IF Starts(e) THEN @ \cup {e.turn} ELSE @,
            !.answer = [t \in Turn |-> IF t = e.turn THEN AnswerAfter(@[t], e) ELSE @[t]],
            !.pendingTurnId = PendingAfter(@, e)]

-----------------------------------------------------------------------------
(* The messages of the server.  pong and error change only logs. *)

ConnectionReady == [type |-> "connection.ready"]
SessionReady(n) == [type |-> "session.ready", lastSeq |-> n]
TurnAccepted(t) == [type |-> "turn.accepted", turn |-> t]
SessionEvent(e) == [type |-> "session.event", event |-> e]

Welcome(page, m) == [page EXCEPT !.sessionId = TRUE, !.lastSeq = m.lastSeq]

Reduce(page, m) ==
    CASE m.type = "connection.ready" -> [page EXCEPT !.status = "connected"]
      [] m.type = "session.ready"    -> Welcome(page, m)
      [] m.type = "turn.accepted"    -> [page EXCEPT !.pendingTurnId = m.turn]
      [] m.type = "session.event"    -> ReduceEvent(page, m.event)

-----------------------------------------------------------------------------
(* What a log says about the answer of turn t, stated without the reducer: the
   last message, error or cancellation and the deltas that follow it. *)

StatusFor(type) ==
    CASE type = "assistant.delta" -> "streaming" [] type = "assistant.message" -> "complete"
      [] type = "turn.failed" -> "failed"        [] type = "turn.cancelled" -> "cancelled"

\* The numbers of S in their order.
Ascending(S) ==
    [k \in 1..Cardinality(S) |-> CHOOSE n \in S : Cardinality({m \in S : m < n}) = k - 1]

AnswerInLog(log, t) ==
    LET says  == {i \in 1..Len(log) : log[i].turn = t /\ log[i].type \in
                    {"assistant.delta", "assistant.message", "turn.failed", "turn.cancelled"}}
        whole == {i \in says : log[i].type # "assistant.delta"}
        text  == {i \in says : \A j \in whole : j <= i}
    IN  IF says = {} THEN NoAnswer
        ELSE [status |-> StatusFor(log[Max(says)].type), text |-> Ascending(text)]

AskedInLog(log) == {t \in Turn : \E i \in 1..Len(log) : Starts(log[i]) /\ log[i].turn = t}

=============================================================================
