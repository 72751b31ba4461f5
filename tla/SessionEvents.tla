--------------------------- MODULE SessionEvents ---------------------------
(***************************************************************************)
(* What a line of events.jsonl and the contents of state.json say, and the *)
(* way AppendEvent folds one into the other (internal/session/types.go and *)
(* the switch in internal/session/store.go).  Shared by every module that  *)
(* appends to, reads or replays the event log of a session.                *)
(*                                                                         *)
(* An event keeps the fields the log's readers tell apart: its type, its   *)
(* turn and its sequence number.  Texts, timestamps and metadata are left  *)
(* out.                                                                    *)
(***************************************************************************)
EXTENDS Integers, Sequences

CONSTANTS
    Turn,       \* turn ids: the ids the clients give to their turn.start messages
    NoTurn      \* the empty turn id ""

ASSUME NoTurnAssumption == NoTurn \notin Turn

TerminalType == {"turn.completed", "turn.failed", "turn.cancelled"}

EventType ==
    {"session.created", "turn.started", "assistant.delta", "assistant.message"}
        \cup TerminalType

\* What a caller hands to AppendEvent, and what the log then holds.
Request == [type : EventType, turn : Turn \cup {NoTurn}]
Event   == [type : EventType, turn : Turn \cup {NoTurn}, seq : Nat]

Stamp(req, n) == [type |-> req.type, turn |-> req.turn, seq |-> n]

\* state.json: the fields AppendEvent reads back and rewrites.
Index     == [latestSeq : Nat, activeTurn : Turn \cup {NoTurn}]
InitIndex == [latestSeq |-> 0, activeTurn |-> NoTurn]

Starts(e) == e.type = "turn.started"
Ends(e, t) == e.type \in TerminalType /\ e.turn = t

\* AppendEvent's switch on the event type.  A terminal event clears the active
\* turn only when it belongs to that turn.
ActiveAfter_NoOwnerTest(active, e) ==
    IF Starts(e) THEN e.turn
    ELSE IF e.type \in TerminalType THEN NoTurn ELSE active

ActiveAfter_StoresType(active, e) ==
    IF Starts(e) THEN e.type
    ELSE IF Ends(e, active) THEN NoTurn ELSE active

ActiveAfter(active, e) ==
    IF Starts(e) THEN e.turn
    ELSE IF Ends(e, active) THEN NoTurn ELSE active

ApplyEvent_NextSeqSaved(index, e) ==
    [latestSeq |-> e.seq + 1, activeTurn |-> ActiveAfter(index.activeTurn, e)]

ApplyEvent(index, e) ==
    [latestSeq |-> e.seq, activeTurn |-> ActiveAfter(index.activeTurn, e)]

-----------------------------------------------------------------------------
(***************************************************************************)
(* What state.json has to say about the first n events of a log, stated    *)
(* from the log alone: this is what makes it an index that can be rebuilt. *)
(***************************************************************************)

\* Turn t was started, nothing started after it, and it has not ended since.
OpenTurn(log, n, t) ==
    \E k \in 1..n :
        /\ Starts(log[k]) /\ log[k].turn = t
        /\ \A j \in (k+1)..n : ~Starts(log[j]) /\ ~Ends(log[j], t)

IndexFor(index, log, n) ==
    /\ index.latestSeq = n
    /\ \A t \in Turn : (index.activeTurn = t) <=> OpenTurn(log, n, t)

=============================================================================
