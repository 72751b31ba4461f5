---------------------------- MODULE TurnProtocol ----------------------------
(***************************************************************************)
(* What the event log of a session promises its readers about turns.       *)
(*                                                                         *)
(* One turn at a time holds the session.  Its own events are turn.started, *)
(* then deltas, then either assistant.message and turn.completed or one of *)
(* turn.failed and turn.cancelled; it may fall silent at any point.  A     *)
(* cancellation the session accepts while the turn holds it is announced   *)
(* by one turn.cancelled, at any later time.  Nothing else enters the log. *)
(*                                                                         *)
(* TurnRuntime implements this module.                                     *)
(***************************************************************************)
EXTENDS SessionEvents

VARIABLES
    log,        \* the events of the session
    current,    \* the turn that holds the session
    phase,      \* what it has said: "none", "taken", "open", "answered", "over"
    pending     \* pending[t]: accepted cancellations of t not yet announced

vars == <<log, current, phase, pending>>

Init ==
    /\ log = << >>
    /\ current = NoTurn /\ phase = "none"
    /\ pending = [t \in Turn |-> 0]

Take(t) ==
    /\ current = NoTurn
    /\ current' = t /\ phase' = "taken"
    /\ UNCHANGED <<log, pending>>

Adds(type, t) == log' = Append(log, Stamp([type |-> type, turn |-> t], Len(log) + 1))

\* The holder says something.  After an error it says nothing more.
Says(type, from, to) ==
    /\ current # NoTurn /\ phase = from
    /\ Adds(type, current)
    /\ phase' \in {to, "over"}
    /\ UNCHANGED <<current, pending>>

\* A failed delta is followed by an end, unlike any other error.
Streams == Says("assistant.delta", "open", "open") /\ phase' = "open"

Speaks ==
    \/ Says("turn.started", "taken", "open")
    \/ Streams
    \/ Says("assistant.message", "open", "answered")
    \/ Says("turn.completed", "answered", "over")
    \/ Says("turn.failed", "open", "over")
    \/ Says("turn.cancelled", "open", "over")

FallSilent ==
    /\ phase \in {"taken", "open", "answered"} /\ phase' = "over"
    /\ UNCHANGED <<log, current, pending>>

Leave ==
    /\ phase = "over"
    /\ current' = NoTurn /\ phase' = "none"
    /\ UNCHANGED <<log, pending>>

AcceptCancel(t) ==
    /\ current = t
    /\ pending' = [pending EXCEPT ![t] = @ + 1]
    /\ UNCHANGED <<log, current, phase>>

\* Announced, or lost to an error of the store.
SettleCancel(t) ==
    /\ pending[t] > 0
    /\ pending' = [pending EXCEPT ![t] = @ - 1]
    /\ Adds("turn.cancelled", t) \/ UNCHANGED log
    /\ UNCHANGED <<current, phase>>

Next ==
    \/ Speaks \/ FallSilent \/ Leave
    \/ \E t \in Turn : Take(t) \/ AcceptCancel(t) \/ SettleCancel(t)

Spec == Init /\ [][Next]_vars

=============================================================================
