---------------------------- MODULE MCEventStore ----------------------------
(***************************************************************************)
(* Small instances of EventStore: two appending goroutines and one client  *)
(* that attaches, in one process.                                          *)
(***************************************************************************)
EXTENDS EventStore, TLC

CONSTANTS p1, a1, a2, r1, t1, t2

OneProcess == [g \in Appender \cup Attacher |-> p1]

\* Starts and ends of two turns.
StartsAndEnds ==
    {[type |-> ty, turn |-> t] : ty \in {"turn.started", "turn.cancelled"}, t \in {t1, t2}}

\* A turn and an event that changes no index field but the sequence number.
Plain ==
    {[type |-> "turn.started", turn |-> t1], [type |-> "assistant.delta", turn |-> t1]}

\* The goroutines of one process do the same things, and so do the turns.
Alike == Permutations({a1, a2}) \cup Permutations({t1, t2})

=============================================================================
