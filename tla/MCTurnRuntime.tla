---------------------------- MODULE MCTurnRuntime ---------------------------
(***************************************************************************)
(* Small instances of TurnRuntime: two turns of one session, each on a     *)
(* connection of its own, so that either can cancel its own turn and the   *)
(* other's.                                                                *)
(***************************************************************************)
EXTENDS TurnRuntime

CONSTANTS t1, t2, c1, c2

\* The turns do the same things, and so do their connections.
Swap == [x \in {t1, t2, c1, c2} |->
           CASE x = t1 -> t2 [] x = t2 -> t1 [] x = c1 -> c2 [] x = c2 -> c1]
Alike == {Swap, [x \in {t1, t2, c1, c2} |-> x]}

OwnConnections == [t \in Turn |-> IF t = t1 THEN c1 ELSE c2]

\* Two faults, two cancels, or one of each; one of each; a cancel.
FaultsOrCancels ==
    {[faults |-> 2, cancels |-> 0], [faults |-> 1, cancels |-> 1], [faults |-> 0, cancels |-> 2]}
OneOfEach == {[faults |-> 1, cancels |-> 1]}
OneCancel == {[faults |-> 0, cancels |-> 1]}

=============================================================================
