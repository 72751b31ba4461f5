--------------------------- MODULE MCPageSession ---------------------------
(***************************************************************************)
(* Small instances of PageSession.                                         *)
(***************************************************************************)
EXTENDS PageSession, TLC

CONSTANTS t1, t2

Alike == Permutations({t1, t2})

Only(c, a, t, x, d, s) ==
    [connect |-> c, attach |-> a, turn |-> t, cancel |-> x, delta |-> d, stray |-> s]

\* Two turns, one of them perhaps rejected, and a cancel; two attaches during a turn;
\* a reconnection during a turn; two turns and a reconnection; a cancel and an attach;
\* a turn and an attach with an event of another session.
Budgets == {Only(1, 0, 2, 1, 1, 0), Only(1, 2, 1, 0, 1, 0), Only(2, 1, 1, 0, 1, 0),
            Only(2, 0, 2, 0, 0, 0), Only(1, 1, 1, 1, 0, 0), Only(1, 1, 1, 0, 0, 1)}

\* One turn with a delta, and its cancellation.
CancelBudget == {Only(1, 0, 1, 1, 1, 0)}

=============================================================================
