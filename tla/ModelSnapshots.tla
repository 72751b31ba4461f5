--------------------------- MODULE ModelSnapshots ---------------------------
(***************************************************************************)
(* What the model manager promises the turns: one current snapshot, which  *)
(* is replaced as a whole, and a version that belongs to one snapshot only *)
(* and grows by one with each.                                             *)
(*                                                                         *)
(* ModelManager implements this module; Conversation uses it.              *)
(***************************************************************************)
EXTENDS Integers

CONSTANTS
    Model,          \* what a configuration resolves to
    DefaultModel    \* what the built-in defaults resolve to

VARIABLE current    \* the snapshot Manager.Snapshot returns

Snapshot == [version : Nat, model : Model]

Init == current = [version |-> 0, model |-> DefaultModel]

Publish(m) == current' = [version |-> current.version + 1, model |-> m]

Next == \E m \in Model : Publish(m)

Spec == Init /\ [][Next]_current

=============================================================================
