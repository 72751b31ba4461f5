---------------------------- MODULE MCSupervisor ----------------------------
(* Instances of Supervisor: the process that created the session, and another. *)
EXTENDS Supervisor, TLC

CONSTANTS p1, p2, g1, g2, g3

\* Two requests at the process that created the session, one at another process.
MostAtCreator == g1 :> p1 @@ g2 :> p1 @@ g3 :> p2

\* One request at each process.
OneEach == g1 :> p1 @@ g2 :> p2

=============================================================================
