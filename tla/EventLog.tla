------------------------------ MODULE EventLog ------------------------------
(***************************************************************************)
(* What the session store promises the runtime: AppendEvent is one atomic  *)
(* step of a log whose events are numbered 1, 2, 3, ... in the order in    *)
(* which they are appended.  A call is made, takes effect once or is       *)
(* refused without effect, and returns.                                    *)
(*                                                                         *)
(* EventStore implements this module as long as one process writes the     *)
(* session and no write of state.json fails or is cut off by a crash.      *)
(***************************************************************************)
EXTENDS SessionEvents

CONSTANT Appender           \* the goroutines that append

VARIABLES
    log,                    \* the events of the session, in order
    stage,                  \* stage[a]: where the call of appender a stands
    request                 \* request[a]: the event a wants appended

vars == <<log, stage, request>>

Init ==
    /\ log = << >>
    /\ stage = [a \in Appender |-> "idle"]
    /\ request \in [Appender -> Request]

Move(a, from, to) ==
    /\ stage[a] = from
    /\ stage' = [stage EXCEPT ![a] = to]

Call(a, req) ==
    /\ Move(a, "idle", "called")
    /\ request' = [request EXCEPT ![a] = req]
    /\ UNCHANGED log

\* The one step at which the event is in the log, with the next number.
Commit(a) ==
    /\ Move(a, "called", "committed")
    /\ log' = Append(log, Stamp(request[a], Len(log) + 1))
    /\ UNCHANGED request

Refuse(a) == Move(a, "called", "idle") /\ UNCHANGED <<log, request>>
Return(a) == Move(a, "committed", "idle") /\ UNCHANGED <<log, request>>

Next ==
    \E a \in Appender :
        \/ \E req \in Request : Call(a, req)
        \/ Commit(a) \/ Refuse(a) \/ Return(a)

Spec == Init /\ [][Next]_vars

=============================================================================
