---------------------------- MODULE PageSession ----------------------------
(***************************************************************************)
(* A page and its session: page/src/useAgentSocket.ts on one side, the     *)
(* websocket server (internal/transport/ws/server.go) on the other, and    *)
(* the connections between them.                                           *)
(*                                                                         *)
(* What the turns and cancellations of the session write to its log is     *)
(* TurnProtocol, which TurnRuntime implements.  Here nothing fails but     *)
(* connections.  The goroutine of a turn sends each event it has logged;   *)
(* the reader goroutine of a connection answers the messages of the page   *)
(* one after the other; both write to the same socket.                     *)
(*                                                                         *)
(* Connections are numbered in the order in which the page opens them.     *)
(***************************************************************************)
EXTENDS PageView, FiniteSets

CONSTANTS
    MaxConns,       \* bound: connections the page opens
    Budget          \* bounds: how often a behaviour may do the things of Bounded

Bounded == {"connect", "attach", "turn", "cancel", "delta", "stray"}

ASSUME PageSessionAssumption ==
    MaxConns \in Nat \ {0} /\ Budget \subseteq [Bounded -> Nat]

Conn == 1..MaxConns

VARIABLES
    log, current, phase, pending,   \* the session, as in TurnProtocol
    cancelEmitted,  \* a cancellation of the current turn was accepted
    stage,          \* stage[t]: "new", "sent", "accepted", "running", "rejected", "done"
    home,           \* home[t]: the connection of turn t, or 0
    unsent,         \* the events the current turn has logged and not sent
    inbox,          \* inbox[c]: messages from the page
    attached,       \* attached[c]: the session is in attachedSessionIDs
    out,            \* out[c]: what the reader of c has yet to send for its message
    cancelling,     \* cancelling[c]: the turn the reader of c has yet to announce
    wire,           \* wire[c]: messages to the page
    socket,         \* socket[c]: "none", "open", "closing", "closed"
    conn,           \* socketRef: the latest connection, or 0
    page,           \* the state of the page
    told,           \* history: the events that have arrived since the page was cleared,
    shown,          \* ... those of them the reducer has taken in,
    strays,         \* ... and the numbers of those of other sessions
    left            \* what is left of the budget

session == <<log, current, phase, pending>>
turns   == <<cancelEmitted, stage, home, unsent>>
reader  == <<inbox, attached, out, cancelling>>
history == <<told, shown, strays>>
client  == <<conn, page, history>>
vars == <<session, turns, reader, wire, socket, client, left>>

Session == INSTANCE TurnProtocol

Init ==
    /\ Session!Init
    /\ cancelEmitted = FALSE
    /\ stage = [t \in Turn |-> "new"] /\ home = [t \in Turn |-> 0]
    /\ unsent = << >>
    /\ inbox = [c \in Conn |-> << >>] /\ attached = [c \in Conn |-> FALSE]
    /\ out = [c \in Conn |-> << >>] /\ cancelling = [c \in Conn |-> NoTurn]
    /\ wire = [c \in Conn |-> << >>] /\ socket = [c \in Conn |-> "none"]
    /\ conn = 0 /\ page = InitPage
    /\ told = << >> /\ shown = {} /\ strays = {}
    /\ left \in Budget

Spend(kind) == left[kind] > 0 /\ left' = [left EXCEPT ![kind] = @ - 1]

-----------------------------------------------------------------------------
(* The goroutine of a turn *)

\* RunTurn: the session takes one turn at a time.
Register(t) ==
    /\ stage[t] = "accepted" /\ Session!Take(t)
    /\ stage' = [stage EXCEPT ![t] = "running"] /\ cancelEmitted' = FALSE
    /\ UNCHANGED <<home, unsent, reader, wire, socket, client, left>>

\* turn_in_progress: the page gets an error that changes none of its messages.
Reject(t) ==
    /\ stage[t] = "accepted" /\ current # NoTurn
    /\ stage' = [stage EXCEPT ![t] = "rejected"]
    /\ UNCHANGED <<session, cancelEmitted, home, unsent, reader, wire, socket, client, left>>

\* An event of the turn is logged.
Speak ==
    /\ unsent = << >>
    /\ \/ Session!Says("turn.started", "taken", "open") /\ phase' = "open"
       \/ Session!Streams
       \/ Session!Says("assistant.message", "open", "answered") /\ phase' = "answered"
       \/ Session!Says("turn.completed", "answered", "over")
       \/ Session!Says("turn.failed", "open", "over")
       \/ Session!Says("turn.cancelled", "open", "over")
    /\ unsent' = <<Last(log')>>
    /\ IF Last(log').type = "assistant.delta" THEN Spend("delta") ELSE UNCHANGED left
    /\ UNCHANGED <<cancelEmitted, stage, home, reader, wire, socket, client>>

\* completeWithError leaves the announcement of an accepted cancellation to CancelTurn.
LeaveToCancel ==
    /\ unsent = << >> /\ cancelEmitted /\ phase = "open"
    /\ Session!FallSilent
    /\ UNCHANGED <<turns, reader, wire, socket, client, left>>

\* The sink of handleTurnStart, on the connection the turn came from.
SendLive ==
    /\ unsent # << >> /\ socket[home[current]] = "open"
    /\ wire' = [wire EXCEPT ![home[current]] = Append(@, SessionEvent(Head(unsent)))]
    /\ unsent' = << >>
    /\ UNCHANGED <<session, cancelEmitted, stage, home, reader, socket, client, left>>

\* The connection is gone: the write may be swallowed, or fail and end the turn.  A
\* delta that fails is followed by an end of its own.
LoseLive ==
    /\ unsent # << >> /\ socket[home[current]] # "open"
    /\ \/ UNCHANGED session
       \/ Head(unsent).type # "assistant.delta" /\ Session!FallSilent
    /\ unsent' = << >>
    /\ UNCHANGED <<cancelEmitted, stage, home, reader, wire, socket, client, left>>

Leave ==
    /\ unsent = << >> /\ Session!Leave
    /\ stage' = [stage EXCEPT ![current] = "done"] /\ cancelEmitted' = FALSE
    /\ UNCHANGED <<home, unsent, reader, wire, socket, client, left>>

-----------------------------------------------------------------------------
(* The reader goroutine of a connection *)

\* ReadMessage returns the next message once the last one has been handled.
Handles(c, type) ==
    /\ out[c] = << >> /\ cancelling[c] = NoTurn
    /\ inbox[c] # << >> /\ Head(inbox[c]).type = type
    /\ inbox' = [inbox EXCEPT ![c] = Tail(@)]

Events == [i \in 1..Len(log) |-> SessionEvent(log[i])]

HandleCreate(c) ==
    /\ Handles(c, "session.create")
    /\ Session!Adds("session.created", NoTurn)
    /\ attached' = [attached EXCEPT ![c] = TRUE]
    /\ out' = [out EXCEPT ![c] = <<SessionReady(1), SessionEvent(log'[1])>>]
    /\ UNCHANGED <<current, phase, pending, turns, cancelling, wire, socket, client, left>>

\* AttachSession reads one gapless piece of the log; the page asks for all of it.
HandleAttach(c) ==
    /\ Handles(c, "session.attach")
    /\ attached' = [attached EXCEPT ![c] = TRUE]
    /\ out' = [out EXCEPT ![c] = <<SessionReady(Len(log))>> \o Events]
    /\ UNCHANGED <<session, turns, cancelling, wire, socket, client, left>>

\* turn.accepted is written before the goroutine of the turn starts.  Without an
\* attached session the answer is an error.
HandleTurnStart(c) ==
    /\ Handles(c, "turn.start")
    /\ LET t == Head(inbox[c]).turn IN
        IF attached[c]
        THEN /\ stage' = [stage EXCEPT ![t] = "accepted"]
             /\ home' = [home EXCEPT ![t] = c]
             /\ wire' = IF socket[c] = "open"
                        THEN [wire EXCEPT ![c] = Append(@, TurnAccepted(t))] ELSE wire
        ELSE UNCHANGED <<stage, home, wire>>
    /\ UNCHANGED <<session, cancelEmitted, unsent, attached, out, cancelling, socket, client, left>>

\* turn_not_found is an error, too.
HandleTurnCancel(c) ==
    /\ Handles(c, "turn.cancel")
    /\ LET t == Head(inbox[c]).turn IN
        IF attached[c] /\ current = t
        THEN /\ Session!AcceptCancel(t)
             /\ cancelEmitted' = TRUE
             /\ cancelling' = [cancelling EXCEPT ![c] = t]
        ELSE UNCHANGED <<session, cancelEmitted, cancelling>>
    /\ UNCHANGED <<stage, home, unsent, attached, out, wire, socket, client, left>>

Announce(c) ==
    /\ cancelling[c] # NoTurn
    /\ Session!SettleCancel(cancelling[c]) /\ log' # log
    /\ cancelling' = [cancelling EXCEPT ![c] = NoTurn]
    /\ out' = [out EXCEPT ![c] = <<SessionEvent(Last(log'))>>]
    /\ UNCHANGED <<turns, inbox, attached, wire, socket, client, left>>

\* The handlers ignore the errors of their writes.
SendReply(c) ==
    /\ out[c] # << >>
    /\ wire' = IF socket[c] = "open" THEN [wire EXCEPT ![c] = Append(@, Head(out[c]))] ELSE wire
    /\ out' = [out EXCEPT ![c] = Tail(@)]
    /\ UNCHANGED <<session, turns, inbox, attached, cancelling, socket, client, left>>

\* ReadMessage fails: what the page has sent since is lost.
HangUp(c) ==
    /\ socket[c] \in {"closing", "closed"} /\ inbox[c] # << >>
    /\ inbox' = [inbox EXCEPT ![c] = << >>]
    /\ UNCHANGED <<session, turns, attached, out, cancelling, wire, socket, client, left>>

\* A turn of a session to which the page was attached before goes on and sends its events
\* on the same connection.
SendStray(c) ==
    /\ socket[c] = "open" /\ Spend("stray")
    /\ \E n \in 1..SeenLimit :
        wire' = [wire EXCEPT ![c] = Append(@, SessionEvent(
                    [type |-> "assistant.delta", turn |-> NoTurn, seq |-> n]))]
    /\ UNCHANGED <<session, turns, reader, socket, client>>

-----------------------------------------------------------------------------
(* The page *)

\* send: nothing leaves a socket that is not open.
Open == conn # 0 /\ socket[conn] = "open"
Send(m) == inbox' = IF Open THEN [inbox EXCEPT ![conn] = Append(@, m)] ELSE inbox

\* connect: the old socket is told to close; its onclose comes later.
Connect ==
    /\ Spend("connect") /\ conn < MaxConns /\ page.status # "connecting"
    /\ conn' = conn + 1
    /\ socket' = [c \in Conn |-> IF c = conn + 1 THEN "open"
                                 ELSE IF socket[c] = "open" THEN "closing" ELSE socket[c]]
    /\ wire' = [c \in Conn |-> IF c = conn + 1 THEN <<ConnectionReady>> ELSE << >>]
    /\ page' = [page EXCEPT !.status = "connecting"]
    /\ UNCHANGED <<session, turns, reader, history>>

\* disconnect, or the network: no message arrives on a socket that is closing.
Drop ==
    /\ Open
    /\ socket' = [socket EXCEPT ![conn] = "closing"]
    /\ wire' = [wire EXCEPT ![conn] = << >>]
    /\ UNCHANGED <<session, turns, reader, client, left>>

\* onclose, of the latest socket or an older one; onerror precedes it when the
\* network broke.
OnClose(c) ==
    /\ socket[c] = "closing"
    /\ socket' = [socket EXCEPT ![c] = "closed"]
    /\ \E broken \in BOOLEAN :
        page' = [page EXCEPT !.pendingTurnId = NoTurn,
                    !.status = IF broken \/ @ = "error" THEN "error" ELSE "closed"]
    /\ UNCHANGED <<session, turns, reader, wire, conn, history, left>>

\* onmessage.  An event that no turn of this session has logged is a stray one.
Foreign(m) == m.event.type = "assistant.delta" /\ m.event.turn = NoTurn

Notes(m) ==
    LET n == m.event.seq
    IN  IF Foreign(m)
        THEN strays' = strays \cup {n} /\ UNCHANGED <<told, shown>>
        ELSE /\ told' = IF Contains(told, n) THEN told ELSE Append(told, n)
             /\ shown' = IF page' = page THEN shown ELSE shown \cup {n}
             /\ UNCHANGED strays

Receive(c) ==
    /\ wire[c] # << >>
    /\ page' = Reduce(page, Head(wire[c]))
    /\ IF Head(wire[c]).type = "session.event" THEN Notes(Head(wire[c])) ELSE UNCHANGED history
    /\ wire' = [wire EXCEPT ![c] = Tail(@)]
    /\ UNCHANGED <<session, turns, reader, socket, conn, left>>

Forget == told' = << >> /\ shown' = {} /\ strays' = {}

\* The buttons of App.tsx are disabled unless the page is connected.  The page is cleared
\* even if the message cannot leave: between the end of a socket and its onclose.
CreateSession ==
    /\ page.status = "connected" /\ log = << >>
    /\ \A c \in Conn : inbox[c] = << >>
    /\ page' = Cleared(page, FALSE) /\ Forget
    /\ Send([type |-> "session.create"])
    /\ UNCHANGED <<session, turns, attached, out, cancelling, wire, socket, conn, left>>

AttachSession ==
    /\ page.status = "connected" /\ log # << >>
    /\ Spend("attach")
    /\ page' = Cleared(page, TRUE) /\ Forget
    /\ Send([type |-> "session.attach"])
    /\ UNCHANGED <<session, turns, attached, out, cancelling, wire, socket, conn>>

\* A turn or a cancel that cannot leave changes nothing.
SendTurn(t) ==
    /\ page.status = "connected" /\ page.sessionId /\ page.pendingTurnId = NoTurn
    /\ Spend("turn") /\ stage[t] = "new" /\ stage' = [stage EXCEPT ![t] = "sent"]
    /\ Open /\ Send([type |-> "turn.start", turn |-> t])
    /\ UNCHANGED <<session, cancelEmitted, home, unsent, attached, out, cancelling, wire,
                   socket, client>>

CancelTurn ==
    /\ page.sessionId /\ page.pendingTurnId # NoTurn
    /\ Spend("cancel")
    /\ Open /\ Send([type |-> "turn.cancel", turn |-> page.pendingTurnId])
    /\ UNCHANGED <<session, turns, attached, out, cancelling, wire, socket, client>>

-----------------------------------------------------------------------------

Next ==
    \/ \E t \in Turn : Register(t) \/ Reject(t) \/ SendTurn(t)
    \/ Speak \/ LeaveToCancel \/ SendLive \/ LoseLive \/ Leave
    \/ \E c \in Conn :
        \/ HandleCreate(c) \/ HandleAttach(c) \/ HandleTurnStart(c) \/ HandleTurnCancel(c)
        \/ Announce(c) \/ SendReply(c) \/ SendStray(c) \/ HangUp(c) \/ OnClose(c) \/ Receive(c)
    \/ Connect \/ Drop \/ CreateSession \/ AttachSession \/ CancelTurn

Spec == Init /\ [][Next]_vars

-----------------------------------------------------------------------------
(* Properties *)

\* Types; the page never remembers more than SeenLimit numbers.
TypeOK ==
    /\ log \in Seq(Event) /\ current \in Turn \cup {NoTurn}
    /\ phase \in {"none", "taken", "open", "answered", "over"}
    /\ pending \in [Turn -> Nat] /\ cancelEmitted \in BOOLEAN
    /\ stage \in [Turn -> {"new", "sent", "accepted", "running", "rejected", "done"}]
    /\ home \in [Turn -> 0..MaxConns] /\ unsent \in Seq(Event)
    /\ attached \in [Conn -> BOOLEAN] /\ cancelling \in [Conn -> Turn \cup {NoTurn}]
    /\ socket \in [Conn -> {"none", "open", "closing", "closed"}]
    /\ conn \in 0..MaxConns /\ page \in Page /\ told \in Seq(Nat)
    /\ Len(page.seenSeqs) <= SeenLimit
    /\ shown \subseteq ToSet(told) /\ strays \subseteq Nat

\* What the page has to tell apart fits into its memory.
Fits == Len(log) + Cardinality(strays) <= SeenLimit

\* The pieces of an answer that event n of the log brings: a delta brings itself, the
\* message of a turn repeats all deltas of the turn, an error or a cancellation none.
Pieces(n) ==
    CASE log[n].type = "assistant.delta"   -> {n}
      [] log[n].type = "assistant.message" ->
            {m \in 1..(n - 1) : log[m].type = "assistant.delta" /\ log[m].turn = log[n].turn}
      [] OTHER -> {}

\* The page got the message of turn t before one of its deltas: live, before the reader
\* has replayed the delta.
MessageOvertakes(t) ==
    \E i, j \in DOMAIN told :
        /\ i < j /\ {told[i], told[j]} \subseteq DOMAIN log
        /\ log[told[i]].type = "assistant.message" /\ log[told[i]].turn = t
        /\ log[told[j]].type = "assistant.delta"   /\ log[told[j]].turn = t

\* In a session of no more than SeenLimit events the page takes no event into an answer
\* twice, although the log is replayed while its events also arrive live; and it shows no
\* piece of an answer twice, except of one whose message has overtaken the replay of a
\* delta: appendAssistantDelta then adds the delta to the message that contains it.
NoPieceTwice ==
    Fits => \A t \in Turn :
        LET text == page.answer[t].text
        IN  /\ IsInjective(text)
            /\ \/ MessageOvertakes(t)
               \/ \A i, j \in DOMAIN text : i # j => Pieces(text[i]) \cap Pieces(text[j]) = {}

\* Nothing is under way on the server, on the wire or in a socket that is closing.
AtRest ==
    /\ current = NoTurn /\ Open /\ attached[conn]
    /\ \A t \in Turn : stage[t] # "accepted"
    /\ \A c \in Conn :
        /\ inbox[c] = << >> /\ out[c] = << >> /\ wire[c] = << >>
        /\ cancelling[c] = NoTurn /\ socket[c] # "closing"

\* The replay of the log and the live events leave no gap between them: in a session of
\* no more than SeenLimit events, a page whose turns all ran on its connection has taken
\* in every event since it was last cleared, except those whose numbers it has met in
\* events of another session.
NothingMissed ==
    AtRest /\ Fits /\ (\A t \in Turn : home[t] \in {0, conn})
        => 1..Len(log) \ strays \subseteq shown

\* In a session of no more than SeenLimit events: a page that got every event of the
\* log in its order, once or more often, and no others, shows what the log says.
InOrder == told = [i \in 1..Len(log) |-> i]
InOrderShowsTheLog ==
    AtRest /\ InOrder /\ strays = {} /\ Fits =>
        /\ page.answer = [t \in Turn |-> AnswerInLog(log, t)]
        /\ page.asked = AskedInLog(log)

\* A page that got every event of the log, in whatever order the goroutines of the
\* server have sent them, does not show an answer as streaming that has ended in the log.
StreamingEnds ==
    AtRest /\ ToSet(told) = 1..Len(log) =>
        \A t \in Turn :
            page.answer[t].status = "streaming" => AnswerInLog(log, t).status = "streaming"

\* At rest the page waits for no turn, except one the server has rejected, or one whose
\* end bears a number the page has met in an event of another session.
PendingSettles ==
    AtRest /\ page.pendingTurnId # NoTurn =>
        \/ stage[page.pendingTurnId] = "rejected"
        \/ \E n \in strays \cap DOMAIN log : Ends(log[n], page.pendingTurnId)

=============================================================================
