---------------------------- MODULE Conversation ----------------------------
(***************************************************************************)
(* What the turns of a session say and what they are told: the history     *)
(* read from the log and trimmed to a prompt, the request to the model the *)
(* turn's snapshot names, the deltas and the answer (readConversation-     *)
(* History, prepareMessages and RunTurn in internal/session/runtime.go,    *)
(* Client.Stream in internal/model/client.go).                             *)
(*                                                                         *)
(* The module puts contents into the turns of TurnProtocol, which          *)
(* TurnRuntime implements, and takes its models from ModelSnapshots, which *)
(* ModelManager implements: every step is a step of one of the two, or one *)
(* inside a turn.  The model server is external: it may refuse, answer as  *)
(* a whole or in a stream, and break off or end the stream at any time.    *)
(*                                                                         *)
(* Turn ids are the clients' choice: a later turn may bear an earlier      *)
(* one's id.  A run is one execution of RunTurn, and its input is known by *)
(* its number.  An append that fails leaves nothing in the log here.       *)
(***************************************************************************)
EXTENDS SessionEvents, SequencesExt

CONSTANTS
    Model, DefaultModel,    \* as in ModelSnapshots
    Keyless,        \* the models whose API key variable is not set
    Limit,          \* 40: a prompt has at most so many messages
    MaxRuns,        \* bound: how many turns are taken
    MaxWords,       \* bound: how many deltas the model servers send
    MaxBeside       \* bound: models published and cancellations accepted, together

ASSUME ConversationAssumption ==
    /\ DefaultModel \in Model /\ Keyless \subseteq Model
    /\ Limit \in Nat /\ Limit >= 2 /\ Limit % 2 = 0
    /\ MaxRuns \in Nat /\ MaxWords \in Nat /\ MaxBeside \in Nat

VARIABLES
    log, current, phase, pending,   \* as in TurnProtocol
    rows,           \* what the events of log say, one row for each
    snapshot,       \* Manager.current
    taken,          \* the snapshot of the turn under way
    prompt,         \* the messages of the turn under way
    output,         \* what Client.Stream has put together
    call,           \* where Client.Stream stands
    run,            \* the number of the latest turn
    asked,          \* history: asked[n]: the models run n has sent its prompt to
    published       \* history: published[v]: the model of version v

protocolVars == <<log, current, phase, pending>>
turn == <<taken, prompt, output, call>>
vars == <<protocolVars, rows, snapshot, turn, run, asked, published>>

Protocol == INSTANCE TurnProtocol
Snapshots == INSTANCE ModelSnapshots WITH current <- snapshot

System == [role |-> "system", run |-> 0]
User(n) == [role |-> "user", run |-> n]
Assistant(n) == [role |-> "assistant", run |-> n]
Message == [role : {"system", "user", "assistant"}, run : Nat]

\* A row says whose it is, which deltas it holds (a delta is known by its place in the
\* log) and, if it is an answer, the snapshot its metadata claim.
Row == [run : Nat, words : Seq(Nat), by : Snapshots!Snapshot \cup {<<>>}]

Init ==
    /\ Protocol!Init /\ rows = << >>
    /\ Snapshots!Init
    /\ taken = snapshot /\ prompt = << >> /\ output = << >> /\ call = "none"
    /\ run = 0 /\ asked = << >> /\ published = << >>

-----------------------------------------------------------------------------
(* readConversationHistory and prepareMessages *)

\* The map from turn ids to the inputs not answered yet, 0 for none, and the messages so
\* far; an answer takes its input out of the map.
Remember_First(inputs, i) ==
    IF inputs[log[i].turn] # 0 THEN inputs ELSE [inputs EXCEPT ![log[i].turn] = rows[i].run]
Remember(inputs, i) == [inputs EXCEPT ![log[i].turn] = rows[i].run]

Reads(known, i) ==
    LET t == log[i].turn
    IN  IF log[i].type = "turn.started"
        THEN [known EXCEPT !.inputs = Remember(@, i)]
        ELSE IF log[i].type = "assistant.message" /\ known.inputs[t] # 0
        THEN [inputs |-> [known.inputs EXCEPT ![t] = 0],
              messages |-> known.messages \o
                               <<User(known.inputs[t]), Assistant(rows[i].run)>>]
        ELSE known

History ==
    FoldLeft(Reads, [inputs |-> [t \in Turn |-> 0], messages |-> << >>],
             [i \in DOMAIN log |-> i]).messages

\* A prompt that is too long keeps its first message and its last ones.
Recent_OneMore == Limit
Recent == Limit - 1

PrepareMessages(history, input) ==
    LET all == <<System>> \o history \o <<input>>
    IN  IF Len(all) <= Limit THEN all
        ELSE <<all[1]>> \o SubSeq(all, Len(all) - Recent + 1, Len(all))

-----------------------------------------------------------------------------
(* RunTurn *)

Says(words, by) ==
    rows' = IF log' = log THEN rows ELSE Append(rows, [run |-> run, words |-> words, by |-> by])

Said(type) == Cardinality({i \in DOMAIN log : log[i].type = type})

InTurn == UNCHANGED <<protocolVars, rows, snapshot, taken, run, published>>
Outside == UNCHANGED <<snapshot, taken, prompt, run, asked, published>>

\* The turn takes the snapshot before it says anything.
Take(t) ==
    /\ run < MaxRuns /\ run' = run + 1
    /\ Protocol!Take(t)
    /\ taken' = snapshot
    /\ prompt' = << >> /\ output' = << >> /\ call' = "none"
    /\ asked' = Append(asked, {})
    /\ UNCHANGED <<rows, snapshot, published>>

Started ==
    /\ Protocol!Says("turn.started", "taken", "open") /\ Says(<< >>, << >>)
    /\ Outside /\ UNCHANGED <<output, call>>

ReadHistory ==
    /\ phase = "open" /\ call = "none"
    /\ call' = "prepared"
    /\ prompt' = PrepareMessages(History, User(run))
    /\ InTurn /\ UNCHANGED <<output, asked>>

\* Client.Stream: without its key the model is not asked.
Ask ==
    /\ call = "prepared" /\ taken.model \notin Keyless
    /\ asked' = [asked EXCEPT ![run] = @ \cup {taken.model}]
    /\ call' \in {"whole", "streaming", "failed"}
    /\ InTurn /\ UNCHANGED <<prompt, output>>

KeyMissing ==
    /\ call = "prepared" /\ taken.model \in Keyless
    /\ call' = "failed"
    /\ InTurn /\ UNCHANGED <<prompt, output, asked>>

\* A piece of the answer is added to the output and handed to the callback, which logs
\* it; the callback may fail after that.  An answer in one piece has one, or is empty.
Collected_Last == <<Len(log) + 1>>
Collected == Append(output, Len(log) + 1)

Delta ==
    /\ Said("assistant.delta") < MaxWords
    /\ \/ call = "streaming" /\ call' \in {"streaming", "failed"}
       \/ call = "whole" /\ call' \in {"done", "failed"}
    /\ Protocol!Streams /\ Says(<<Len(log) + 1>>, << >>)
    /\ output' = Collected
    /\ Outside

\* With or without [DONE], and whether or not the turn is cancelled meanwhile.
StreamEnds ==
    /\ call \in {"streaming", "whole"} /\ call' = "done"
    /\ InTurn /\ UNCHANGED <<prompt, output, asked>>

\* A broken connection, a cancelled context, or an event that could not be logged.
StreamBreaks ==
    /\ call \in {"streaming", "whole"} /\ call' = "failed"
    /\ InTurn /\ UNCHANGED <<prompt, output, asked>>

Claimed_Current == snapshot
Claimed == taken

Answer ==
    /\ call = "done"
    /\ Protocol!Says("assistant.message", "open", "answered") /\ Says(output, Claimed)
    /\ Outside /\ UNCHANGED <<output, call>>

Completed ==
    /\ Protocol!Says("turn.completed", "answered", "over") /\ Says(<< >>, << >>)
    /\ Outside /\ UNCHANGED <<output, call>>

Failed ==
    /\ call = "failed"
    /\ \E type \in {"turn.failed", "turn.cancelled"} : Protocol!Says(type, "open", "over")
    /\ Says(<< >>, << >>)
    /\ Outside /\ UNCHANGED <<output, call>>

\* An error that ends the turn without a word, and the end of the turn.
FallSilent ==
    /\ call \in {"none", "done", "failed"}
    /\ Protocol!FallSilent \/ Protocol!Leave
    /\ UNCHANGED <<rows, output, call>> /\ Outside

-----------------------------------------------------------------------------
(* Beside the turn *)

\* CancelTurn, and the event it adds or fails to add.
Cancel(t) ==
    /\ Len(published) + Said("turn.cancelled") + pending[t] < MaxBeside
    /\ Protocol!AcceptCancel(t)
    /\ UNCHANGED <<rows, output, call>> /\ Outside

SettleCancel(t) ==
    /\ Protocol!SettleCancel(t) /\ Says(<< >>, << >>)
    /\ Outside /\ UNCHANGED <<output, call>>

\* models.toml is loaded again.
Publish(m) ==
    /\ Len(published) + Said("turn.cancelled") < MaxBeside
    /\ Snapshots!Publish(m)
    /\ published' = Append(published, m)
    /\ UNCHANGED <<protocolVars, rows, turn, run, asked>>

Speaks ==
    \/ Started \/ ReadHistory \/ Ask \/ KeyMissing \/ Delta \/ StreamEnds \/ StreamBreaks
    \/ Answer \/ Completed \/ Failed \/ FallSilent

Next ==
    \/ Speaks
    \/ \E t \in Turn : Take(t) \/ Cancel(t) \/ SettleCancel(t)
    \/ \E m \in Model : Publish(m)

Spec == Init /\ [][Next]_vars

-----------------------------------------------------------------------------
(* Properties *)

\* Types; and no prompt is longer than Limit.
TypeOK ==
    /\ log \in Seq(Event) /\ current \in Turn \cup {NoTurn}
    /\ rows \in Seq(Row) /\ Len(rows) = Len(log)
    /\ snapshot \in Snapshots!Snapshot /\ taken \in Snapshots!Snapshot
    /\ prompt \in Seq(Message) /\ Len(prompt) <= Limit
    /\ output \in Seq(Nat)
    /\ call \in {"none", "prepared", "whole", "streaming", "done", "failed"}
    /\ run \in Nat /\ asked \in Seq(SUBSET Model) /\ published \in Seq(Model)

IsAnswer(i) == log[i].type = "assistant.message"

\* The prompt is the system message, the latest answered inputs that fit with the answers
\* they got, oldest first, and the input: whatever ids the turns have, however earlier
\* ones ended, and wherever cancellations were announced.
PromptIsRecent ==
    phase = "open" /\ prompt # << >> =>
        LET answered == {rows[i].run : i \in {k \in DOMAIN log : IsAnswer(k)}}
            kept == {n \in answered :
                        2 * Cardinality({m \in answered : m > n}) < Limit - 2}
        IN  /\ Len(prompt) = 2 * Cardinality(kept) + 2
            /\ prompt[1] = System /\ prompt[Len(prompt)] = User(run)
            /\ \A n \in kept :
                   LET k == 2 * Cardinality({m \in kept : m < n}) + 2
                   IN  prompt[k] = User(n) /\ prompt[k + 1] = Assistant(n)

\* An answer in the log consists of the deltas its run has logged, all of them and in
\* their order: who replays the log and who has followed the stream read the same.
AnswerIsDeltas ==
    \A i \in DOMAIN log : IsAnswer(i) =>
        /\ Range(rows[i].words) =
               {k \in 1..(i-1) : log[k].type = "assistant.delta" /\ rows[k].run = rows[i].run}
        /\ \A j, k \in DOMAIN rows[i].words : j < k => rows[i].words[j] < rows[i].words[k]

\* An answer claims the model that was asked, the only one, under the version that model
\* was published with, although models are reloaded while it streams; and versions do
\* not go back along the log.
ClaimsAreTrue ==
    \A i \in DOMAIN log : IsAnswer(i) =>
        LET by == rows[i].by
        IN  /\ asked[rows[i].run] = {by.model}
            /\ IF by.version = 0 THEN by.model = DefaultModel
               ELSE published[by.version] = by.model
            /\ \A k \in 1..i : IsAnswer(k) => rows[k].by.version <= by.version

=============================================================================
