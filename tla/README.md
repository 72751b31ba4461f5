# Dior Agent in TLA+

TLA+ specifications of the Go agent server in this repository: how the server starts
and whom it lets in, how it keeps up with its model configuration and finds its
collectors, how a session's event log is written and read, how turns run, are cancelled
and fail, what they tell the model, how server processes share a session directory, and
what a browser page makes of it all. TLC checks the specifications on small instances;
TLAPS proves most of the safety properties for every instance.

## The system

A browser page holds a websocket to an agent server. The server keeps one
directory for each session; a session runs one turn at a time, and a turn streams
an answer from a model into the session's event log and to the page.

| component | state | operations | talks to |
|---|---|---|---|
| session store (`internal/session/store.go`, `types.go`) | `events.jsonl`, `state.json`, `manifest.json`, `lease.json`, `turns/*.json`; one mutex for a process | `CreateSession`, `LoadSession`, `AppendEvent`, `ReadEventsAfter`, `WriteTurn`, `AcquireLease`, `AppendLog` | the file system |
| turn runtime (`internal/session/runtime.go`) | `running` with its `cancelEmitted` flag, under a mutex | `RunTurn`, `CancelTurn`, `completeWithError`, history | store, model client, event sink |
| supervisor (`internal/session/supervisor.go`) | map of runtimes under a mutex, holder id | `CreateSession`, `AttachSession`, `RunTurn`, `CancelTurn`, `getOrLoadRuntime` | store, runtimes |
| websocket server (`internal/transport/ws`) | for a connection: attached sessions, cancel functions of its turns, a write mutex | one reader goroutine handles `ping`, `session.create`, `session.attach`, `turn.start`, `turn.cancel`; one goroutine for a turn | supervisor, page |
| model manager (`internal/model/config.go`) | current snapshot, version, last modification time | `Start`, `reload`, `watchLoop`, `Snapshot` | `models.toml` |
| model client (`internal/model/client.go`) | the output put together so far | `Stream` | an HTTP model server |
| page client (`page/src/useAgentSocket.ts`) | connection, session, messages, pending turn, seen sequence numbers | connect, create, attach, send, cancel, one reducer for server messages | websocket server |
| collector registry (`internal/collector`) | registrations, filled by one pass over `collectors.toml` | `Start`, `reload`, `Count` | collector servers |
| collector server (`internal/collectorapp`, `cmd/collector`) | a configuration that never changes | `/v1/manifest`, `/v1/tools/system.info/invoke` | the operating system |
| configuration (`internal/app/config.go`) | the environment, completed from `.env` | `LoadEnvFile`, `LoadConfig`, `validateConfig` | |
| authentication and origin check (`internal/transport/ws/auth.go`) | none | `authenticate`, `originAllowed` on every upgrade | configuration |
| agent server program (`cmd/agent-server/main.go`) | none | configure, start the model manager, start the registry, listen, end by a signal | all of the above |
| logging (`internal/logging`) | | | |

What makes it hard:

* *Concurrency.* The turn's goroutine and any number of cancel handlers append to
  one log. The runtime's mutex is released between the decision that a turn is
  running and everything that follows from it. Attaching takes no lock.
* *Two files, one fact.* `AppendEvent` writes a line and then the index; the next
  number comes from the index. A crash or a failed write can come between them.
* *Two announcers.* A cancelled turn is announced by `CancelTurn` or by the turn's
  own goroutine; they agree through `cancelEmitted`.
* *Three senders.* A turn's goroutine, a cancel and an attach write to one socket in
  any order; the page sorts nothing and drops by sequence number what it has seen.
* *Check, then act.* `getOrLoadRuntime` and `AcquireLease` decide on what they have
  read and write later.
* *No timeouts.* Nothing but a cancel ends a turn whose model does not answer, and
  nothing but an answer ends the registry's request to a collector, before which the
  server does not listen.
* *A file that changes.* `models.toml` is polled by its modification time and read
  while an editor may be writing it; a turn keeps the snapshot it has taken.
* *Ids the clients choose.* The history a turn is given is put together from the log by
  turn ids, which may come back.

What correctness means for each part: the log is numbered without gap and
`state.json` is its index; an attach replays one piece of the log; one turn at a
time, its events in their order and not mixed with another's; each accepted cancel
announced, by one of its two announcers, and every started turn ended by a terminal event
when nothing fails; one process at a time writes a session, and a session whose process died can be
taken over; the page shows what the log says; an answer is its deltas and names the
model that was asked; a prompt holds the latest answered inputs; the manager ends up
with what `models.toml` says; the registry holds the collectors that answer and nothing
else; only holders of the token are let in.

## The modules

| module | models | composes |
|---|---|---|
| `SessionEvents` | events, `state.json`, the switch of `AppendEvent` that folds one into the other | |
| `EventLog` | abstract: an append is one atomic step that numbers its event | `SessionEvents` |
| `EventStore` | `AppendEvent` step by step, its error returns, crashes, and the attach path | `SessionEvents`; implements `EventLog` |
| `TurnProtocol` | abstract: which turn events may follow which in the log | `SessionEvents` |
| `TurnRuntime` | `RunTurn`, `CancelTurn`, `completeWithError` with the turn goroutines and cancel handlers of the websocket server | `SessionEvents`; implements `TurnProtocol` |
| `Supervisor` | the map of runtimes and the lease of one session, for several processes | |
| `Conversation` | what turns say and are told: history, prompt, request, deltas, answer and its metadata | `TurnProtocol`, `ModelSnapshots` |
| `PageView` | the reducer of the page as operators, and what a log says about an answer | `SessionEvents` |
| `PageSession` | a page, its connections, the reader goroutines and what turns send, for one session | `PageView`, `TurnProtocol` |
| `ModelSnapshots` | abstract: one current snapshot, replaced as a whole under the next version | |
| `ModelManager` | `models.toml`, its editors, `Start`, `reload`, `watchLoop` | implements `ModelSnapshots` |
| `Collectors` | collector programs and the registry's pass over them | |
| `AgentServer` | the environment, `main` of the agent server, upgrades | `ModelManager`, `Collectors` |
| `EventStoreProofs`, `TurnRuntimeProofs`, `TurnEndProofs`, `SupervisorProofs`, `ConversationProofs`, `PageProofs`, `AgentServerProofs` | theorems and proofs | |
| `OrderLemmas` | lemmas about numbers and increasing sequences that `ConversationProofs` and `PageProofs` share | |
| `MCEventStore`, `MCTurnRuntime`, `MCSupervisor`, `MCConversation`, `MCPageSession`, `MCAgentServer` | instances for TLC | |

`EventStore` justifies `TurnRuntime`: by the refinement to `EventLog`, an append is one
step for its callers, and `TurnRuntime` uses it as one, also when it fails half-way: that
leaves what `EventStore` leaves after a failed step. `TurnRuntime` in turn justifies
`PageSession`, which takes what is written to the log from `TurnProtocol` and adds who
sends it when, and `Conversation`, which takes it from there and adds what the events say:
`ImplementsTurnProtocol` is about the order of the events, and that each carries its
position as its number is `NumbersArePositions`, which holds unless an append fails. That
is why no append fails in `PageSession`, and one that fails in `Conversation` leaves
nothing in the log. `ModelManager` justifies the models of `Conversation` through
`ModelSnapshots`.

### From code to state and actions

*EventStore.* `lines` is `events.jsonl`, `index` is `state.json`, `mu[p]` is
`Store.mu` of a process. `AppendEvent` is `Calls` (waiting for the mutex),
`LockAndLoad`, `WriteLine`, `WriteState`, `WriteManifest`; the deferred unlock is in
every way out, so that `Fails` and `WriteManifest` contain it. `torn` stands for a
line without its newline: the next event lands on that line, which then parses as
nothing (`Garbage`). `AttachLoad` and `AttachRead` are the two reads of
`AttachSession`. `row`, `acked` and the results in `view` are history.

*TurnRuntime.* `pc[t]` is the place of the goroutine that runs turn `t`, named for
what it has just done; every step ends at a lock, a file, the model's stream or the
socket. `running` and `cancelEmitted` are the fields of the runtime,
`cancelled[t]` is the turn's context, `record[t]` the status in `turns/<t>.json`,
`handler[c]` the `turn.cancel` the reader of connection `c` works on (a reader
handles one message at a time, and a `turn.start` needs it idle). The error returns
are the actions of the section "Errors". An `AppendEvent` that fails (`StopsShort`) has
written nothing, a part of its line, the line without `state.json`, so that the next event
gets the same number, or both files. `torn` stands for a part of a line: nobody can read
the history after it (`HistoryUnreadable`). A broken connection may still swallow a message
before a write to it fails. `asked`, `accepted` and `heeded` are history: which turns their
own connection has cancelled, how often `CancelTurn` accepted a turn, and whether it did
so before the turn's goroutine looked at `cancelEmitted`.

*Supervisor.* A request is a connection's goroutine in `AttachSession`, `RunTurn` or
`CancelTurn`. It looks into the map (`Lookup`), loads a runtime under a lease or
renews the lease (`ReadLease`, then `OpenTmp`, `FillTmp` and `Rename`: `writeJSONAtomic`
with one temporary name for all writers), stores the runtime and runs the turn.
`os.WriteFile` empties the file before it writes, and a writer goes on writing to the file
it has opened when another one has renamed it (`file`); two texts over one another may be
`Garbled`. A `lease.json` that is empty or garbled refuses nobody. `bared` is history: it
has been so at some time. Runtimes are
numbered in the order of their creation. A restarted server draws a new holder id
and an empty map, so it is another member of `Process`.

*Conversation.* `log`, `current`, `phase` and `pending` are the state of `TurnProtocol`,
and every step is one of its steps, one of `ModelSnapshots`, or one inside the turn.
`rows[i]` is what event `i` says: the number of its run, the deltas it holds, and the
snapshot its metadata claim. Texts are known by where they come from: an input by the
number of its run, a delta by its place in the log. `taken` is the `snapshot` local of
`RunTurn`, `prompt` the messages it hands to the client, `call` the place of
`Client.Stream` and `output` its `strings.Builder`. `History` folds
`readConversationHistory` over the log with its map from turn ids to inputs;
`PrepareMessages` is `prepareMessages` with its limit of 40 as `Limit`. A turn id may be used
again once its turn is over. `asked` and `published` are history.

*PageSession.* `log`, `current`, `phase` and `pending` are the state of `TurnProtocol`;
`unsent` is the event the turn's goroutine has logged and not sent. For connection `c`,
`inbox[c]` and `wire[c]` are the two directions of the socket, `out[c]` and
`cancelling[c]` are what its reader has yet to do for the message it handles, and
`socket[c]` is the socket as the page sees it. `page` has the fields of
`AgentClientState` but logs, errors and identities; `Reduce` in `PageView` is
`reduceServerMessage`. A text is the sequence of the events it came from; `Pieces` says what
these events show: a delta itself, an `assistant.message` all deltas of its turn again.
`CreateSession` and `AttachSession` clear the page even when the message cannot leave.
`SendStray` is an event of another session that still comes
through a socket after the page has moved on; the reducer tells events apart by sequence
number alone. Only connections fail here: a turn that stops silently after an
error of the store is in `TurnRuntime`.

*ModelManager.* `current` and `version` are the manager's fields, `at` is where `Start` or
`watchLoop` stands, `raw` what `reload` has read and not published yet, `lastMod` the
local of `watchLoop`. `file` is `models.toml` with its modification time; an editor
empties it (`Truncate`) and fills it (`Fill`), or a file is renamed over it, with a time
that may lie in the past (`Replace`). A text is what it says of the provider and of the two
settings; `Resolve` is `normalizeRaw` and `resolve`.

*Collectors.* `peer[c]` is what is at the address of collector `c`; `StartCollector` is its
`main`. `next` is the position of the loop in `Registry.reload`, `found` its local list,
which becomes `registrations` at the end. An endpoint that never answers leaves the pass
where it is.

*AgentServer.* `phase` is where `main` stands. A situation (`Setup`) is an environment, a `.env`,
a `models.toml`, a `collectors.toml` and the collectors' configurations; `Init` draws one.
`Upgrades` decides on a request with the configuration of the moment, which does not change
any more once the server listens.

## What TLC checks

| run | instance | shows |
|---|---|---|
| `store_atomic` | 2 appending goroutines, 1 attaching, starts and ends of 2 turns, 3 events, 1 failure that leaves the files in step | types, `SeqIsPosition`, `IndexReflectsLog`, `AttachGapless`, refinement to `EventLog` |
| `store_crash` | 2 goroutines, 4 events, 2 faults: failures of the load, the line, `state.json` or `manifest.json`, crashes | `AckedSeqsDistinct`, `IndexedEventsPresent`; every `AppendEvent` returns (`AppendReturns`) |
| `store_index_lost` | the same with one crash | **violated** `SeqIsPosition`: a number is used twice |
| `turn_faults` | 2 turns on 2 connections; 2 cancels, 2 faults of five kinds, or one of each | `OneTurnRuns`, `TurnsDoNotInterleave`, `ActiveWhileRunning`, `QuietAtRest`, `RecordAgreesWithLog`, `HeededCancelAnnouncedOnce`, refinement to `TurnProtocol` |
| `turn_live` | 2 turns, 1 cancel, any single fault, fairness | `CancelEndsTurn`, `RecordedCancelAnnounced` |
| `turn_early_cancel` | 1 cancel, no fault | **violated** `NoActiveTurnAtRest` |
| `lease` | 2 requests at the creating process, 1 at another, 3 turns and cancels asked for, a clock of 0..2 with a TTL of 1, crashes before it ticks, fairness | `OneProcessRunsInTime`, `OneTurnPerProcess`, `CancelReachesTurn`, `Takeover` |
| `lease_two_writers` | a turn at each of 2 processes, a clock of 0..3 with a TTL of 1 | **violated** `OneProcessRuns` |
| `conversation` | 3 turns under 2 ids, 2 deltas, a cancellation or a reload, 3 models of which one lacks its key, prompts of 4 messages | `PromptIsRecent`, `AnswerIsDeltas`, `ClaimsAreTrue` |
| `page_ordered` | 1 or 2 turns, up to 2 connections, 2 attaches, 1 cancel, 1 delta, strays of another session, a memory of 5 numbers | `NoPieceTwice`, `NothingMissed`, `InOrderShowsTheLog`, `PendingSettles` |
| `page_cancelled` | 1 turn with a delta and its cancellation | **violated** `StreamingEnds` |
| `server_start` | 6 environments; 4 contents of `models.toml` changed up to 3 times; 2 collectors in 100 settings; fairness | `OnlyHoldersUpgraded`, `ServesConfiguredModel`, `RegistryComplete`, `RegisteredToolsRun`, `CatchesUp`, `StartupEnds`, refinement to `ModelSnapshots` |

*Bounds.* Two appenders show every race for the mutex, since a step of `AppendEvent`
depends on the index and not on who wrote it; three events let both orders of two
turns' starts and a late end of the first occur. Two turns on two connections show a
turn that waits, one that runs and one that is removed, cancels of one's own and of
another's turn, and a cancellation that comes late; two cancels show both
connections cancelling the same turn. One delta is enough there, since a delta changes
nothing but the log. A clock of 0..2 with a TTL of 1 has a lease that is
fresh, one that expires under a turn, and one that is renewed; in `lease` processes die
before the clock ticks, and until it passes the TTL requests mix in every order over the
temporary file. `MaxFaults`,
`MaxEvents`, `MaxDeltas`, `MaxTroubles` (combinations of faults and cancels), `MaxAsks`
(turns and cancels asked for), `Horizon` and `MaxTime` bound only how often or how long.

In `conversation` a `Limit` of 4 holds one answered input, so that the third turn drops the
first; the code's 40 is even and at least 2 like it, which is all the proofs assume. Three
turns under two ids have one id come back. `MaxBeside` allows one model or one
cancellation: two deltas, three turns and a reload show an answer under an old and under
a new model; a cancellation and a reload do not touch the same variables.

In `page_ordered` a behaviour draws one of six budgets, each of which lets a few things
meet: a doubled turn and a cancel, two attaches during a turn, a reconnection during a
turn, two turns and a reconnection, a cancel and an attach, an attach and an event of
another session. The page's memory of 500 sequence numbers is 5 there, so that logs of up
to five events fit and longer ones do not.

In `server_start` the situations vary one part at a time: the environment, the edits, or the
collectors, because no step reads two of them together but the token that registry and
collector share, which the settings vary. Three changes of the file show one during
the first load, one during a reload and one after it; the clock of 1..4 has a tick for
each and stops when no change is to come, when it is of no interest.

*Symmetry* is used in runs without liveness only; turns are swapped together with
their connections.

*Deadlock* is not checked where all turns may be over, all events written, all
processes dead or the program ended.

*Fairness.* Goroutines that can run do run (`WF` of their steps). `sync.Mutex` hands
the lock to a waiter that has waited for long, hence `SF` of `LockAndLoad`. A stream
that is cancelled breaks off, because the request carries the context; a stream that
is not may go on or hang for ever, so it has no fairness. A write to a socket is
assumed to return: the code sets no deadline (`server.go:239`), and a client that
stops reading would block its turn. In `lease` the clock advances, and
clients ask again; how long a turn takes is left open. In `server_start` `main` and the
manager's goroutine run and the ticker fires; nothing is assumed of the collectors, of
whoever edits `models.toml`, nor of signals, and an endpoint that never answers is the
exception `StartupEnds` makes.

## What the counterexamples show

* `store_index_lost`. The README calls `state.json` a rebuildable index, but the next
  sequence number is taken from it and nothing rebuilds it. After a crash between the
  line and the index two lines have the same number; a page that has seen the first
  drops the second.
* `turn_early_cancel`. `CancelTurn` accepts a turn as soon as it is registered. If it
  appends before the turn's goroutine appends `turn.started`, the log says cancelled,
  then started, nothing ends the turn any more, and `activeTurnId` keeps it.
  `QuietAtRest` shows that this is the only way to such a state without faults.
* `page_cancelled`. The cancel handler sends `turn.cancelled` itself. A delta that was
  logged before it may be sent after it, and the page makes every delta "streaming": the
  cancelled turn is shown as streaming for good. An attach during a turn has the same
  effect when live events overtake its replay, which is why `InOrderShowsTheLog` asks for
  events in their order.
* `lease_two_writers`. The lease is written when a turn starts and never renewed while
  it runs; nothing looks at it before an append. A turn of more than 30 s loses it to
  any other process that asks, and both run turns.

Some behaviours are part of the models and known to be wrong, and have no run of their own:

* A cancel that comes while its turn ends is answered `turn_not_found` although it ended
  the turn (`TurnNotFound`).
* One `turn.cancel` can be announced twice: the handler cancels the context
  (`server.go:225`), the turn's goroutine finds `cancelEmitted` unset and announces
  (`runtime.go:213`), and then the same handler calls `CancelTurn`, which finds the turn
  still registered (`runtime.go:168`) and announces it again. `HeededCancelAnnouncedOnce`
  allows for the goroutine's own announcement in this case and in no other.
* A cancel is also accepted after the model has finished or broken off on its own: the
  record then says completed or failed, and the log holds that end and a
  `turn.cancelled`, possibly as its last word. `RecordAgreesWithLog` says that record and
  log agree about completions and failures, and counts the cancellations that come on top.
* Two first requests of a session after a restart both miss the map and store a runtime
  each, and each runtime admits a turn: `OneTurnPerProcess` holds for the creating process
  only, and fails in an instance with two requests at the process that takes over.
* Two requests of one process that renew the lease at once write one temporary file: one
  empties it, the other renames it, and an unreadable `lease.json` refuses nobody, so that
  another process gets the session before the TTL has passed. Hence the exception in
  `OneProcessRunsInTime`.
* A turn that is rejected after `turn.accepted` stays pending on the page, hence the
  exception in `PendingSettles`.
* When a live `assistant.message` overtakes the replay of an attach, a delta that comes
  after it is appended to the message that contains it already
  (`useAgentSocket.ts:469-476`): the piece is shown twice, hence the exception in
  `NoPieceTwice`.
* After two attaches in a row to a session with more events than the page remembers, the
  second replay is taken for new, hence the limit in `NoPieceTwice`.

## What is proved

Every invariant, action property and refinement that a passing run checks is stated by a
theorem; what is left to TLC alone is liveness. All theorems hold for every number of turns,
goroutines, connections, processes and collectors, and for every bound. The named assumptions
on constants (`NoTurnAssumption`, `StoreAssumption`, `RuntimeAssumption`,
`SupervisorAssumption`, `ConversationAssumption`, `PageSessionAssumption`,
`SeenLimitAssumption`, `ManagerAssumption`, `SetupAssumption`) say what kind of thing each
constant is; beyond that there are finitely many connections, `Limit` is even and at least 2,
and the page remembers at least one number.

*EventStoreProofs.* `TypeCorrect` holds whatever fails. The other theorems assume
`Reliable`: all appenders are in one process, and the faults do not include a torn
line, a failed write of `state.json` or a crash, which `store_index_lost` shows to be
necessary. `SeqIsPosition` is not inductive: that the next number is right depends on
the copy of `state.json` a goroutine has read, on the mutex that kept others out
since, and on the one event that may not be indexed yet. The invariant `Core` adds
the mutex (`LockInv`), the copy (`StoredInv`) and the last line (`WrittenInv`).
`AttachGaplessHolds` rests on the log growing only at its end, and
`Refinement` maps the write of the line to the atomic append of `EventLog`, everything
else to a step of the call or to nothing.

There also: what is left under every fault, with one process at a time
(`Alone`). `AckedSeqsDistinct` needs that no acknowledged number is above the one in
`state.json`, and strictly below it while an event is indexed and not acknowledged yet
(`AckedInv`): `state.json` is written before the call returns, so that a number that is lost is
one nobody was told. `IndexedEventsPresent` compares the numbers that are missing with the
lines a torn write has spoilt (`Counted`), with one more owed while the goroutine stands
between a spoilt line and `state.json`.

*TurnRuntimeProofs.* All of it holds whatever fails. `StepKinds` sorts the actions: a
step is silent, registers or removes a turn, moves its goroutine on, lets it log an
event of its turn, or announces a cancellation. `OneTurnRuns` is then inductive.
`ActiveWhileRunning` needs it: only the running turn's goroutine starts or ends turns,
and a late cancellation names another turn. `TurnsDoNotInterleave` needs two more
facts: a turn that waits has said nothing (`FreshInv`), and after the last event of
the running turn nobody else has spoken (`LastWordInv`).

`TurnRefinement` is the refinement to `TurnProtocol`: the holder of the protocol is
`running`, its phase is read off the goroutine's place, and its pending announcements are
the handlers that have yet to append. The refinement is about the order: it takes the log
with its events renumbered by position, because an append that fails behind its line makes
the next event repeat a number. `NumbersArePositionsHolds` shows that the numbers are the
positions in every behaviour in which no append can fail, so that there the log of the
refinement is the log.

*TurnEndProofs.* `HeededCancelAnnouncedOnce` is the sum `Balance`: what the log has
announced and the handlers have yet to announce does not exceed the accepted cancels and
the goroutine's own word (`OwnWord`), and is equal to them while nothing has failed. That
the goroutine gives its own word only if its own connection has cancelled it and no cancel
had been accepted when it looked is `Known`: an accepted cancel leaves `cancelEmitted`
behind until the turn is removed, and the goroutine reads it after it has decided on the
status. `RecordAgreesWithLog` is about behaviours without faults: the goroutine's place
tells which end is in the record and in the log (`Told`), and the number of announcements
is that of `Balance`. `QuietAtRest` rests on three facts: while `cancelEmitted` is set for
the running turn, its announcement is in the log or a handler is about to make it
(`Promised`), which is what the goroutine relies on when it leaves it to `CancelTurn`; a
turn that was started and is over has an end in the log, and completes or fails only after
its start (`Concluded`); and the turn `activeTurnId` names has no end in the log after its
`turn.started` (`ActiveOpen`, which holds only while nothing has failed, since an end can
be in the log without `state.json`). So an end that leaves `activeTurnId` standing is a
cancellation announced before the start.

*SupervisorProofs.* `OneProcessRunsInTime` needs `LeaseKept`: until the TTL has passed,
and as long as `lease.json` could always be read, it names the creator, the temporary file
names it or is empty or garbled, and only its requests have been granted the lease.
`OneTurnPerProcess` and `CancelReachesTurn` need `RuntimeKept`: the creator's map never
loses its first runtime before a crash, so that all its requests share it.

*ConversationProofs.* `PromptFits` is about `PrepareMessages` alone, for any history.
`AnswerIsDeltas` needs what `output` is during the turn (`Streamed`: the places of the
run's deltas so far, in order) and that only the run under way logs deltas.
`ClaimsAreTrue` needs `Claims`: the snapshot that was taken was published under its
version, versions in the log are not later than it, and the prompt was sent to its model,
if at all (`Asking`). `PromptIsRecent` is about a fold over the whole log, `History`:
whatever the log has come to, it tells of the answered runs and their answers, oldest
first (`Recalled`), and `KeptMessages` says which of them `PrepareMessages` keeps. What
the fold computes is carried along the log as an invariant of the steps that extend it;
that the fold over a longer log is one more step of the fold needs an induction over
numbers, which `NatClosed` of `OrderLemmas` states for a set that holds 0 and is closed
under adding one.

*PageProofs.* What travels to the page is an event of the log or one of another session
(`Genuine`), the log is numbered by position, and a turn is asked for once and belongs to
the connection that asked (`Homes`). `NoPieceTwice` follows from what the page remembers
(`Remembered`): as long as everything fits, it forgets nothing and an answer holds only
numbers it has seen; and from the order in which they came (`Ordered`): all events in a
text but the first are deltas, and the page has got them after the first. `NothingMissed`
needs that every event is taken in or on its way on the page's connection once an attach
or a create has been answered there (`Covered`); what an attach has read of the log is in
its reply, and what is logged later on comes from a turn of this connection, which sends
it there. `PendingSettles` needs more of the order (`Awaited`): on a wire an acceptance
precedes all that its turn says, the end of a turn the page waits for is not among the
numbers it has seen, and it is still to come, from the turn, the cancel handler or the
wire. `InOrderShowsTheLog` is proved of every state and not only at rest (`Faithful`): a
page that has got the first events of the log in their order shows what these say, which
makes it inductive. `TurnsFollowProtocol` shows that the log of this module begins with
`session.created` and from then on grows only as `TurnProtocol` allows.

*AgentServerProofs.* Over `Ordered`, which relates the place of `main` to that of the
manager and of the registry. `ImplementsModelSnapshots` needs that `version` is one ahead
of the current snapshot (`NextFollows`). `ServesConfiguredModel` needs `Loads`: as long as
nobody has touched the file, what was read is what it holds. `OnlyHoldersUpgraded` is
about every environment and `.env`, and every request. `RegistryComplete` and
`RegisteredToolsRun` need `Pass`, the invariant of the loop: every registration found is
of an enabled endpoint before the current one that answered to its token, unless another
program has answered in its place, and every such endpoint whose collector has served
since the pass began is among them.

*Only model-checked.* Liveness (`AppendReturns`, `CancelEndsTurn`,
`RecordedCancelAnnounced`, `Takeover`, `CatchesUp`, `StartupEnds`): under fairness it needs
`ENABLED`, which the provers do not handle.

## Plan

The plan began with the store, the runtime, the lease and the page, and went on to the
conversation, the model manager, the start of the server and the collectors. What is left:

1. Two live turns with one id on one connection, and the page's switch between two
   sessions that both run turns, in `PageSession`.
2. `CreateSession` step by step, with a crash between `manifest.json` and `state.json`.

## Not modelled

Logging keeps no state and nothing reads it. Of the configuration, the syntax of `.env`, numeric
settings and the log level are left out: conversions of strings that no other part
depends on. `/health`, `/ready`, `ping` and the payload of `system.info` only write output.
Texts, times, metadata and the formats of HTTP, SSE and JSON are abstracted to what the
properties tell apart. The limit of 1 MB on a line of `events.jsonl`, blocked socket writes
and a crash inside `CreateSession` are named as hazards in `PROJECT.json`.
