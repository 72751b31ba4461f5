----------------------------- MODULE Supervisor -----------------------------
(***************************************************************************)
(* One session and the server processes that use its directory: the map of *)
(* runtimes of internal/session/supervisor.go and the lease of             *)
(* internal/session/store.go.                                              *)
(*                                                                         *)
(* A request is a goroutine of a connection: it attaches the session, runs *)
(* a turn or cancels one.  It reads the map, may load a runtime under a    *)
(* lease, takes the lease again for a turn or a cancel, and hands the turn *)
(* or the cancel to the runtime it has got.                                *)
(* Neither getOrLoadRuntime nor AcquireLease holds a lock across its steps.*)
(* All writers of the lease share one temporary file: one of them may      *)
(* empty, fill or rename the file another has open, and os.WriteFile fills *)
(* the file it has opened under whatever name that has by then.            *)
(*                                                                         *)
(* A runtime is known by the order in which it was created.  A restarted   *)
(* server has a new holder id, so it is another process here.              *)
(***************************************************************************)
EXTENDS Integers, FiniteSets

CONSTANTS
    Process,        \* server processes, each with its holder id
    Request,        \* the goroutines that serve requests
    Home,           \* Home[g]: the process of request g
    Creator,        \* the process in which the session was created
    NoFile,         \* lease.json.tmp does not exist
    Empty,          \* a file that has been opened and not yet written
    Garbled,        \* a lease in front of the end of a longer one
    TTL,            \* leaseTTLMs
    Horizon,        \* bound: processes crash up to this time
    MaxAsks,        \* bound: turns and cancels that are asked for
    MaxTime         \* bound: the clock stops here

ASSUME SupervisorAssumption ==
    /\ Home \in [Request -> Process] /\ Creator \in Process
    /\ \A p \in Process, t \in 0..MaxTime : [holder |-> p, at |-> t] \notin {Empty, Garbled, NoFile}
    /\ TTL \in Nat /\ Horizon \in Nat /\ MaxAsks \in Nat /\ MaxTime \in Nat

VARIABLES
    now,            \* the clock the processes of a pod share
    lease,          \* lease.json
    tmp,            \* lease.json.tmp
    file,           \* file[g]: the name by now of the file g has opened to write its lease
    bared,          \* history: lease.json could not be read at some time
    alive,          \* the processes that have not crashed
    runtimes,       \* runtimes[p]: the runtime in the map of process p, 0 if none
    created,        \* how many runtimes there have been
    running,        \* the runtimes in which a turn runs
    pc,             \* pc[g]: where request g stands
    op,             \* op[g]: what it asks for
    mine,           \* mine[g]: the runtime it has got
    stamp,          \* stamp[g]: the time it has given to AcquireLease, 0 once that is written
    asks            \* the turns and cancels asked for so far

files == <<lease, tmp, file, bared>>
request == <<pc, op, mine, stamp, asks>>
vars == <<now, files, alive, runtimes, created, running, request>>

Lease == [holder : Process, at : Nat]

\* What AcquireLease cannot parse when it reads it.
Unreadable == {Empty, Garbled}
Asked == {"attach", "turn", "cancel"}
Place == {"idle", "lookup", "load", "loadOpen", "loadFill", "loadRename", "store",
          "renew", "renewOpen", "renewFill", "renewRename", "enter", "running"}

\* CreateSession has written the lease and put a runtime into the map.
Init ==
    /\ now = 0
    /\ lease = [holder |-> Creator, at |-> 0] /\ tmp = NoFile
    /\ file = [g \in Request |-> "none"] /\ bared = FALSE
    /\ alive = Process
    /\ runtimes = [p \in Process |-> IF p = Creator THEN 1 ELSE 0]
    /\ created = 1
    /\ running = {}
    /\ pc = [g \in Request |-> "idle"]
    /\ op = [g \in Request |-> "attach"]
    /\ mine = [g \in Request |-> 0]
    /\ stamp = [g \in Request |-> 0]
    /\ asks = 0

-----------------------------------------------------------------------------
(* Steps of a request *)

Goto(g, from, to) ==
    /\ pc[g] = from
    /\ Home[g] \in alive
    /\ pc' = [pc EXCEPT ![g] = to]

Begin(g, what) ==
    /\ Goto(g, "idle", "lookup")
    /\ op' = [op EXCEPT ![g] = what]
    /\ what # "attach" => asks < MaxAsks
    /\ asks' = IF what = "attach" THEN asks ELSE asks + 1
    /\ UNCHANGED <<now, files, alive, runtimes, created, running, mine, stamp>>

\* With its runtime an attach is done; a turn or a cancel renews the lease first.
Onward(g) == IF op[g] = "attach" THEN "idle" ELSE "renew"

Existing_Missed(g) == 0
Existing(g) == runtimes[Home[g]]

\* getOrLoadRuntime reads the map under the mutex and lets go of it.
Lookup(g) ==
    /\ Goto(g, "lookup", IF Existing(g) # 0 THEN Onward(g) ELSE "load")
    /\ mine' = [mine EXCEPT ![g] = Existing(g)]
    /\ UNCHANGED <<now, files, alive, runtimes, created, running, op, stamp, asks>>

\* leaseExpired
Expired_Swapped(l) == l.at - now > TTL
Expired_Unscaled(l) == now > l.at
Expired(l) == now - l.at > TTL

\* A lease.json that cannot be read or parsed refuses nobody.
Refused(g) == lease \notin Unreadable /\ lease.holder # Home[g] /\ ~Expired(lease)

\* AcquireLease reads lease.json and decides ...
ReadLease(g) ==
    /\ \/ ~Refused(g) /\ (Goto(g, "load", "loadOpen") \/ Goto(g, "renew", "renewOpen"))
       \/ Refused(g) /\ (Goto(g, "load", "idle") \/ Goto(g, "renew", "idle"))
    /\ stamp' = [stamp EXCEPT ![g] = now]
    /\ UNCHANGED <<now, files, alive, runtimes, created, running, op, mine, asks>>

\* ... and writes its own: os.WriteFile creates or empties the temporary file ...
OpenTmp(g) ==
    /\ Goto(g, "loadOpen", "loadFill") \/ Goto(g, "renewOpen", "renewFill")
    /\ tmp' = Empty /\ file' = [file EXCEPT ![g] = "tmp"]
    /\ UNCHANGED <<now, lease, bared, alive, runtimes, created, running, op, mine, stamp, asks>>

\* ... and writes over what the file it has opened holds now.  A longer text that another
\* writer has put there sticks out behind.
Over(old, new) == IF old = Empty THEN {new} ELSE {new, Garbled}

FillTmp(g) ==
    /\ Goto(g, "loadFill", "loadRename") \/ Goto(g, "renewFill", "renewRename")
    /\ LET new == [holder |-> Home[g], at |-> stamp[g]] IN
        \/ file[g] = "tmp" /\ tmp' \in Over(tmp, new) /\ UNCHANGED lease
        \/ file[g] = "lease" /\ lease' \in Over(lease, new) /\ UNCHANGED tmp
        \/ file[g] = "gone" /\ UNCHANGED <<lease, tmp>>
    /\ file' = [file EXCEPT ![g] = "none"]
    /\ bared' = (bared \/ lease' \in Unreadable)
    /\ stamp' = [stamp EXCEPT ![g] = 0]
    /\ UNCHANGED <<now, alive, runtimes, created, running, op, mine, asks>>

\* What has been renamed keeps its writers; what it replaces has no name any more.
Renamed(name) == CASE name = "tmp" -> "lease" [] name = "lease" -> "gone" [] OTHER -> name

\* The rename fails if another writer has renamed the file already.
Rename_Unchecked(g) ==
    /\ Goto(g, "loadRename", "store") \/ Goto(g, "renewRename", "enter")
    /\ lease' = tmp /\ tmp' = NoFile
    /\ file' = [h \in Request |-> Renamed(file[h])]
    /\ bared' = (bared \/ tmp \in Unreadable)
    /\ UNCHANGED <<now, alive, runtimes, created, running, op, mine, stamp, asks>>

Rename(g) ==
    /\ IF tmp = NoFile
       THEN /\ Goto(g, "loadRename", "idle") \/ Goto(g, "renewRename", "idle")
            /\ UNCHANGED files
       ELSE /\ Goto(g, "loadRename", "store") \/ Goto(g, "renewRename", "enter")
            /\ lease' = tmp /\ tmp' = NoFile
            /\ file' = [h \in Request |-> Renamed(file[h])]
            /\ bared' = (bared \/ tmp \in Unreadable)
    /\ UNCHANGED <<now, alive, runtimes, created, running, op, mine, stamp, asks>>

\* The new runtime replaces whatever is in the map by now.
StoreRuntime(g) ==
    /\ Goto(g, "store", Onward(g))
    /\ created' = created + 1
    /\ runtimes' = [runtimes EXCEPT ![Home[g]] = created + 1]
    /\ mine' = [mine EXCEPT ![g] = created + 1]
    /\ UNCHANGED <<now, files, alive, running, op, stamp, asks>>

\* Runtime.RunTurn runs one turn at a time.
Enter(g) ==
    /\ op[g] = "turn"
    /\ IF mine[g] \in running
       THEN Goto(g, "enter", "idle") /\ UNCHANGED running
       ELSE Goto(g, "enter", "running") /\ running' = running \cup {mine[g]}
    /\ UNCHANGED <<now, files, alive, runtimes, created, op, mine, stamp, asks>>

\* Runtime.CancelTurn cancels the turn of the runtime, or finds none: see TurnRuntime.
Cancel(g) ==
    /\ op[g] = "cancel"
    /\ Goto(g, "enter", "idle")
    /\ UNCHANGED <<now, files, alive, runtimes, created, running, op, mine, stamp, asks>>

\* The turn takes its time; the lease is not renewed meanwhile.
Finish(g) ==
    /\ Goto(g, "running", "idle")
    /\ running' = running \ {mine[g]}
    /\ UNCHANGED <<now, files, alive, runtimes, created, op, mine, stamp, asks>>

-----------------------------------------------------------------------------

Tick ==
    /\ now < MaxTime /\ now' = now + 1
    /\ UNCHANGED <<files, alive, runtimes, created, running, request>>

\* The process is gone with its map; the files stay.
Crash(p) ==
    /\ now <= Horizon
    /\ p \in alive /\ alive' = alive \ {p}
    /\ runtimes' = [runtimes EXCEPT ![p] = 0]
    /\ running' = running \ {mine[g] : g \in {h \in Request : Home[h] = p}}
    /\ pc' = [g \in Request |-> IF Home[g] = p THEN "idle" ELSE pc[g]]
    /\ file' = [g \in Request |-> IF Home[g] = p THEN "none" ELSE file[g]]
    /\ UNCHANGED <<now, lease, tmp, bared, created, op, mine, stamp, asks>>

Serves(g) ==
    \/ Lookup(g) \/ ReadLease(g) \/ OpenTmp(g) \/ FillTmp(g) \/ Rename(g)
    \/ StoreRuntime(g) \/ Enter(g) \/ Cancel(g)

Next ==
    \/ \E g \in Request :
        \/ \E what \in Asked : Begin(g, what)
        \/ Serves(g) \/ Finish(g)
    \/ \E p \in Process : Crash(p)
    \/ Tick

Spec == Init /\ [][Next]_vars

\* The clock advances and goroutines keep running.  Clients that have lost their
\* session attach it again; nothing says how long a turn takes.
Fairness ==
    /\ WF_vars(Tick)
    /\ \A g \in Request : WF_vars(Serves(g)) /\ WF_vars(Begin(g, "attach"))

FairSpec == Spec /\ Fairness

-----------------------------------------------------------------------------
(* Properties *)

\* Types of the lease, of the maps and of the requests' locals.
TypeOK ==
    /\ now \in Nat /\ bared \in BOOLEAN
    /\ lease \in Lease \cup Unreadable /\ tmp \in Lease \cup Unreadable \cup {NoFile}
    /\ file \in [Request -> {"none", "tmp", "lease", "gone"}]
    /\ alive \subseteq Process
    /\ runtimes \in [Process -> 0..created] /\ created \in Nat
    /\ running \subseteq 1..created
    /\ pc \in [Request -> Place] /\ op \in [Request -> Asked]
    /\ mine \in [Request -> 0..created] /\ stamp \in [Request -> Nat]
    /\ asks \in Nat

\* The lease lets one process at a time run turns of the session.
OneProcessRuns ==
    \A g, h \in Request : pc[g] = "running" /\ pc[h] = "running" => Home[g] = Home[h]

\* It does so while no lease can have expired, as long as lease.json could always be
\* read: whoever else asks is refused, however its steps mix with those of the requests
\* that renew the lease.  Two requests of one process that renew it at once can put an
\* empty file in its place, which refuses nobody.
OneProcessRunsInTime == now <= TTL /\ ~bared => OneProcessRuns

\* The process that created the session admits one turn of the session at a time.
OneTurnPerProcess ==
    \A g, h \in Request :
        (/\ pc[g] = "running" /\ pc[h] = "running"
         /\ Home[g] = Creator /\ Home[h] = Creator) => g = h

\* There a cancel looks for the turn in the runtime where the turn runs.
CancelReachesTurn ==
    \A g, h \in Request :
        (/\ pc[g] = "enter" /\ op[g] = "cancel" /\ pc[h] = "running"
         /\ Home[g] = Creator /\ Home[h] = Creator) => mine[g] = mine[h]

\* When the process that created the session dies, a surviving one that is asked
\* again and again gets the session: an abandoned lease does not lock it for good.
Takeover ==
    \A p \in Process :
        Creator \notin alive /\ p \in alive ~> runtimes[p] # 0 \/ p \notin alive

=============================================================================
