-------------------------- MODULE SupervisorProofs --------------------------
(***************************************************************************)
(* Proofs about Supervisor, for any processes, requests, bounds and time   *)
(* to live: until a lease can expire, only the process that created the    *)
(* session runs its turns, unless its own requests have put an empty lease *)
(* in place; as long as that process lives, it has one runtime, runs one   *)
(* turn at a time in it, and its cancels find that turn.                   *)
(***************************************************************************)
EXTENDS Supervisor, TLAPS

\* The places behind getOrLoadRuntime, where a request has got a runtime.
Onwards == {"renew", "renewOpen", "renewFill", "renewRename", "enter", "running"}

Typed == TypeOK /\ \A g \in Request : pc[g] \in Onwards => mine[g] # 0

LEMMA TypedHolds == Spec => []Typed
<1> USE SupervisorAssumption
<1>1. Init => Typed
  <2>1. Init => lease \in Lease
    BY DEF Init, Lease
  <2>2. Init => bared \in BOOLEAN
    BY Zenon DEF Init
  <2>3. QED
    BY <2>1, <2>2 DEF Init, Typed, TypeOK, Onwards, Place, Asked
<1>2. Typed /\ [Next]_vars => Typed'
  <2> SUFFICES ASSUME Typed, [Next]_vars PROVE Typed'
    OBVIOUS
  <2>1. ASSUME NEW g \in Request, NEW what \in Asked, Begin(g, what) PROVE Typed'
    BY <2>1 DEF Typed, TypeOK, Onwards, Begin, Goto, Place, files
  <2>2. ASSUME NEW g \in Request, Lookup(g) PROVE Typed'
    BY <2>2 DEF Typed, TypeOK, Onwards, Lookup, Existing, Onward, Goto, Place, files
  <2>3. ASSUME NEW g \in Request, ReadLease(g) PROVE Typed'
    BY <2>3 DEF Typed, TypeOK, Onwards, ReadLease, Goto, Place, files
  <2>4. ASSUME NEW g \in Request, OpenTmp(g) PROVE Typed'
    BY <2>4 DEF Typed, TypeOK, Onwards, OpenTmp, Goto, Place, Unreadable
  <2>4a. ASSUME NEW g \in Request, FillTmp(g) PROVE Typed'
    <3>1. pc' \in [Request -> Place] /\ \A h \in Request : pc'[h] \in Onwards => mine[h] # 0
      BY <2>4a DEF Typed, TypeOK, Onwards, FillTmp, Goto, Place
    <3>2. [holder |-> Home[g], at |-> stamp[g]] \in Lease
      BY DEF Typed, TypeOK, Lease
    <3>3. lease' \in Lease \cup Unreadable /\ tmp' \in Lease \cup Unreadable \cup {NoFile}
      BY <2>4a, <3>2 DEF Typed, TypeOK, FillTmp, Over, Unreadable
    <3>4. /\ file' \in [Request -> {"none", "tmp", "lease", "gone"}]
          /\ stamp' \in [Request -> Nat] /\ bared' \in BOOLEAN
      BY <2>4a DEF Typed, TypeOK, FillTmp
    <3>5. QED
      BY <2>4a, <3>1, <3>3, <3>4 DEF Typed, TypeOK, FillTmp
  <2>5. ASSUME NEW g \in Request, Rename(g) PROVE Typed'
    <3>1. pc' \in [Request -> Place] /\ \A h \in Request : pc'[h] \in Onwards => mine[h] # 0
      BY <2>5 DEF Typed, TypeOK, Onwards, Rename, Goto, Place
    <3>2. /\ lease' \in Lease \cup Unreadable /\ tmp' \in Lease \cup Unreadable \cup {NoFile}
          /\ bared' \in BOOLEAN
      BY <2>5 DEF Typed, TypeOK, Rename, files
    <3>3. file' \in [Request -> {"none", "tmp", "lease", "gone"}]
      BY <2>5 DEF Typed, TypeOK, Rename, Renamed, files
    <3>4. QED
      BY <2>5, <3>1, <3>2, <3>3 DEF Typed, TypeOK, Rename
  <2>6. ASSUME NEW g \in Request, StoreRuntime(g) PROVE Typed'
    BY <2>6 DEF Typed, TypeOK, Onwards, StoreRuntime, Onward, Goto, Place, files
  <2>7. ASSUME NEW g \in Request, Enter(g) PROVE Typed'
    <3>1. pc' \in [Request -> Place] /\ \A h \in Request : pc'[h] \in Onwards => mine[h] # 0
      BY <2>7 DEF Typed, TypeOK, Onwards, Enter, Goto, Place
    <3>2. mine[g] \in 1..created
      BY <2>7 DEF Typed, TypeOK, Onwards, Enter, Goto
    <3>3. running' \subseteq 1..created
      BY <2>7, <3>2 DEF Typed, TypeOK, Enter
    <3>4. QED
      BY <2>7, <3>1, <3>3 DEF Typed, TypeOK, Enter, files
  <2>8. ASSUME NEW g \in Request, Cancel(g) \/ Finish(g) PROVE Typed'
    BY <2>8 DEF Typed, TypeOK, Onwards, Cancel, Finish, Goto, Place, files
  <2>9. ASSUME NEW p \in Process, Crash(p) PROVE Typed'
    <3>1. pc' \in [Request -> Place] /\ \A g \in Request : pc'[g] \in Onwards => mine[g] # 0
      BY <2>9 DEF Typed, TypeOK, Onwards, Crash, Place
    <3>2. alive' \subseteq Process /\ running' \subseteq 1..created
      BY <2>9 DEF Typed, TypeOK, Crash
    <3>3. runtimes' \in [Process -> 0..created]
      BY <2>9 DEF Typed, TypeOK, Crash
    <3>4. QED
      BY <2>9, <3>1, <3>2, <3>3 DEF Typed, TypeOK, Crash
  <2>10. CASE Tick
    BY <2>10 DEF Typed, TypeOK, Onwards, Tick, request, files
  <2>11. CASE UNCHANGED vars
    BY <2>11 DEF Typed, TypeOK, Onwards, vars, request, files
  <2>12. QED
    BY <2>1, <2>2, <2>3, <2>4, <2>4a, <2>5, <2>6, <2>7, <2>8, <2>9, <2>10, <2>11
       DEF Next, Serves
<1>3. QED
  BY <1>1, <1>2, PTL DEF Spec

\* The files, the maps and the requests' locals keep their types.
THEOREM TypeCorrect == Spec => []TypeOK
<1>1. Typed => TypeOK
  BY DEF Typed
<1>2. QED
  BY <1>1, TypedHolds, PTL

-----------------------------------------------------------------------------
(* The lease *)

\* The places a request has passed AcquireLease to get to.
Granted == {"loadOpen", "loadFill", "loadRename", "store",
            "renewOpen", "renewFill", "renewRename", "enter", "running"}

\* While no lease can have expired and lease.json could always be read, the leases in both
\* files name the creator and only its requests have been granted the lease.  The
\* temporary file may be empty or garbled meanwhile.
LeaseKept ==
    now <= TTL /\ ~bared =>
        /\ lease \notin Unreadable /\ lease.holder = Creator
        /\ tmp \in Unreadable \cup {NoFile} \/ tmp.holder = Creator
        /\ \A g \in Request : pc[g] \in Granted => Home[g] = Creator

\* Until a lease can expire, and unless lease.json could not be read at some time, only
\* the process that created the session runs turns: whichever of its requests empties,
\* fills or renames the temporary file they share, no lease of another process gets into
\* either file.
THEOREM OneProcessRunsInTimeHolds == Spec => []OneProcessRunsInTime
<1> USE SupervisorAssumption
<1>1. Init => LeaseKept
  <2>1. [holder |-> Creator, at |-> 0] \notin Unreadable
    BY DEF Unreadable
  <2>2. QED
    BY <2>1 DEF Init, LeaseKept, Granted
<1>2. TypeOK /\ LeaseKept /\ [Next]_vars => LeaseKept'
  <2> SUFFICES ASSUME TypeOK, LeaseKept, [Next]_vars, now' <= TTL, ~bared' PROVE LeaseKept'
    BY DEF LeaseKept
  <2>0. now <= TTL /\ ~bared
    <3>1. now' \in {now, now + 1}
      BY DEF Next, Begin, Serves, Lookup, ReadLease, OpenTmp, FillTmp, Rename, StoreRuntime,
             Enter, Cancel, Finish, Crash, Tick, vars
    <3>2. bared => bared'
      BY DEF Next, Begin, Serves, Lookup, ReadLease, OpenTmp, FillTmp, Rename, StoreRuntime,
             Enter, Cancel, Finish, Crash, Tick, vars, files
    <3>3. QED
      BY <3>1, <3>2 DEF TypeOK
  <2>1. ASSUME NEW g \in Request, NEW what \in Asked, Begin(g, what) PROVE LeaseKept'
    BY <2>0, <2>1 DEF TypeOK, LeaseKept, Granted, Begin, Goto, files
  <2>2. ASSUME NEW g \in Request, Lookup(g) PROVE LeaseKept'
    BY <2>0, <2>2 DEF TypeOK, LeaseKept, Granted, Lookup, Onward, Goto, files
  <2>3. ASSUME NEW g \in Request, ReadLease(g) PROVE LeaseKept'
    <3>1. ~Refused(g) => Home[g] = Creator
      BY <2>0 DEF TypeOK, LeaseKept, Refused, Expired, Lease
    <3>2. QED
      BY <2>0, <2>3, <3>1 DEF TypeOK, LeaseKept, Granted, ReadLease, Goto, files
  <2>4. ASSUME NEW g \in Request, OpenTmp(g) PROVE LeaseKept'
    BY <2>0, <2>4 DEF TypeOK, LeaseKept, Granted, OpenTmp, Goto, Unreadable
  <2>4a. ASSUME NEW g \in Request, FillTmp(g) PROVE LeaseKept'
    <3>1. /\ lease \notin Unreadable /\ lease.holder = Creator /\ lease' \notin Unreadable
          /\ tmp \in Unreadable \cup {NoFile} \/ tmp.holder = Creator
          /\ Home[g] = Creator
      BY <2>0, <2>4a DEF TypeOK, LeaseKept, Granted, FillTmp, Goto
    <3>2. lease'.holder = Creator
      BY <2>4a, <3>1 DEF FillTmp, Over, Unreadable
    <3>3. tmp' \in Unreadable \cup {NoFile} \/ tmp'.holder = Creator
      BY <2>4a, <3>1 DEF FillTmp, Over, Unreadable
    <3>4. \A h \in Request : pc'[h] \in Granted => Home[h] = Creator
      BY <2>0, <2>4a DEF TypeOK, LeaseKept, Granted, FillTmp, Goto
    <3>5. QED
      BY <3>1, <3>2, <3>3, <3>4 DEF LeaseKept
  <2>5. ASSUME NEW g \in Request, Rename(g) PROVE LeaseKept'
    <3>1. lease' \notin Unreadable /\ lease'.holder = Creator
      BY <2>0, <2>5 DEF TypeOK, LeaseKept, Rename, files
    <3>2. tmp' \in Unreadable \cup {NoFile}
      BY <2>5 DEF Rename, files
    <3>3. \A h \in Request : pc'[h] \in Granted => Home[h] = Creator
      BY <2>0, <2>5 DEF TypeOK, LeaseKept, Granted, Rename, Goto
    <3>4. QED
      BY <3>1, <3>2, <3>3 DEF LeaseKept
  <2>6. ASSUME NEW g \in Request, StoreRuntime(g) PROVE LeaseKept'
    BY <2>0, <2>6 DEF TypeOK, LeaseKept, Granted, StoreRuntime, Onward, Goto, files
  <2>7. ASSUME NEW g \in Request, Enter(g) PROVE LeaseKept'
    BY <2>0, <2>7 DEF TypeOK, LeaseKept, Granted, Enter, Goto, files
  <2>8. ASSUME NEW g \in Request, Cancel(g) \/ Finish(g) PROVE LeaseKept'
    BY <2>0, <2>8 DEF TypeOK, LeaseKept, Granted, Cancel, Finish, Goto, files
  <2>9. ASSUME NEW p \in Process, Crash(p) PROVE LeaseKept'
    BY <2>0, <2>9 DEF TypeOK, LeaseKept, Granted, Crash
  <2>10. CASE Tick
    BY <2>0, <2>10 DEF LeaseKept, Tick, request, files
  <2>11. CASE UNCHANGED vars
    BY <2>0, <2>11 DEF LeaseKept, vars, request, files
  <2>12. QED
    BY <2>1, <2>2, <2>3, <2>4, <2>4a, <2>5, <2>6, <2>7, <2>8, <2>9, <2>10, <2>11
       DEF Next, Serves
<1>3. LeaseKept => OneProcessRunsInTime
  BY DEF LeaseKept, OneProcessRunsInTime, OneProcessRuns, Granted
<1>4. QED
  BY <1>1, <1>2, <1>3, TypeCorrect, PTL DEF Spec

-----------------------------------------------------------------------------
(* The runtime of the process that created the session *)

\* As long as it lives, the creator has runtime 1, which no other process has got, and
\* its requests neither load another one nor get to their turn without it.  Of those
\* only one runs.
RuntimeKept ==
    /\ Creator \in alive => runtimes[Creator] = 1
    /\ \A p \in Process \ {Creator} : runtimes[p] # 1
    /\ created >= 1
    /\ \A g \in Request :
        IF Home[g] = Creator
        THEN /\ pc[g] # "idle" => Creator \in alive
             /\ pc[g] \in {"idle", "lookup"} \cup Onwards
             /\ pc[g] \in Onwards => mine[g] = 1
             /\ pc[g] = "running" => 1 \in running
        ELSE mine[g] # 1
    /\ OneTurnPerProcess

LEMMA RuntimeKeptHolds == Spec => []RuntimeKept
<1> USE SupervisorAssumption
<1>1. Init => RuntimeKept
  BY DEF Init, RuntimeKept, Onwards, OneTurnPerProcess
<1>2. TypeOK /\ RuntimeKept /\ [Next]_vars => RuntimeKept'
  <2> SUFFICES ASSUME TypeOK, RuntimeKept, [Next]_vars PROVE RuntimeKept'
    OBVIOUS
  <2> USE DEF RuntimeKept, Onwards, OneTurnPerProcess
  <2>1. ASSUME NEW g \in Request, NEW what \in Asked, Begin(g, what) PROVE RuntimeKept'
    BY <2>1 DEF TypeOK, Begin, Goto
  <2>2. ASSUME NEW g \in Request, Lookup(g) PROVE RuntimeKept'
    BY <2>2 DEF TypeOK, Lookup, Existing, Onward, Goto
  <2>3. ASSUME NEW g \in Request, ReadLease(g) PROVE RuntimeKept'
    BY <2>3 DEF TypeOK, ReadLease, Goto
  <2>4. ASSUME NEW g \in Request, OpenTmp(g) PROVE RuntimeKept'
    BY <2>4 DEF TypeOK, OpenTmp, Goto
  <2>4a. ASSUME NEW g \in Request, FillTmp(g) PROVE RuntimeKept'
    BY <2>4a DEF TypeOK, FillTmp, Goto
  <2>5. ASSUME NEW g \in Request, Rename(g) PROVE RuntimeKept'
    BY <2>5 DEF TypeOK, Rename, Goto
  <2>6. ASSUME NEW g \in Request, StoreRuntime(g) PROVE RuntimeKept'
    BY <2>6 DEF TypeOK, StoreRuntime, Onward, Goto
  <2>7. ASSUME NEW g \in Request, Enter(g) PROVE RuntimeKept'
    BY <2>7 DEF TypeOK, Enter, Goto
  <2>8. ASSUME NEW g \in Request, Cancel(g) PROVE RuntimeKept'
    BY <2>8 DEF TypeOK, Cancel, Goto
  <2>9. ASSUME NEW g \in Request, Finish(g) PROVE RuntimeKept'
    BY <2>9 DEF TypeOK, Finish, Goto
  <2>10. ASSUME NEW p \in Process, Crash(p) PROVE RuntimeKept'
    BY <2>10 DEF TypeOK, Crash
  <2>11. CASE Tick
    BY <2>11 DEF Tick, request
  <2>12. CASE UNCHANGED vars
    BY <2>12 DEF vars, request
  <2>13. QED
    BY <2>1, <2>2, <2>3, <2>4, <2>4a, <2>5, <2>6, <2>7, <2>8, <2>9, <2>10, <2>11, <2>12
       DEF Next, Serves
<1>3. QED
  BY <1>1, <1>2, TypeCorrect, PTL DEF Spec

\* The process that created the session never replaces its runtime, so that two of its
\* requests never run turns of the session at once, whatever other processes do.
THEOREM OneTurnPerProcessHolds == Spec => []OneTurnPerProcess
<1>1. RuntimeKept => OneTurnPerProcess
  BY DEF RuntimeKept
<1>2. QED
  BY <1>1, RuntimeKeptHolds, PTL

\* ... and a cancel it serves looks into the runtime the turn runs in.
THEOREM CancelReachesTurnHolds == Spec => []CancelReachesTurn
<1>1. RuntimeKept => CancelReachesTurn
  BY DEF RuntimeKept, Onwards, CancelReachesTurn
<1>2. QED
  BY <1>1, RuntimeKeptHolds, PTL

=============================================================================
