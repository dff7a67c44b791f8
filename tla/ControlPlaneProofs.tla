------------------------- MODULE ControlPlaneProofs -------------------------
(***************************************************************************)
(* The control plane: the scheduler, and the services of ControlProofs     *)
(* beside it.                                                              *)
(*                                                                         *)
(* A scheduler's table is sound for any number of daemons, callers and     *)
(* jobs, and any period.  That no slot is started twice rests on the next  *)
(* run of an entry being later than all that was started from it (Past),   *)
(* which needs that the next slot is strictly after the time.  That an     *)
(* entry says what the row says rests on what the one request that may     *)
(* still change it has read (EntrySettled).                                *)
(*                                                                         *)
(* Every behaviour of the control plane is one of each of its parts, so    *)
(* what is proved of a part holds of the whole.                            *)
(***************************************************************************)
EXTENDS MCControl, ControlProofs

\* The caller's request will change n's entry for j.
About(c, n, j) == request[c].node = n /\ request[c].job = j

\* A request is served by a daemon that is up, about a job that has had a row.
RequestSound ==
    \A c \in Client :
        \/ request[c] = NoRequest
        \/ /\ request[c].at # "none"
           /\ request[c].node \in Node /\ loop[request[c].node] # "down"
           /\ request[c].job \in Job /\ row[request[c].job] # "unborn"

\* What was started is over, and the entry it was started from is past it.
Past ==
    \A n \in Node : \A j \in Job : \A s \in Nat : <<n, j, s>> \in fired =>
        /\ s <= now
        /\ nextRun[n][j] = -1 \/ s < nextRun[n][j]

\* What a request about a job knows of its row.
UpToDate(c) ==
    /\ request[c].at = "load" => Exists(request[c].job)
    /\ request[c].at = "apply" => request[c].model = row[request[c].job]
    /\ request[c].at = "remove" => row[request[c].job] = "gone"

\* Unless its row was changed past it, one request at most will change an entry,
\* to what the row says; without one the entry says it already.
EntrySettled ==
    \A n \in Node : \A j \in Job : loop[n] # "down" /\ <<n, j>> \notin crossed =>
        /\ \A c \in Client : About(c, n, j) => UpToDate(c)
        /\ \A c, d \in Client : About(c, n, j) /\ About(d, n, j) => c = d
        /\ (\A c \in Client : ~About(c, n, j)) => (enabled[n][j] <=> row[j] = "enabled")

SchedInv == TypeOK /\ RequestSound /\ Past /\ EntrySettled /\ refired = {}

\* The groups of variables and the record of an idle caller are expanded throughout.
USE DEF entryVars, rowVars, history, NoRequest, Exists
-----------------------------------------------------------------------------
\* The next slot is strictly after the time.
LEMMA NextSlotLater ==
    ASSUME NEW t \in Nat PROVE NextSlot(t) \in Nat /\ NextSlot(t) > t
  <1>1. Period \in Nat \ {0} /\ t \div Period \in Nat
    BY TimeAssumption
  <1>2. t = (Period * (t \div Period)) + (t % Period) /\ (t % Period) < Period /\ (t % Period) \in Nat
    BY <1>1
  <1>3. (t \div Period + 1) * Period = Period * (t \div Period) + Period
    BY <1>1
  <1>4. Period * (t \div Period) \in Nat
    BY <1>1
  <1> QED
    BY <1>1, <1>2, <1>3, <1>4 DEF NextSlot

LEMMA SchedInit == Init => SchedInv
  <1> SUFFICES ASSUME Init PROVE SchedInv
    OBVIOUS
  <1>1. TypeOK
    BY NodeAssumption, TimeAssumption DEF Init, TypeOK
  <1>2. RequestSound /\ Past /\ refired = {}
    BY DEF Init, RequestSound, Past
  <1>3. EntrySettled
    BY DEF Init, EntrySettled
  <1> QED
    BY <1>1, <1>2, <1>3 DEF SchedInv


\* Time passes.
LEMMA TickInv ==
    ASSUME SchedInv, Tick PROVE SchedInv'
  <1> USE DEF SchedInv
  <1>1. TypeOK'
    BY TimeAssumption DEF TypeOK, Tick
  <1>2. RequestSound'
    BY DEF TypeOK, RequestSound, Tick
  <1>3. Past'
    BY TimeAssumption DEF TypeOK, Past, Tick
  <1>4. refired' = {}
    BY TimeAssumption DEF TypeOK, Past, Tick
  <1>5. EntrySettled'
    BY NodeAssumption DEF TypeOK, RequestSound, EntrySettled, About, UpToDate, Tick
  <1> QED
    BY <1>1, <1>2, <1>3, <1>4, <1>5


\* A daemon that boots takes its table from the rows, and nobody is served by it yet.
LEMMA BootInv ==
    ASSUME SchedInv, NEW n \in Node, Boot(n) PROVE SchedInv'
  <1> USE DEF SchedInv
  <1>1. TypeOK'
    BY NextSlotLater DEF TypeOK, Boot
  <1>2. RequestSound'
    BY DEF TypeOK, RequestSound, Boot
  <1>3. Past'
    BY NextSlotLater DEF TypeOK, Past, Boot
  <1>4. refired' = {}
    BY NextSlotLater DEF TypeOK, Past, Boot
  <1>5. EntrySettled'
    <2> SUFFICES ASSUME NEW m \in Node, NEW j \in Job, loop'[m] # "down", <<m, j>> \notin crossed'
                 PROVE  /\ \A c \in Client : About(c, m, j)' => UpToDate(c)'
                        /\ \A c, d \in Client : About(c, m, j)' /\ About(d, m, j)' => c = d
                        /\ (\A c \in Client : ~About(c, m, j)')
                              => (enabled'[m][j] <=> row'[j] = "enabled")
      BY DEF EntrySettled
    <2>1. UNCHANGED <<row, request>>
      BY DEF Boot
    <2>2. CASE m = n
      <3>1. \A c \in Client : ~About(c, m, j)
        BY <2>2, NodeAssumption DEF Boot, RequestSound, About
      <3>2. enabled'[m][j] <=> row[j] = "enabled"
        BY <2>2 DEF Boot, TypeOK
      <3> QED
        BY <2>1, <3>1, <3>2 DEF About
    <2>3. CASE m # n
      <3>1. loop[m] # "down" /\ <<m, j>> \notin crossed /\ enabled'[m] = enabled[m]
        BY <2>3 DEF Boot, TypeOK
      <3> QED
        BY <2>1, <3>1 DEF EntrySettled, About, UpToDate
    <2> QED
      BY <2>2, <2>3
  <1> QED
    BY <1>1, <1>2, <1>3, <1>4, <1>5


\* A daemon takes its table and its requests with it.
LEMMA CrashInv ==
    ASSUME SchedInv, NEW n \in Node, Crash(n) PROVE SchedInv'
  <1> USE DEF SchedInv
  <1>1. TypeOK'
    BY NodeAssumption DEF TypeOK, Crash
  <1>2. RequestSound'
    BY DEF TypeOK, RequestSound, Crash
  <1>3. Past'
    BY NodeAssumption DEF TypeOK, Past, Crash
  <1>4. refired' = {}
    BY NodeAssumption DEF TypeOK, Past, Crash
  <1>5. EntrySettled'
    BY NodeAssumption DEF TypeOK, RequestSound, EntrySettled, About, UpToDate, Crash
  <1> QED
    BY <1>1, <1>2, <1>3, <1>4, <1>5


LEMMA CollectInv ==
    ASSUME SchedInv, NEW n \in Node, Collect(n) PROVE SchedInv'
  <1> USE DEF SchedInv
  <1>1. TypeOK'
    BY DEF TypeOK, Collect, Due
  <1>2. RequestSound'
    BY DEF TypeOK, RequestSound, Collect, Due
  <1>3. Past'
    BY DEF TypeOK, Past, Collect, Due
  <1>4. refired' = {}
    BY DEF TypeOK, Past, Collect, Due
  <1>5. EntrySettled'
    BY NodeAssumption DEF TypeOK, RequestSound, EntrySettled, About, UpToDate, Collect, Due
  <1> QED
    BY <1>1, <1>2, <1>3, <1>4, <1>5


LEMMA EndTickInv ==
    ASSUME SchedInv, NEW n \in Node, EndTick(n) PROVE SchedInv'
  <1> USE DEF SchedInv
  <1>1. TypeOK'
    BY DEF TypeOK, EndTick
  <1>2. RequestSound'
    BY DEF TypeOK, RequestSound, EndTick
  <1>3. Past'
    BY DEF TypeOK, Past, EndTick
  <1>4. refired' = {}
    BY DEF TypeOK, Past, EndTick
  <1>5. EntrySettled'
    BY NodeAssumption DEF TypeOK, RequestSound, EntrySettled, About, UpToDate, EndTick
  <1> QED
    BY <1>1, <1>2, <1>3, <1>4, <1>5


\* A start is of the entry's next run, which then moves past it.
LEMMA FireInv ==
    ASSUME SchedInv, NEW n \in Node, NEW j \in Job, Fire(n, j) PROVE SchedInv'
  <1> USE DEF SchedInv
  <1>1. TypeOK'
    <2>1. CASE ~Due(n, j)
      BY <2>1 DEF TypeOK, Fire
    <2>2. CASE Due(n, j)
      <3>1. nextRun[n][j] \in Nat /\ NextSlot(now) \in Nat
        BY <2>2, NextSlotLater, TimeAssumption DEF TypeOK, Due
      <3>2. nextRun' \in [Node -> [Job -> Nat \cup {-1}]]
        <4>1. nextRun' = [nextRun EXCEPT ![n][j] = NextSlot(now)]
          BY <2>2 DEF Fire
        <4> QED
          BY <3>1, <4>1 DEF TypeOK
      <3>3. fired' \subseteq Node \X Job \X Nat /\ refired' \subseteq fired'
        BY <2>2, <3>1 DEF TypeOK, Fire
      <3>4. /\ toRun' \in [Node -> SUBSET Job] /\ pending' \in [Node -> SUBSET Job]
            /\ UNCHANGED <<now, loop, row, ran, enabled, request, crossed>>
        BY <2>2 DEF TypeOK, Fire
      <3> QED
        BY <3>2, <3>3, <3>4 DEF TypeOK
    <2> QED
      BY <2>1, <2>2
  <1>2. RequestSound'
    BY DEF TypeOK, RequestSound, Fire, Due
  <1>3. Past'
    BY NextSlotLater DEF TypeOK, Past, Fire, Due
  <1>4. refired' = {}
    BY NextSlotLater DEF TypeOK, Past, Fire, Due
  <1>5. EntrySettled'
    BY NodeAssumption DEF TypeOK, RequestSound, EntrySettled, About, UpToDate, Fire, Due
  <1> QED
    BY <1>1, <1>2, <1>3, <1>4, <1>5


LEMMA StartRunInv ==
    ASSUME SchedInv, NEW n \in Node, NEW j \in Job, StartRun(n, j) PROVE SchedInv'
  <1> USE DEF SchedInv
  <1>1. TypeOK'
    BY DEF TypeOK, StartRun
  <1>2. RequestSound'
    BY DEF TypeOK, RequestSound, StartRun
  <1>3. Past'
    BY DEF TypeOK, Past, StartRun
  <1>4. refired' = {}
    BY DEF TypeOK, Past, StartRun
  <1>5. EntrySettled'
    BY NodeAssumption DEF TypeOK, RequestSound, EntrySettled, About, UpToDate, StartRun
  <1> QED
    BY <1>1, <1>2, <1>3, <1>4, <1>5


LEMMA CreateJobInv ==
    ASSUME SchedInv, NEW c \in Client, NEW n \in Node, NEW j \in Job, CreateJob(c, n, j) PROVE SchedInv'
  <1> USE DEF SchedInv
  <1>1. TypeOK'
    BY DEF TypeOK, CreateJob, Crossed, Loading
  <1>2. RequestSound'
    BY DEF TypeOK, RequestSound, CreateJob, Crossed, Loading
  <1>3. Past'
    BY DEF TypeOK, Past, CreateJob, Crossed, Loading
  <1>4. refired' = {}
    BY DEF TypeOK, Past, CreateJob, Crossed, Loading
  <1>5. EntrySettled'
    BY NodeAssumption DEF TypeOK, RequestSound, EntrySettled, About, UpToDate, CreateJob, Crossed, Loading
  <1> QED
    BY <1>1, <1>2, <1>3, <1>4, <1>5


LEMMA StartVmBackupInv ==
    ASSUME SchedInv, NEW n \in Node, NEW j \in Job, StartVmBackup(n, j) PROVE SchedInv'
  <1> USE DEF SchedInv
  <1>1. TypeOK'
    BY DEF TypeOK, StartVmBackup
  <1>2. RequestSound'
    BY DEF TypeOK, RequestSound, StartVmBackup
  <1>3. Past'
    BY DEF TypeOK, Past, StartVmBackup
  <1>4. refired' = {}
    BY DEF TypeOK, Past, StartVmBackup
  <1>5. EntrySettled'
    BY NodeAssumption DEF TypeOK, RequestSound, EntrySettled, About, UpToDate, StartVmBackup
  <1> QED
    BY <1>1, <1>2, <1>3, <1>4, <1>5


LEMMA EditRowInv ==
    ASSUME SchedInv, NEW c \in Client, NEW n \in Node, NEW j \in Job, NEW on \in BOOLEAN,
           EditRow(c, n, j, on)
    PROVE  SchedInv'
  <1> USE DEF SchedInv
  <1>1. TypeOK'
    BY DEF TypeOK, EditRow, Accepts, Crossed, Loading
  <1>2. RequestSound'
    BY DEF TypeOK, RequestSound, EditRow, Accepts, Crossed, Loading
  <1>3. Past'
    BY DEF TypeOK, Past, EditRow, Accepts, Crossed, Loading
  <1>4. refired' = {}
    BY DEF TypeOK, Past, EditRow, Accepts, Crossed, Loading
  <1>5. EntrySettled'
    BY NodeAssumption DEF TypeOK, RequestSound, EntrySettled, About, UpToDate, EditRow, Accepts, Crossed, Loading
  <1> QED
    BY <1>1, <1>2, <1>3, <1>4, <1>5


LEMMA LoadModelInv ==
    ASSUME SchedInv, NEW c \in Client, LoadModel(c) PROVE SchedInv'
  <1> USE DEF SchedInv
  <1>1. TypeOK'
    <2>1. request[c].job \in Job /\ row[request[c].job] \in {"enabled", "disabled", "gone"}
      BY DEF LoadModel, RequestSound, TypeOK
    <2>2. NoRequest \in [at : {"none", "load", "apply", "remove"}, node : Node \cup {NoNode},
                         job : Job \cup {NoJob}, model : {"enabled", "disabled", "gone"}]
      OBVIOUS
    <2> QED
      BY <2>1, <2>2 DEF TypeOK, LoadModel
  <1>2. RequestSound'
    BY DEF TypeOK, RequestSound, LoadModel
  <1>3. Past'
    BY DEF TypeOK, Past, LoadModel
  <1>4. refired' = {}
    BY DEF TypeOK, Past, LoadModel
  <1>5. EntrySettled'
    BY NodeAssumption DEF TypeOK, RequestSound, EntrySettled, About, UpToDate, LoadModel
  <1> QED
    BY <1>1, <1>2, <1>3, <1>4, <1>5


LEMMA ApplyModelInv ==
    ASSUME SchedInv, NEW c \in Client, ApplyModel(c) PROVE SchedInv'
  <1> USE DEF SchedInv
  <1>1. TypeOK'
    <2>1. NextSlot(now) \in Nat
      BY NextSlotLater DEF TypeOK
    <2>2. NoRequest \in [at : {"none", "load", "apply", "remove"}, node : Node \cup {NoNode},
                         job : Job \cup {NoJob}, model : {"enabled", "disabled", "gone"}]
      OBVIOUS
    <2>3. /\ request' \in [Client -> [at : {"none", "load", "apply", "remove"}, node : Node \cup {NoNode},
                               job : Job \cup {NoJob}, model : {"enabled", "disabled", "gone"}]]
          /\ UNCHANGED <<now, loop, row, ran, toRun, pending, fired, refired, crossed>>
      BY <2>2 DEF TypeOK, ApplyModel
    <2>4. nextRun' \in [Node -> [Job -> Nat \cup {-1}]]
      BY <2>1 DEF TypeOK, ApplyModel
    <2>5. enabled' \in [Node -> [Job -> BOOLEAN]]
      BY DEF TypeOK, ApplyModel
    <2> QED
      BY <2>3, <2>4, <2>5 DEF TypeOK
  <1>2. RequestSound'
    BY DEF TypeOK, RequestSound, ApplyModel
  <1>3. Past'
    BY NextSlotLater DEF TypeOK, Past, ApplyModel
  <1>4. refired' = {}
    BY NextSlotLater DEF TypeOK, Past, ApplyModel
  <1>5. EntrySettled'
    <2> DEFINE q == request[c]
    <2> SUFFICES ASSUME NEW m \in Node, NEW j \in Job, loop'[m] # "down", <<m, j>> \notin crossed'
                 PROVE  /\ \A d \in Client : About(d, m, j)' => UpToDate(d)'
                        /\ \A d, e \in Client : About(d, m, j)' /\ About(e, m, j)' => d = e
                        /\ (\A d \in Client : ~About(d, m, j)')
                              => (enabled'[m][j] <=> row'[j] = "enabled")
      BY DEF EntrySettled
    <2>1. /\ q.at = "apply" /\ q.node \in Node /\ q.job \in Job
          /\ UNCHANGED row /\ loop[m] # "down" /\ <<m, j>> \notin crossed
          /\ \A d \in Client : request'[d] = IF d = c THEN NoRequest ELSE request[d]
      BY DEF ApplyModel, RequestSound, TypeOK
    <2>2. \A d \in Client : About(d, m, j)' => d # c /\ About(d, m, j)
      BY <2>1, NodeAssumption DEF About
    <2>3. (\A d \in Client : About(d, m, j)' => UpToDate(d)')
          /\ (\A d, e \in Client : About(d, m, j)' /\ About(e, m, j)' => d = e)
      BY <2>1, <2>2 DEF EntrySettled, UpToDate
    <2>4. CASE m = q.node /\ j = q.job
      <3>1. q.model = row[j]
        BY <2>1, <2>4 DEF EntrySettled, About, UpToDate
      <3>2. enabled'[m][j] <=> q.model = "enabled"
        BY <2>1, <2>4 DEF ApplyModel, TypeOK
      <3> QED
        BY <2>1, <2>3, <3>1, <3>2
    <2>5. CASE ~(m = q.node /\ j = q.job)
      <3>1. enabled'[m][j] = enabled[m][j]
        BY <2>1, <2>5 DEF ApplyModel, TypeOK
      <3>2. (\A d \in Client : ~About(d, m, j)') => \A d \in Client : ~About(d, m, j)
        BY <2>1, <2>5 DEF About
      <3> QED
        BY <2>1, <2>3, <3>1, <3>2 DEF EntrySettled
    <2> QED
      BY <2>4, <2>5
  <1> QED
    BY <1>1, <1>2, <1>3, <1>4, <1>5


LEMMA DeleteRowInv ==
    ASSUME SchedInv, NEW c \in Client, NEW n \in Node, NEW j \in Job, DeleteRow(c, n, j) PROVE SchedInv'
  <1> USE DEF SchedInv
  <1>1. TypeOK'
    BY DEF TypeOK, DeleteRow, Accepts, Crossed
  <1>2. RequestSound'
    BY DEF TypeOK, RequestSound, DeleteRow, Accepts, Crossed
  <1>3. Past'
    BY DEF TypeOK, Past, DeleteRow, Accepts, Crossed
  <1>4. refired' = {}
    BY DEF TypeOK, Past, DeleteRow, Accepts, Crossed
  <1>5. EntrySettled'
    BY NodeAssumption DEF TypeOK, RequestSound, EntrySettled, About, UpToDate, DeleteRow, Accepts, Crossed
  <1> QED
    BY <1>1, <1>2, <1>3, <1>4, <1>5


LEMMA RemoveEntryInv ==
    ASSUME SchedInv, NEW c \in Client, RemoveEntry(c) PROVE SchedInv'
  <1> USE DEF SchedInv
  <1>1. TypeOK'
    BY DEF TypeOK, RemoveEntry
  <1>2. RequestSound'
    BY DEF TypeOK, RequestSound, RemoveEntry
  <1>3. Past'
    BY DEF TypeOK, Past, RemoveEntry
  <1>4. refired' = {}
    BY DEF TypeOK, Past, RemoveEntry
  <1>5. EntrySettled'
    BY NodeAssumption DEF TypeOK, RequestSound, EntrySettled, About, UpToDate, RemoveEntry
  <1> QED
    BY <1>1, <1>2, <1>3, <1>4, <1>5


LEMMA DropRequestInv ==
    ASSUME SchedInv, NEW c \in Client, DropRequest(c) PROVE SchedInv'
  <1> USE DEF SchedInv
  <1>1. TypeOK'
    <2>1. <<request[c].node, request[c].job>> \in Node \X Job
      BY DEF TypeOK, RequestSound, DropRequest
    <2> QED
      BY <2>1 DEF TypeOK, DropRequest
  <1>2. RequestSound'
    BY DEF TypeOK, RequestSound, DropRequest
  <1>3. Past'
    BY DEF TypeOK, Past, DropRequest
  <1>4. refired' = {}
    BY DEF TypeOK, Past, DropRequest
  <1>5. EntrySettled'
    BY NodeAssumption DEF TypeOK, RequestSound, EntrySettled, About, UpToDate, DropRequest
  <1> QED
    BY <1>1, <1>2, <1>3, <1>4, <1>5


LEMMA SchedNext == SchedInv /\ [Next]_vars => SchedInv'
  <1> SUFFICES ASSUME SchedInv, [Next]_vars PROVE SchedInv'
    OBVIOUS
  <1>1. ASSUME NEW n \in Node, NodeStep(n) PROVE SchedInv'
    BY <1>1, BootInv, CrashInv, CollectInv, EndTickInv, FireInv, StartRunInv, StartVmBackupInv
       DEF NodeStep
  <1>2. ASSUME NEW c \in Client, ClientStep(c) PROVE SchedInv'
    BY <1>2, EditRowInv, CreateJobInv, DeleteRowInv, LoadModelInv, ApplyModelInv, RemoveEntryInv,
       DropRequestInv DEF ClientStep
  <1>3. CASE UNCHANGED vars
    BY <1>3 DEF vars, SchedInv, TypeOK, RequestSound, Past, EntrySettled, About, UpToDate
  <1> QED
    BY <1>1, <1>2, <1>3, TickInv DEF Next
-----------------------------------------------------------------------------
\* What is known of every table, request and start in every reachable state.
THEOREM SchedulerInvariant == Spec => []SchedInv
  BY SchedInit, SchedNext, PTL DEF Spec

\* Every reachable state is well typed.
THEOREM TypeCorrect == Spec => []TypeOK
  <1>1. SchedInv => TypeOK
    BY DEF SchedInv
  <1> QED
    BY <1>1, SchedulerInvariant, PTL

\* An entry says what its row says, and no slot is started twice from it.
THEOREM TableIsSound == Spec => []TableSound
  <1>1. SchedInv => TableSound
    <2> SUFFICES ASSUME SchedInv, NEW n \in Node, NEW j \in Job, loop[n] # "down",
                        \A c \in Client : request[c].job # j, <<n, j>> \notin crossed
                 PROVE  enabled[n][j] = (row[j] = "enabled")
      BY DEF SchedInv, TableSound, SlotOncePerNode, EntryMatchesRow
    <2>1. enabled[n][j] <=> row[j] = "enabled"
      BY DEF SchedInv, EntrySettled, About
    <2>2. enabled[n][j] \in BOOLEAN
      BY DEF SchedInv, TypeOK
    <2> QED
      BY <2>1, <2>2
  <1> QED
    BY <1>1, SchedulerInvariant, PTL

\* No start is spawned that an edit has made not due.
THEOREM DueWhenSpawned == Spec => OnlyDueSpawned
  <1> DEFINE Honoured == \A n \in Node : \A j \in Job :
            j \in toRun[n] \ toRun'[n] /\ loop'[n] # "down" /\ ~Due(n, j)
                => pending'[n] = pending[n] /\ nextRun'[n][j] = nextRun[n][j]
  <1>1. TypeOK /\ [Next]_vars => [Honoured]_vars
    <2> SUFFICES ASSUME TypeOK, Next PROVE Honoured
      OBVIOUS
    <2> SUFFICES ASSUME NEW n \in Node, NEW j \in Job, j \in toRun[n] \ toRun'[n],
                        loop'[n] # "down", ~Due(n, j)
                 PROVE  pending'[n] = pending[n] /\ nextRun'[n][j] = nextRun[n][j]
      OBVIOUS
    <2>1. ASSUME NEW m \in Node, Crash(m) \/ Collect(m)
          PROVE  pending'[n] = pending[n] /\ nextRun'[n][j] = nextRun[n][j]
      BY <2>1 DEF TypeOK, Crash, Collect
    <2>2. ASSUME NEW m \in Node, NEW k \in Job, Fire(m, k)
          PROVE  pending'[n] = pending[n] /\ nextRun'[n][j] = nextRun[n][j]
      BY <2>2 DEF TypeOK, Fire
    <2>3. \/ UNCHANGED toRun
          \/ \E m \in Node : Crash(m) \/ Collect(m) \/ \E k \in Job : Fire(m, k)
      <3>1. ASSUME NEW m \in Node, NodeStep(m)
            PROVE  \/ UNCHANGED toRun
                   \/ Crash(m) \/ Collect(m) \/ \E k \in Job : Fire(m, k)
        BY <3>1 DEF NodeStep, Boot, EndTick, StartRun, StartVmBackup
      <3>2. ASSUME NEW c \in Client, ClientStep(c) PROVE UNCHANGED toRun
        BY <3>2 DEF ClientStep, EditRow, CreateJob, DeleteRow, LoadModel, ApplyModel, RemoveEntry,
           DropRequest
      <3> QED
        BY <3>1, <3>2 DEF Next, Tick
    <2> QED
      BY <2>1, <2>2, <2>3
  <1> QED
    BY <1>1, TypeCorrect, PTL DEF Spec, OnlyDueSpawned
-----------------------------------------------------------------------------
\* The control plane starts with each of its parts in an initial state.
LEMMA ControlStarts ==
    ControlInit => /\ focus \in Planes /\ Init /\ PortalInit /\ DrInit
                   /\ TenantInit /\ InvInit /\ SessInit /\ AgentInit
  BY DEF ControlInit

\* A step of the control plane is a step or a stutter of each of its parts.
LEMMA ControlMoves ==
    ASSUME [ControlNext]_controlVars
    PROVE  /\ UNCHANGED focus /\ [Next]_vars
           /\ [PortalNext]_portalVars /\ [DrNext]_drVars
           /\ [TenantNext]_tenantVars /\ [InvNext]_inventoryVars /\ [SessNext]_sessVars
           /\ [AgentNext]_agentVars
  <1>1. CASE UNCHANGED controlVars
    BY <1>1 DEF controlVars
  <1>2. CASE ControlNext
    <2>1. CASE Alone("scheduler") /\ Next
      BY <2>1 DEF Alone
    <2>2. CASE Alone("portal") /\ PortalNext
      BY <2>2 DEF Alone
    <2>3. CASE Alone("dr") /\ DrNext
      BY <2>3 DEF Alone
    <2>4. CASE Alone("tenants") /\ TenantNext
      BY <2>4 DEF Alone
    <2>5. CASE Alone("inventory") /\ InvNext
      BY <2>5 DEF Alone
    <2>6. CASE \/ Alone("logins") /\ (LoginNext \/ SessCommon)
               \/ Alone("tokens") /\ (TokenNext \/ SessCommon)
               \/ Alone("flows") /\ (FlowNext \/ SessCommon)
      BY <2>6 DEF Alone, SessNext
    <2>7. CASE Alone("agents") /\ AgentNext
      BY <2>7 DEF Alone
    <2> QED
      BY <1>2, <2>1, <2>2, <2>3, <2>4, <2>5, <2>6, <2>7 DEF ControlNext
  <1> QED
    BY <1>1, <1>2

\* A behaviour of the control plane is one of the scheduler, the restore portal, the
\* failovers, the tenants, the inventory, the sessions and the agents.
THEOREM ControlImplements ==
    ControlSpec => /\ Spec /\ PortalSpec /\ DrSpec /\ TenantSpec /\ InvSpec /\ SessSpec
                   /\ AgentSpec /\ [](focus \in Planes)
  <1>1. focus \in Planes /\ UNCHANGED focus => (focus \in Planes)'
    OBVIOUS
  <1> QED
    BY <1>1, ControlStarts, ControlMoves, PTL DEF ControlSpec, Spec, PortalSpec, DrSpec, TenantSpec,
       InvSpec, SessSpec, AgentSpec

\* What is checked of the parts side by side holds for all constants: the types ...
THEOREM ControlTypeCorrect == ControlSpec => []ControlTypeOK
  <1>1. /\ PortalInv => PortalTypeOK
        /\ InvInv => InvTypeOK
        /\ TenantInv => TenantTypeOK
        /\ SessInv => SessTypeOK
        /\ AgentInv => AgentTypeOK
    BY DEF PortalInv, InvInv, TenantInv, TenantShape, SessInv, SessShape, AgentInv
  <1>2. focus \in Planes /\ TypeOK /\ PortalTypeOK /\ DrTypeOK /\ TenantTypeOK /\ InvTypeOK
            /\ SessTypeOK /\ AgentTypeOK
        => ControlTypeOK
    BY DEF ControlTypeOK, Planes
  <1> QED
    BY <1>1, <1>2, ControlImplements, TypeCorrect, PortalInvariant, DrInvariant, InvInvariant,
       TenantInvariant, SessInvariant, AgentInvariant, PTL

\* ... and that tables, requests, tenants, inventory, sessions, tasks and failovers are sound.
THEOREM ControlStaysSound ==
    ControlSpec => /\ [](/\ TableSound /\ SubmitDurable /\ TenantsSound
                         /\ InventorySound /\ SessionsSound /\ RepeatExplained)
                   /\ OnlyDueSpawned /\ VerdictStands /\ CommittedRuns
  BY ControlImplements, TableIsSound, DueWhenSpawned, SubmitStaysDurable, VerdictsStand,
     CommittedFailoverRuns, TenantsStaySound, InventoryStaysSound, SessionsStaySound,
     RepeatsStayExplained, PTL
=============================================================================
