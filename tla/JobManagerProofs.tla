-------------------------- MODULE JobManagerProofs --------------------------
(***************************************************************************)
(* Job control is safe for any number of runs, jobs and faults.            *)
(*                                                                         *)
(* None of its properties is inductive: each rests on where a run is still *)
(* known.  A run at work that was neither aborted nor lost is the one the  *)
(* handle map has for its job, or the request in progress has it in hand   *)
(* (Tracked); so a cancel cannot miss it, no second run is let in beside   *)
(* it, and every way in which a session or a runtime can be left saying    *)
(* "running" passes through a place where something is put on record.      *)
(***************************************************************************)
EXTENDS JobManager, TLAPS

Earlier == {"new", "born"}
BeforeReport == {"check", "create", "disk", "reading", "remove", "report"}

\* What the stage of a request says of the run and the job it is about.
OpSound ==
    /\ op.at # "none" => op.job \in Job
    /\ op.at \in {"session", "token", "spawn", "handle", "grace"} => op.run \in Run
    /\ op.at = "session" => phase[op.run] = "new"
    /\ op.at \in {"token", "spawn"} => phase[op.run] = "born" /\ session[op.run] = "running"
    /\ op.at \in {"token", "spawn", "handle", "grace"} => jobOf[op.run] = op.job
    /\ op.at \in {"handle", "grace"} => phase[op.run] \notin Earlier
    /\ op.at = "grace" => handle[op.job] = 0

\* What the phase of a run says of its row.
RunsSound ==
    \A r \in Run :
        /\ phase[r] = "new" => jobOf[r] = NoJob /\ session[r] = "none"
        /\ phase[r] # "new" => jobOf[r] \in Job
        /\ phase[r] \in Earlier => r \notin aborted
        /\ outcome[r] # "running"

\* A handle is that of a task of the job.
HandlesSound ==
    \A j \in Job : handle[j] # 0 => jobOf[handle[j]] = j /\ phase[handle[j]] \notin Earlier

\* A run at work is in the handle map or in the hands of a request, unless on record.
Tracked ==
    \A r \in Run : Working(r) /\ r \notin aborted \cup unreachable =>
        \/ handle[jobOf[r]] = r
        \/ op.job = jobOf[r] /\ op.run = r /\ op.at \in {"handle", "grace"}

\* The runs of a job that are at work and will go on; a job none of whose runs was ever lost.
Steady(j) == {r \in RunsOf(j) : Working(r) /\ r \notin aborted}
Calm(j) == RunsOf(j) \cap unreachable = {}

\* In a calm job the runtime stands for the run at work, and a start finds none there.
Sole ==
    \A j \in Job : Calm(j) =>
        /\ Steady(j) # {} => runtime[j] = "running"
        /\ op.job = j /\ op.at \in {"session", "token", "spawn"}
              => runtime[j] = "running" /\ Steady(j) = {}
        /\ op.job = j /\ op.at = "handle" => Steady(j) \subseteq {op.run}

\* Who will end a session that is running.
Owned ==
    \A r \in Run : daemon = "up" /\ session[r] = "running" /\ jobOf[r] \notin stuck =>
        \/ phase[r] \in BeforeReport /\ r \notin aborted
        \/ op.job = jobOf[r] /\ op.run = r /\ op.at \in {"token", "spawn"}
        \/ op.job = jobOf[r] /\ op.at = "update"

\* A cancel that has marked the sessions has left none of the job running.
Cancelled == op.at = "runtime" => \A r \in RunsOf(op.job) : session[r] # "running"

\* Who will free a runtime that refuses starts.
Refused ==
    \A j \in Job : runtime[j] = "running" =>
        \/ Steady(j) # {}
        \/ op.job = j /\ op.at \in {"session", "token", "spawn", "update", "runtime"}
        \/ j \in stuck

\* A session that has an outcome before its run has reported was failed by a restart.
Reported ==
    \A r \in Run : session[r] \in {"completed", "failed"} /\ phase[r] \in BeforeReport
        => r \in unreachable

JobInv ==
    /\ TypeOK /\ OpSound /\ RunsSound /\ HandlesSound /\ Tracked /\ CancelReaches
    /\ Sole /\ Owned /\ Cancelled /\ Refused /\ Reported

\* A snapshot is that of a VM run that will ask for its removal, has asked, or was cut short.
Snapped ==
    /\ \A r \in Run : phase[r] \in {"create", "disk"} => jobOf[r] \in VmJob
    /\ \A r \in snaps : /\ jobOf[r] \in VmJob
                        /\ \/ phase[r] \in {"disk", "reading", "remove", "crashed"}
                           \/ r \in tried \cup aborted

\* A run gets on with its work: what its steps before the report have in common.
Advance(r) ==
    /\ r \notin aborted /\ phase[r] \in BeforeReport \ {"report"}
    /\ \E p \in BeforeReport : phase' = [phase EXCEPT ![r] = p]
    /\ \E o \in {"none", "completed", "failed", "cancelled"} :
            /\ outcome' = [outcome EXCEPT ![r] = o]
            /\ o = "none" => phase'[r] \notin {"remove", "report"}
    /\ snaps' \subseteq Run /\ tried' \subseteq Run
    /\ UNCHANGED <<mapVars, fired, aborted, dbVars, faultVars, unreachable, stuck, op>>

\* The names of phases and stages, and the groups of variables, are expanded throughout.
USE DEF mapVars, taskVars, dbVars, faultVars, history, Fault, Idle, Working, Live, RunsOf,
        Spawned, Status, Phase, Stage, NoOp, Earlier, Ended, Runs, BeforeReport
-----------------------------------------------------------------------------
\* Of a job whose runs were never lost, one run is at work.
LEMMA OneSteady ==
    ASSUME JobInv, NEW j \in Job, Calm(j), NEW q \in Steady(j), NEW r \in Steady(j)
    PROVE  q = r
  <1>1. /\ q \in Run /\ jobOf[q] = j /\ Working(q) /\ q \notin aborted \cup unreachable
        /\ r \in Run /\ jobOf[r] = j /\ Working(r) /\ r \notin aborted \cup unreachable
    BY DEF Steady, Calm
  <1>2. /\ handle[j] = q \/ (op.job = j /\ op.run = q /\ op.at \in {"handle", "grace"})
        /\ handle[j] = r \/ (op.job = j /\ op.run = r /\ op.at \in {"handle", "grace"})
    BY <1>1 DEF JobInv, Tracked
  <1>3. op.job = j /\ op.at = "grace" => handle[j] = 0 /\ 0 \notin Run
    BY RunAssumption DEF JobInv, OpSound
  <1>4. op.job = j /\ op.at = "handle" => Steady(j) \subseteq {op.run}
    BY DEF JobInv, Sole
  <1> QED
    BY <1>1, <1>2, <1>3, <1>4

\* The initial state satisfies the invariant.
LEMMA JobInit == Init => JobInv /\ Snapped
  <1> SUFFICES ASSUME Init PROVE JobInv /\ Snapped
    OBVIOUS
  <1>1. TypeOK
    BY FaultAssumption DEF Init, TypeOK
  <1>2. OpSound /\ RunsSound /\ HandlesSound
    BY DEF Init, OpSound, RunsSound, HandlesSound
  <1>3. Tracked /\ CancelReaches /\ Sole
    BY DEF Init, Tracked, CancelReaches, Sole, Steady
  <1>4. Owned /\ Cancelled /\ Refused /\ Reported /\ Snapped
    BY DEF Init, Owned, Cancelled, Refused, Reported, Snapped
  <1> QED
    BY <1>1, <1>2, <1>3, <1>4 DEF JobInv
-----------------------------------------------------------------------------
(* Requests. *)

\* A start is let in only if the runtime is free, so no run of a calm job is at work.
LEMMA BeginStartInv ==
    ASSUME JobInv, NEW r \in Run, NEW j \in Job, BeginStart(r, j)
    PROVE  JobInv'
  <1> USE DEF JobInv, TypeOK, OpSound, RunsSound, HandlesSound
  <1>1. TypeOK'
    BY DEF BeginStart
  <1>2. OpSound'
    BY DEF BeginStart
  <1>3. RunsSound'
    BY DEF BeginStart
  <1>4. HandlesSound'
    BY DEF BeginStart
  <1>5. Tracked'
    BY DEF BeginStart, Tracked
  <1>6. CancelReaches'
    BY DEF BeginStart, CancelReaches
  <1>7. Sole'
    BY DEF BeginStart, Sole, Calm, Steady
  <1>8. Owned'
    BY DEF BeginStart, Owned
  <1>9. Cancelled'
    BY DEF BeginStart, Cancelled
  <1>10. Refused'
    BY DEF BeginStart, Refused, Steady
  <1>11. Reported'
    BY DEF BeginStart, Reported
  <1> QED
    BY <1>1, <1>2, <1>3, <1>4, <1>5, <1>6, <1>7, <1>8, <1>9, <1>10, <1>11

\* The session is running; the request has it in hand, or is on record.
LEMMA InsertSessionInv ==
    ASSUME JobInv, InsertSession
    PROVE  JobInv'
  <1> USE DEF JobInv, TypeOK, OpSound, RunsSound, HandlesSound
  <1>1. TypeOK'
    <2>1. op.run \in Run /\ op.job \in Job
      BY DEF InsertSession
    <2>2. op' \in [at : Stage \cup {"none"}, job : Job \cup {NoJob}, run : Run \cup {0}, deleting : BOOLEAN]
      <3>1. CASE op' = [op EXCEPT !.at = "token"]
        BY <3>1
      <3>2. CASE op' = NoOp
        BY <3>2
      <3> QED
        BY <3>1, <3>2 DEF InsertSession
    <2>3. session' \in [Run -> Status \cup {"none"}] /\ phase' \in [Run -> Phase] /\ jobOf' \in [Run -> Job \cup {NoJob}]
      BY <2>1 DEF InsertSession
    <2>4. stuck' \subseteq Job /\ faults' \in 0..MaxFaults
      BY <2>1, FaultAssumption DEF InsertSession
    <2>5. \A r \in Run : phase'[r] \in {"remove", "report", "finRuntime"} => outcome'[r] # "none"
      BY <2>1 DEF InsertSession
    <2>6. UNCHANGED <<exists, runtime, handle, token, fired, aborted, snaps, outcome, daemon, tried, unreachable>>
      BY DEF InsertSession
    <2> QED
      BY <2>2, <2>3, <2>4, <2>5, <2>6
  <1>2. OpSound'
    BY DEF InsertSession
  <1>3. RunsSound'
    BY DEF InsertSession
  <1>4. HandlesSound'
    BY DEF InsertSession
  <1>5. Tracked'
    BY DEF InsertSession, Tracked
  <1>6. CancelReaches'
    BY DEF InsertSession, CancelReaches
  <1>7. Sole'
    BY JobAssumption DEF InsertSession, Sole, Calm, Steady
  <1>8. Owned'
    BY DEF InsertSession, Owned
  <1>9. Cancelled'
    BY DEF InsertSession, Cancelled
  <1>10. Refused'
    BY DEF InsertSession, Refused, Steady
  <1>11. Reported'
    BY DEF InsertSession, Reported
  <1> QED
    BY <1>1, <1>2, <1>3, <1>4, <1>5, <1>6, <1>7, <1>8, <1>9, <1>10, <1>11

\* The token is stored.
LEMMA InsertTokenInv ==
    ASSUME JobInv, InsertToken
    PROVE  JobInv'
  <1> USE DEF JobInv, TypeOK, OpSound, RunsSound, HandlesSound
  <1>1. TypeOK'
    BY DEF InsertToken
  <1>2. OpSound'
    BY DEF InsertToken
  <1>3. RunsSound'
    BY DEF InsertToken
  <1>4. HandlesSound'
    BY DEF InsertToken
  <1>5. Tracked'
    BY DEF InsertToken, Tracked
  <1>6. CancelReaches'
    BY DEF InsertToken, CancelReaches
  <1>7. Sole'
    BY DEF InsertToken, Sole, Calm, Steady
  <1>8. Owned'
    BY DEF InsertToken, Owned
  <1>9. Cancelled'
    BY DEF InsertToken, Cancelled
  <1>10. Refused'
    BY DEF InsertToken, Refused, Steady
  <1>11. Reported'
    BY DEF InsertToken, Reported
  <1> QED
    BY <1>1, <1>2, <1>3, <1>4, <1>5, <1>6, <1>7, <1>8, <1>9, <1>10, <1>11

\* The task goes to work; the request has its handle in hand.
LEMMA SpawnInv ==
    ASSUME JobInv, Spawn
    PROVE  JobInv'
  <1> USE DEF JobInv, TypeOK, OpSound, RunsSound, HandlesSound
  <1>1. TypeOK'
    BY DEF Spawn
  <1>2. OpSound'
    BY DEF Spawn
  <1>3. RunsSound'
    BY DEF Spawn
  <1>4. HandlesSound'
    BY DEF Spawn
  <1>5. Tracked'
    BY DEF Spawn, Tracked
  <1>6. CancelReaches'
    BY DEF Spawn, CancelReaches
  <1>7. Sole'
    BY DEF Spawn, Sole, Calm, Steady
  <1>8. Owned'
    BY DEF Spawn, Owned
  <1>9. Cancelled'
    BY DEF Spawn, Cancelled
  <1>10. Refused'
    BY DEF Spawn, Refused, Steady
  <1>11. Reported'
    BY DEF Spawn, Reported
  <1> QED
    BY <1>1, <1>2, <1>3, <1>4, <1>5, <1>6, <1>7, <1>8, <1>9, <1>10, <1>11

\* The handle is stored; the one it replaces is put on record.
LEMMA InsertHandleInv ==
    ASSUME JobInv, InsertHandle
    PROVE  JobInv'
  <1> USE DEF JobInv, TypeOK, OpSound, RunsSound, HandlesSound
  <1>1. TypeOK'
    BY DEF InsertHandle
  <1>2. OpSound'
    BY DEF InsertHandle
  <1>3. RunsSound'
    BY DEF InsertHandle
  <1>4. HandlesSound'
    BY DEF InsertHandle
  <1>5. Tracked'
    BY DEF InsertHandle, Tracked
  <1>6. CancelReaches'
    BY DEF InsertHandle, CancelReaches
  <1>7. Sole'
    BY DEF InsertHandle, Sole, Calm, Steady
  <1>8. Owned'
    BY DEF InsertHandle, Owned
  <1>9. Cancelled'
    BY DEF InsertHandle, Cancelled
  <1>10. Refused'
    BY DEF InsertHandle, Refused, Steady
  <1>11. Reported'
    BY DEF InsertHandle, Reported
  <1> QED
    BY <1>1, <1>2, <1>3, <1>4, <1>5, <1>6, <1>7, <1>8, <1>9, <1>10, <1>11

\* A cancel begins with the token.
LEMMA BeginCancelInv ==
    ASSUME JobInv, NEW j \in Job, NEW deleting \in BOOLEAN, BeginCancel(j, deleting)
    PROVE  JobInv'
  <1> USE DEF JobInv, TypeOK, OpSound, RunsSound, HandlesSound
  <1>1. TypeOK'
    BY DEF BeginCancel
  <1>2. OpSound'
    BY DEF BeginCancel
  <1>3. RunsSound'
    BY DEF BeginCancel
  <1>4. HandlesSound'
    BY DEF BeginCancel
  <1>5. Tracked'
    BY DEF BeginCancel, Tracked
  <1>6. CancelReaches'
    BY DEF BeginCancel, CancelReaches
  <1>7. Sole'
    BY DEF BeginCancel, Sole, Calm, Steady
  <1>8. Owned'
    BY DEF BeginCancel, Owned
  <1>9. Cancelled'
    BY DEF BeginCancel, Cancelled
  <1>10. Refused'
    BY DEF BeginCancel, Refused, Steady
  <1>11. Reported'
    BY DEF BeginCancel, Reported
  <1> QED
    BY <1>1, <1>2, <1>3, <1>4, <1>5, <1>6, <1>7, <1>8, <1>9, <1>10, <1>11

\* It takes the handle, if there is one: there is none only if no run is tracked.
LEMMA TakeHandleInv ==
    ASSUME JobInv, TakeHandle
    PROVE  JobInv'
  <1> USE DEF JobInv, TypeOK, OpSound, RunsSound, HandlesSound
  <1>1. TypeOK'
    BY DEF TakeHandle
  <1>2. OpSound'
    BY DEF TakeHandle
  <1>3. RunsSound'
    BY DEF TakeHandle
  <1>4. HandlesSound'
    BY DEF TakeHandle
  <1>5. Tracked'
    BY DEF TakeHandle, Tracked
  <1>6. CancelReaches'
    BY RunAssumption DEF TakeHandle, CancelReaches, Tracked
  <1>7. Sole'
    BY DEF TakeHandle, Sole, Calm, Steady
  <1>8. Owned'
    BY DEF TakeHandle, Owned
  <1>9. Cancelled'
    BY DEF TakeHandle, Cancelled
  <1>10. Refused'
    BY DEF TakeHandle, Refused, Steady
  <1>11. Reported'
    BY DEF TakeHandle, Reported
  <1> QED
    BY <1>1, <1>2, <1>3, <1>4, <1>5, <1>6, <1>7, <1>8, <1>9, <1>10, <1>11

\* The run it waited for has ended.
LEMMA GracefulEndInv ==
    ASSUME JobInv, GracefulEnd
    PROVE  JobInv'
  <1> USE DEF JobInv, TypeOK, OpSound, RunsSound, HandlesSound
  <1>1. TypeOK'
    BY DEF GracefulEnd
  <1>2. OpSound'
    BY DEF GracefulEnd
  <1>3. RunsSound'
    BY DEF GracefulEnd
  <1>4. HandlesSound'
    BY DEF GracefulEnd
  <1>5. Tracked'
    BY DEF GracefulEnd, Tracked
  <1>6. CancelReaches'
    BY RunAssumption DEF GracefulEnd, CancelReaches, Tracked
  <1>7. Sole'
    BY DEF GracefulEnd, Sole, Calm, Steady
  <1>8. Owned'
    BY DEF GracefulEnd, Owned
  <1>9. Cancelled'
    BY DEF GracefulEnd, Cancelled
  <1>10. Refused'
    BY DEF GracefulEnd, Refused, Steady
  <1>11. Reported'
    BY DEF GracefulEnd, Reported
  <1> QED
    BY <1>1, <1>2, <1>3, <1>4, <1>5, <1>6, <1>7, <1>8, <1>9, <1>10, <1>11

\* The run it waited for is aborted.
LEMMA GraceOverInv ==
    ASSUME JobInv, GraceOver
    PROVE  JobInv'
  <1> USE DEF JobInv, TypeOK, OpSound, RunsSound, HandlesSound
  <1>1. TypeOK'
    BY DEF GraceOver
  <1>2. OpSound'
    BY DEF GraceOver
  <1>3. RunsSound'
    BY DEF GraceOver
  <1>4. HandlesSound'
    BY DEF GraceOver
  <1>5. Tracked'
    BY DEF GraceOver, Tracked
  <1>6. CancelReaches'
    BY RunAssumption DEF GraceOver, CancelReaches, Tracked
  <1>7. Sole'
    BY DEF GraceOver, Sole, Calm, Steady
  <1>8. Owned'
    BY DEF GraceOver, Owned
  <1>9. Cancelled'
    BY DEF GraceOver, Cancelled
  <1>10. Refused'
    BY DEF GraceOver, Refused, Steady
  <1>11. Reported'
    BY DEF GraceOver, Reported
  <1> QED
    BY <1>1, <1>2, <1>3, <1>4, <1>5, <1>6, <1>7, <1>8, <1>9, <1>10, <1>11

\* The sessions that were running are cancelled, or the job is on record.
LEMMA CancelSessionsInv ==
    ASSUME JobInv, CancelSessions
    PROVE  JobInv'
  <1> USE DEF JobInv, TypeOK, OpSound, RunsSound, HandlesSound
  <1>1. TypeOK'
    <2>1. op' \in [at : Stage \cup {"none"}, job : Job \cup {NoJob}, run : Run \cup {0}, deleting : BOOLEAN]
      <3>1. CASE op' = [op EXCEPT !.at = "runtime"]
        BY <3>1
      <3>2. CASE op' = NoOp
        BY <3>2
      <3> QED
        BY <3>1, <3>2 DEF CancelSessions
    <2>2. session' \in [Run -> Status \cup {"none"}]
      BY DEF CancelSessions
    <2>3. stuck' \subseteq Job /\ faults' \in 0..MaxFaults
      BY FaultAssumption DEF CancelSessions
    <2> QED
      BY <2>1, <2>2, <2>3 DEF CancelSessions
  <1>2. OpSound'
    BY DEF CancelSessions
  <1>3. RunsSound'
    BY DEF CancelSessions
  <1>4. HandlesSound'
    BY DEF CancelSessions
  <1>5. Tracked'
    BY DEF CancelSessions, Tracked
  <1>6. CancelReaches'
    BY DEF CancelSessions, CancelReaches
  <1>7. Sole'
    BY DEF CancelSessions, Sole, Calm, Steady
  <1>8. Owned'
    BY DEF CancelSessions, Owned
  <1>9. Cancelled'
    BY DEF CancelSessions, Cancelled
  <1>10. Refused'
    BY DEF CancelSessions, Refused, Steady
  <1>11. Reported'
    BY DEF CancelSessions, Reported
  <1> QED
    BY <1>1, <1>2, <1>3, <1>4, <1>5, <1>6, <1>7, <1>8, <1>9, <1>10, <1>11

\* The runtime is freed; no run of the job is at work.
LEMMA CancelRuntimeInv ==
    ASSUME JobInv, CancelRuntime
    PROVE  JobInv'
  <1> USE DEF JobInv, TypeOK, OpSound, RunsSound, HandlesSound
  <1>1. TypeOK'
    BY DEF CancelRuntime
  <1>2. OpSound'
    BY DEF CancelRuntime
  <1>3. RunsSound'
    BY DEF CancelRuntime
  <1>4. HandlesSound'
    BY DEF CancelRuntime
  <1>5. Tracked'
    BY DEF CancelRuntime, Tracked
  <1>6. CancelReaches'
    BY DEF CancelRuntime, CancelReaches
  <1>7. Sole'
    BY DEF CancelRuntime, Sole, Calm, Steady, CancelReaches
  <1>8. Owned'
    BY DEF CancelRuntime, Owned, Cancelled
  <1>9. Cancelled'
    BY DEF CancelRuntime, Cancelled
  <1>10. Refused'
    BY DEF CancelRuntime, Refused, Steady
  <1>11. Reported'
    BY DEF CancelRuntime, Reported
  <1> QED
    BY <1>1, <1>2, <1>3, <1>4, <1>5, <1>6, <1>7, <1>8, <1>9, <1>10, <1>11

\* The row of the job goes, or stays.
LEMMA DeleteJobRowInv ==
    ASSUME JobInv, DeleteJobRow
    PROVE  JobInv'
  <1> USE DEF JobInv, TypeOK, OpSound, RunsSound, HandlesSound
  <1>1. TypeOK'
    BY DEF DeleteJobRow
  <1>2. OpSound'
    BY DEF DeleteJobRow
  <1>3. RunsSound'
    BY DEF DeleteJobRow
  <1>4. HandlesSound'
    BY DEF DeleteJobRow
  <1>5. Tracked'
    BY DEF DeleteJobRow, Tracked
  <1>6. CancelReaches'
    BY DEF DeleteJobRow, CancelReaches
  <1>7. Sole'
    BY DEF DeleteJobRow, Sole, Calm, Steady
  <1>8. Owned'
    BY DEF DeleteJobRow, Owned
  <1>9. Cancelled'
    BY DEF DeleteJobRow, Cancelled
  <1>10. Refused'
    BY DEF DeleteJobRow, Refused, Steady
  <1>11. Reported'
    BY DEF DeleteJobRow, Reported
  <1> QED
    BY <1>1, <1>2, <1>3, <1>4, <1>5, <1>6, <1>7, <1>8, <1>9, <1>10, <1>11

\* The runtime of a deleted job goes.
LEMMA DropRuntimeInv ==
    ASSUME JobInv, DropRuntime
    PROVE  JobInv'
  <1> USE DEF JobInv, TypeOK, OpSound, RunsSound, HandlesSound
  <1>1. TypeOK'
    BY DEF DropRuntime
  <1>2. OpSound'
    BY DEF DropRuntime
  <1>3. RunsSound'
    BY DEF DropRuntime
  <1>4. HandlesSound'
    BY DEF DropRuntime
  <1>5. Tracked'
    BY DEF DropRuntime, Tracked
  <1>6. CancelReaches'
    BY DEF DropRuntime, CancelReaches
  <1>7. Sole'
    BY DEF DropRuntime, Sole, Calm, Steady, CancelReaches
  <1>8. Owned'
    BY DEF DropRuntime, Owned
  <1>9. Cancelled'
    BY DEF DropRuntime, Cancelled
  <1>10. Refused'
    BY DEF DropRuntime, Refused, Steady
  <1>11. Reported'
    BY DEF DropRuntime, Reported
  <1> QED
    BY <1>1, <1>2, <1>3, <1>4, <1>5, <1>6, <1>7, <1>8, <1>9, <1>10, <1>11

\* A request that is dropped puts on record what it had in hand.
LEMMA CallerGoneInv ==
    ASSUME JobInv, CallerGone
    PROVE  JobInv'
  <1> USE DEF JobInv, TypeOK, OpSound, RunsSound, HandlesSound
  <1>1. TypeOK'
    <2>1. stuck' \subseteq Job /\ unreachable' \subseteq Run
      BY DEF CallerGone
    <2>2. op' \in [at : Stage \cup {"none"}, job : Job \cup {NoJob}, run : Run \cup {0}, deleting : BOOLEAN]
      BY DEF CallerGone
    <2>3. faults' \in 0..MaxFaults
      BY FaultAssumption DEF CallerGone
    <2> QED
      BY <2>1, <2>2, <2>3 DEF CallerGone
  <1>2. OpSound'
    BY DEF CallerGone
  <1>3. RunsSound'
    BY DEF CallerGone
  <1>4. HandlesSound'
    BY DEF CallerGone
  <1>5. Tracked'
    BY DEF CallerGone, Tracked
  <1>6. CancelReaches'
    BY DEF CallerGone, CancelReaches
  <1>7. Sole'
    BY DEF CallerGone, Sole, Calm, Steady
  <1>8. Owned'
    BY DEF CallerGone, Owned
  <1>9. Cancelled'
    BY DEF CallerGone, Cancelled
  <1>10. Refused'
    BY DEF CallerGone, Refused, Steady
  <1>11. Reported'
    BY DEF CallerGone, Reported
  <1> QED
    BY <1>1, <1>2, <1>3, <1>4, <1>5, <1>6, <1>7, <1>8, <1>9, <1>10, <1>11
-----------------------------------------------------------------------------
(* Runs. *)

\* A run that gets on with its work stays what it was to the others.
LEMMA AdvanceInv ==
    ASSUME JobInv, NEW r \in Run, Advance(r)
    PROVE  JobInv'
  <1> USE DEF JobInv, TypeOK, OpSound, RunsSound, HandlesSound
  <1>1. TypeOK'
    BY DEF Advance
  <1>2. OpSound'
    BY DEF Advance
  <1>3. RunsSound'
    BY DEF Advance
  <1>4. HandlesSound'
    BY DEF Advance
  <1>5. Tracked'
    BY DEF Advance, Tracked
  <1>6. CancelReaches'
    BY DEF Advance, CancelReaches
  <1>7. Sole'
    BY DEF Advance, Sole, Calm, Steady
  <1>8. Owned'
    BY DEF Advance, Owned
  <1>9. Cancelled'
    BY DEF Advance, Cancelled
  <1>10. Refused'
    BY DEF Advance, Refused, Steady
  <1>11. Reported'
    BY DEF Advance, Reported
  <1> QED
    BY <1>1, <1>2, <1>3, <1>4, <1>5, <1>6, <1>7, <1>8, <1>9, <1>10, <1>11

\* A run reports, or its job is on record.
LEMMA ReportInv ==
    ASSUME JobInv, NEW r \in Run, Report(r)
    PROVE  JobInv'
  <1> USE DEF JobInv, TypeOK, OpSound, RunsSound, HandlesSound
  <1>1. TypeOK'
    BY FaultAssumption DEF Report
  <1>2. OpSound'
    <2>1. op.at \in {"token", "spawn"} => op.run # r
      BY DEF Report
    <2> QED
      BY <2>1 DEF Report
  <1>3. RunsSound'
    BY DEF Report
  <1>4. HandlesSound'
    BY DEF Report
  <1>5. Tracked'
    BY DEF Report, Tracked
  <1>6. CancelReaches'
    BY DEF Report, CancelReaches
  <1>7. Sole'
    BY DEF Report, Sole, Calm, Steady
  <1>8. Owned'
    BY DEF Report, Owned
  <1>9. Cancelled'
    BY DEF Report, Cancelled
  <1>10. Refused'
    BY DEF Report, Refused, Steady
  <1>11. Reported'
    BY DEF Report, Reported
  <1> QED
    BY <1>1, <1>2, <1>3, <1>4, <1>5, <1>6, <1>7, <1>8, <1>9, <1>10, <1>11

\* It frees the runtime, which stood for no other run.
LEMMA FinishRuntimeInv ==
    ASSUME JobInv, NEW r \in Run, FinishRuntime(r)
    PROVE  JobInv'
  <1> USE DEF JobInv, TypeOK, OpSound, RunsSound, HandlesSound
  <1>1. TypeOK'
    BY DEF FinishRuntime
  <1>2. OpSound'
    BY DEF FinishRuntime
  <1>3. RunsSound'
    BY DEF FinishRuntime
  <1>4. HandlesSound'
    BY DEF FinishRuntime
  <1>5. Tracked'
    BY DEF FinishRuntime, Tracked
  <1>6. CancelReaches'
    BY DEF FinishRuntime, CancelReaches
  <1>7. Sole'
    <2> SUFFICES ASSUME NEW j \in Job, Calm(j)
                 PROVE  /\ Steady(j)' # {} => runtime'[j] = "running"
                        /\ op.job = j /\ op.at \in {"session", "token", "spawn"}
                              => runtime'[j] = "running" /\ Steady(j)' = {}
                        /\ op.job = j /\ op.at = "handle" => Steady(j)' \subseteq {op.run}
      BY DEF FinishRuntime, Sole, Calm
    <2>1. Steady(j)' = Steady(j) \ {r}
      BY DEF FinishRuntime, Steady
    <2>2. CASE jobOf[r] # j
      <3>1. runtime'[j] = runtime[j]
        BY <2>2 DEF FinishRuntime
      <3> QED
        BY <2>1, <3>1 DEF Sole
    <2>3. CASE jobOf[r] = j
      <3>1. r \in Steady(j)
        BY <2>3 DEF FinishRuntime, Steady
      <3>2. Steady(j) = {r}
        BY <3>1, OneSteady
      <3>3. Steady(j)' = {}
        BY <2>1, <3>2
      <3>4. ~(op.job = j /\ op.at \in {"session", "token", "spawn"})
        BY <3>1 DEF Sole
      <3> QED
        BY <3>3, <3>4
    <2> QED
      BY <2>2, <2>3
  <1>8. Owned'
    BY DEF FinishRuntime, Owned
  <1>9. Cancelled'
    BY DEF FinishRuntime, Cancelled
  <1>10. Refused'
    BY DEF FinishRuntime, Refused, Steady
  <1>11. Reported'
    BY DEF FinishRuntime, Reported
  <1> QED
    BY <1>1, <1>2, <1>3, <1>4, <1>5, <1>6, <1>7, <1>8, <1>9, <1>10, <1>11

\* It frees the handle; another run whose handle it was is put on record.
LEMMA FinishHandleInv ==
    ASSUME JobInv, NEW r \in Run, FinishHandle(r)
    PROVE  JobInv'
  <1> USE DEF JobInv, TypeOK, OpSound, RunsSound, HandlesSound
  <1>1. TypeOK'
    <2>1. jobOf[r] \in Job
      BY DEF FinishHandle
    <2>2. handle' \in [Job -> Run \cup {0}] /\ unreachable' \subseteq Run /\ phase' \in [Run -> Phase]
      BY <2>1 DEF FinishHandle
    <2> QED
      BY <2>2 DEF FinishHandle
  <1>2. OpSound'
    BY DEF FinishHandle
  <1>3. RunsSound'
    BY DEF FinishHandle
  <1>4. HandlesSound'
    BY DEF FinishHandle
  <1>5. Tracked'
    BY DEF FinishHandle, Tracked
  <1>6. CancelReaches'
    BY DEF FinishHandle, CancelReaches
  <1>7. Sole'
    BY DEF FinishHandle, Sole, Calm, Steady
  <1>8. Owned'
    BY DEF FinishHandle, Owned
  <1>9. Cancelled'
    BY DEF FinishHandle, Cancelled
  <1>10. Refused'
    BY DEF FinishHandle, Refused, Steady
  <1>11. Reported'
    BY DEF FinishHandle, Reported
  <1> QED
    BY <1>1, <1>2, <1>3, <1>4, <1>5, <1>6, <1>7, <1>8, <1>9, <1>10, <1>11

\* It frees the token.
LEMMA FinishTokenInv ==
    ASSUME JobInv, NEW r \in Run, FinishToken(r)
    PROVE  JobInv'
  <1> USE DEF JobInv, TypeOK, OpSound, RunsSound, HandlesSound
  <1>1. TypeOK'
    <2>1. jobOf[r] \in Job
      BY DEF FinishToken
    <2>2. token' \in [Job -> Run \cup {0}] /\ unreachable' \subseteq Run /\ phase' \in [Run -> Phase]
      BY <2>1 DEF FinishToken
    <2>3. /\ outcome' \in [Run -> Status \cup {"none"}] /\ fired' \subseteq Run
          /\ \A q \in Run : phase'[q] \in {"remove", "report", "finRuntime"} => outcome'[q] # "none"
      BY DEF FinishToken
    <2> QED
      BY <2>2, <2>3 DEF FinishToken
  <1>2. OpSound'
    BY DEF FinishToken
  <1>3. RunsSound'
    BY DEF FinishToken
  <1>4. HandlesSound'
    BY DEF FinishToken
  <1>5. Tracked'
    BY DEF FinishToken, Tracked
  <1>6. CancelReaches'
    BY DEF FinishToken, CancelReaches
  <1>7. Sole'
    BY DEF FinishToken, Sole, Calm, Steady
  <1>8. Owned'
    BY DEF FinishToken, Owned
  <1>9. Cancelled'
    BY DEF FinishToken, Cancelled
  <1>10. Refused'
    BY DEF FinishToken, Refused, Steady
  <1>11. Reported'
    BY DEF FinishToken, Reported
  <1> QED
    BY <1>1, <1>2, <1>3, <1>4, <1>5, <1>6, <1>7, <1>8, <1>9, <1>10, <1>11

\* An aborted run is dropped.
LEMMA DieInv ==
    ASSUME JobInv, NEW r \in Run, Die(r)
    PROVE  JobInv'
  <1> USE DEF JobInv, TypeOK, OpSound, RunsSound, HandlesSound
  <1>1. TypeOK'
    BY DEF Die
  <1>2. OpSound'
    <2>1. op.at \in {"token", "spawn"} => op.run # r
      BY DEF Die
    <2>2. \A q \in Run \ {r} : session'[q] = session[q]
      BY DEF Die
    <2> QED
      BY <2>1, <2>2 DEF Die
  <1>3. RunsSound'
    BY DEF Die
  <1>4. HandlesSound'
    BY DEF Die
  <1>5. Tracked'
    BY DEF Die, Tracked
  <1>6. CancelReaches'
    BY DEF Die, CancelReaches
  <1>7. Sole'
    BY DEF Die, Sole, Calm, Steady
  <1>8. Owned'
    BY DEF Die, Owned
  <1>9. Cancelled'
    BY DEF Die, Cancelled
  <1>10. Refused'
    BY DEF Die, Refused, Steady
  <1>11. Reported'
    BY DEF Die, Reported
  <1> QED
    BY <1>1, <1>2, <1>3, <1>4, <1>5, <1>6, <1>7, <1>8, <1>9, <1>10, <1>11
-----------------------------------------------------------------------------
(* The daemon. *)

\* A crash leaves no run at work.
LEMMA CrashInv ==
    ASSUME JobInv, Crash
    PROVE  JobInv'
  <1> USE DEF JobInv, TypeOK, OpSound, RunsSound, HandlesSound
  <1>1. TypeOK'
    BY FaultAssumption DEF Crash
  <1>2. OpSound'
    BY DEF Crash
  <1>3. RunsSound'
    BY DEF Crash
  <1>4. HandlesSound'
    BY DEF Crash
  <1>5. Tracked'
    BY DEF Crash, Tracked
  <1>6. CancelReaches'
    BY DEF Crash, CancelReaches
  <1>7. Sole'
    BY DEF Crash, Sole, Calm, Steady
  <1>8. Owned'
    BY DEF Crash, Owned
  <1>9. Cancelled'
    BY DEF Crash, Cancelled
  <1>10. Refused'
    BY DEF Crash, Refused, Steady
  <1>11. Reported'
    BY DEF Crash, Reported
  <1> QED
    BY <1>1, <1>2, <1>3, <1>4, <1>5, <1>6, <1>7, <1>8, <1>9, <1>10, <1>11

\* The daemon starts again.
LEMMA BootInv ==
    ASSUME JobInv, Boot
    PROVE  JobInv'
  <1> USE DEF JobInv, TypeOK, OpSound, RunsSound, HandlesSound
  <1>1. TypeOK'
    BY DEF Boot
  <1>2. OpSound'
    BY DEF Boot
  <1>3. RunsSound'
    BY DEF Boot
  <1>4. HandlesSound'
    BY DEF Boot
  <1>5. Tracked'
    BY DEF Boot, Tracked
  <1>6. CancelReaches'
    BY DEF Boot, CancelReaches
  <1>7. Sole'
    BY DEF Boot, Sole, Calm, Steady
  <1>8. Owned'
    BY DEF Boot, Owned
  <1>9. Cancelled'
    BY DEF Boot, Cancelled
  <1>10. Refused'
    BY DEF Boot, Refused, Steady
  <1>11. Reported'
    BY DEF Boot, Reported
  <1> QED
    BY <1>1, <1>2, <1>3, <1>4, <1>5, <1>6, <1>7, <1>8, <1>9, <1>10, <1>11

\* The restart fails every running session and puts the runs that were let in before on record.
LEMMA ReconcileStartupInv ==
    ASSUME JobInv, ReconcileStartup
    PROVE  JobInv'
  <1> USE DEF JobInv, TypeOK, OpSound, RunsSound, HandlesSound
  <1>1. TypeOK'
    BY FaultAssumption DEF ReconcileStartup
  <1>2. OpSound'
    BY DEF ReconcileStartup
  <1>3. RunsSound'
    BY DEF ReconcileStartup
  <1>4. HandlesSound'
    BY DEF ReconcileStartup
  <1>5. Tracked'
    BY DEF ReconcileStartup, Tracked
  <1>6. CancelReaches'
    BY DEF ReconcileStartup, CancelReaches
  <1>7. Sole'
    BY DEF ReconcileStartup, Sole, Calm, Steady
  <1>8. Owned'
    BY DEF ReconcileStartup, Owned
  <1>9. Cancelled'
    BY DEF ReconcileStartup, Cancelled
  <1>10. Refused'
    BY DEF ReconcileStartup, Refused, Steady
  <1>11. Reported'
    BY DEF ReconcileStartup, Reported
  <1> QED
    BY <1>1, <1>2, <1>3, <1>4, <1>5, <1>6, <1>7, <1>8, <1>9, <1>10, <1>11
-----------------------------------------------------------------------------
\* The steps of a run before its report are advances.
LEMMA Advances ==
    ASSUME JobInv, NEW r \in Run,
           CheckToken(r) \/ CreateSnapshot(r) \/ NextDisk(r) \/ Read(r) \/ RemoveSnapshot(r)
    PROVE  Advance(r)
  <1> USE DEF JobInv, TypeOK, RunsSound
  <1>0. outcome = [outcome EXCEPT ![r] = outcome[r]] /\ outcome[r] \in {"none", "completed", "failed", "cancelled"}
    OBVIOUS
  <1>1. CASE CheckToken(r)
    BY <1>0, <1>1 DEF CheckToken, Advance
  <1>2. CASE CreateSnapshot(r)
    BY <1>0, <1>2 DEF CreateSnapshot, Advance
  <1>3. CASE NextDisk(r)
    BY <1>0, <1>3 DEF NextDisk, Advance
  <1>4. CASE Read(r)
    BY <1>0, <1>4 DEF Read, Advance
  <1>5. CASE RemoveSnapshot(r)
    BY <1>0, <1>5 DEF RemoveSnapshot, Advance
  <1> QED
    BY <1>1, <1>2, <1>3, <1>4, <1>5

\* A stuttering step.
LEMMA StutterInv ==
    ASSUME JobInv, UNCHANGED vars
    PROVE  JobInv'
  <1> USE DEF JobInv, vars
  <1>1. TypeOK' /\ OpSound' /\ RunsSound' /\ HandlesSound'
    BY DEF TypeOK, OpSound, RunsSound, HandlesSound
  <1>2. Tracked' /\ CancelReaches' /\ Sole'
    BY DEF Tracked, CancelReaches, Sole, Steady, Calm
  <1>3. Owned' /\ Cancelled' /\ Refused' /\ Reported'
    BY DEF Owned, Cancelled, Refused, Reported, Steady
  <1> QED
    BY <1>1, <1>2, <1>3

\* Every step preserves the invariant.
LEMMA JobNext == JobInv /\ [Next]_vars => JobInv'
  <1> SUFFICES ASSUME JobInv, [Next]_vars PROVE JobInv'
    OBVIOUS
  <1>1. CASE Request
    <2>1. ASSUME NEW j \in Job, NEW r \in Run, BeginStart(r, j) PROVE JobInv'
      BY <2>1, BeginStartInv
    <2>2. ASSUME NEW j \in Job, NEW deleting \in BOOLEAN, BeginCancel(j, deleting) PROVE JobInv'
      BY <2>2, BeginCancelInv
    <2> QED
      BY <1>1, <2>1, <2>2, CallerGoneInv DEF Request
  <1>2. CASE OpStep
    BY <1>2, InsertSessionInv, InsertTokenInv, SpawnInv, InsertHandleInv, TakeHandleInv,
       GracefulEndInv, GraceOverInv, CancelSessionsInv, CancelRuntimeInv, DeleteJobRowInv,
       DropRuntimeInv DEF OpStep
  <1>3. ASSUME NEW r \in Run, RunStep(r) PROVE JobInv'
    BY <1>3, Advances, AdvanceInv, ReportInv, FinishRuntimeInv, FinishHandleInv, FinishTokenInv,
       DieInv DEF RunStep
  <1>4. CASE Crash \/ Boot \/ ReconcileStartup
    BY <1>4, CrashInv, BootInv, ReconcileStartupInv
  <1> QED
    BY <1>1, <1>2, <1>3, <1>4, StutterInv DEF Next

\* What is known of every run, request and map in every reachable state.
THEOREM JobInvariant == Spec => []JobInv
  BY JobInit, JobNext, PTL DEF Spec

\* Every reachable state is well typed.
THEOREM TypeCorrect == Spec => []TypeOK
  <1>1. JobInv => TypeOK
    BY DEF JobInv
  <1> QED
    BY <1>1, JobInvariant, PTL

\* A job is backed up by one run at a time.
THEOREM OneRunPerJob == Spec => []ExclusiveRun
  <1>1. JobInv => ExclusiveRun
    <2> SUFFICES ASSUME JobInv, NEW q \in Run, NEW r \in Run, q # r, Working(q), Working(r),
                        jobOf[q] = jobOf[r], {q, r} \cap aborted = {}
                 PROVE  ~Calm(jobOf[r])
      BY DEF ExclusiveRun, Calm
    <2>1. jobOf[r] \in Job
      BY DEF JobInv, RunsSound
    <2>2. q \in Steady(jobOf[r]) /\ r \in Steady(jobOf[r])
      BY DEF Steady
    <2> QED
      BY <2>1, <2>2, OneSteady
  <1> QED
    BY <1>1, JobInvariant, PTL

\* What is shown as running has an owner, and a cancel reaches every run of its job.
THEOREM RunsAreAccounted == Spec => []RunsAccounted
  <1>1. JobInv => RunningSessionOwned
    BY DEF JobInv, TypeOK, Owned, RunningSessionOwned
  <1>2. JobInv => CancelReaches
    BY DEF JobInv
  <1> QED
    BY <1>1, <1>2, JobInvariant, PTL DEF RunsAccounted
-----------------------------------------------------------------------------
(* The snapshots on the hypervisor. *)

\* A step that leaves the snapshots alone.
LEMMA SnappedQuiet ==
    ASSUME JobInv, Snapped, UNCHANGED <<snaps, tried>>, aborted \subseteq aborted',
           \A r \in Run : /\ phase'[r] \in {"create", "disk"} => phase'[r] = phase[r]
                          /\ jobOf[r] # NoJob => jobOf'[r] = jobOf[r]
                          /\ phase[r] \in {"disk", "reading", "remove"} => phase'[r] \in {phase[r], "crashed"}
                          /\ phase[r] = "crashed" => phase'[r] = "crashed"
    PROVE  Snapped'
  BY JobAssumption DEF JobInv, TypeOK, Snapped

LEMMA SnappedNext == JobInv /\ Snapped /\ [Next]_vars => Snapped'
  <1> SUFFICES ASSUME JobInv, Snapped, [Next]_vars PROVE Snapped'
    OBVIOUS
  <1> USE DEF JobInv, TypeOK
  <1>1. CASE Request
    BY <1>1, SnappedQuiet DEF Request, BeginStart, BeginCancel, CallerGone
  <1>2. CASE InsertSession
    BY <1>2, SnappedQuiet DEF InsertSession, OpSound, RunsSound
  <1>3. CASE Spawn
    BY <1>3, SnappedQuiet DEF Spawn, OpSound
  <1>4. CASE OpStep /\ UNCHANGED <<phase, jobOf>>
    <2>1. UNCHANGED <<snaps, tried>> /\ aborted \subseteq aborted'
      BY <1>4 DEF OpStep, InsertSession, InsertToken, Spawn, InsertHandle, TakeHandle, GracefulEnd,
                  GraceOver, CancelSessions, CancelRuntime, DeleteJobRow, DropRuntime
    <2> QED
      BY <1>4, <2>1, SnappedQuiet
  <1>5. ASSUME NEW r \in Run, CheckToken(r) \/ CreateSnapshot(r) PROVE Snapped'
    BY <1>5 DEF CheckToken, CreateSnapshot, Snapped
  <1>6. ASSUME NEW r \in Run, NextDisk(r) PROVE Snapped'
    BY <1>6 DEF NextDisk, Snapped
  <1>7. ASSUME NEW r \in Run, Read(r) PROVE Snapped'
    BY <1>7 DEF Read, Snapped
  <1>8. ASSUME NEW r \in Run, RemoveSnapshot(r) PROVE Snapped'
    BY <1>8 DEF RemoveSnapshot, Snapped
  <1>9. ASSUME NEW r \in Run, Report(r) \/ FinishRuntime(r) \/ FinishHandle(r) \/ FinishToken(r)
        PROVE  Snapped'
    BY <1>9, SnappedQuiet DEF Report, FinishRuntime, FinishHandle, FinishToken
  <1>10. ASSUME NEW r \in Run, Die(r) PROVE Snapped'
    BY <1>10 DEF Die, Snapped
  <1>11. CASE Crash
    BY <1>11, SnappedQuiet DEF Crash
  <1>12. CASE Boot \/ ReconcileStartup \/ UNCHANGED vars
    BY <1>12, SnappedQuiet DEF Boot, ReconcileStartup, vars
  <1>13. CASE OpStep
    <2>1. InsertSession \/ Spawn \/ UNCHANGED <<phase, jobOf>>
      BY <1>13 DEF OpStep, InsertToken, InsertHandle, TakeHandle, GracefulEnd, GraceOver,
                   CancelSessions, CancelRuntime, DeleteJobRow, DropRuntime
    <2> QED
      BY <1>2, <1>3, <1>4, <1>13, <2>1
  <1>14. ASSUME NEW r \in Run, RunStep(r) PROVE Snapped'
    BY <1>5, <1>6, <1>7, <1>8, <1>9, <1>10, <1>14 DEF RunStep
  <1> QED
    BY <1>1, <1>11, <1>12, <1>13, <1>14 DEF Next

\* What a run or a request leaves behind, it leaves because it was cut short.
THEOREM NothingIsLeft == Spec => []NothingLeftBehind
  <1>1. JobInv => RefusalExplained
    BY DEF JobInv, Refused, Steady, RefusalExplained
  <1>2. JobInv /\ Snapped => LeakExplained
    BY DEF JobInv, TypeOK, Snapped, LeakExplained
  <1>3. Spec => []Snapped
    BY JobInit, SnappedNext, JobInvariant, PTL DEF Spec
  <1> QED
    BY <1>1, <1>2, <1>3, JobInvariant, PTL DEF NothingLeftBehind
-----------------------------------------------------------------------------
(* Outcomes. *)

Final(r) == session[r] \in {"completed", "failed"} /\ session'[r] # session[r] => r \in unreachable

LEMMA FinalNext ==
    ASSUME JobInv, [Next]_vars, NEW r \in Run
    PROVE  Final(r)
  <1> USE DEF JobInv, TypeOK, Final
  <1>1. CASE InsertSession
    BY <1>1 DEF InsertSession, OpSound, RunsSound
  <1>2. CASE CancelSessions
    BY <1>2 DEF CancelSessions
  <1>3. ASSUME NEW q \in Run, Report(q) PROVE Final(r)
    BY <1>3 DEF Report, Reported
  <1>4. ASSUME NEW q \in Run, Die(q) PROVE Final(r)
    BY <1>4 DEF Die, Reported
  <1>5. CASE ReconcileStartup
    BY <1>5 DEF ReconcileStartup
  <1>6. CASE UNCHANGED session
    BY <1>6
  <1>7. CASE Request
    BY <1>6, <1>7 DEF Request, BeginStart, BeginCancel, CallerGone
  <1>8. CASE OpStep
    BY <1>1, <1>2, <1>6, <1>8 DEF OpStep, InsertToken, Spawn, InsertHandle, TakeHandle, GracefulEnd,
       GraceOver, CancelRuntime, DeleteJobRow, DropRuntime
  <1>9. ASSUME NEW q \in Run, RunStep(q) PROVE Final(r)
    BY <1>3, <1>4, <1>6, <1>9 DEF RunStep, CheckToken, CreateSnapshot, NextDisk, Read, RemoveSnapshot,
       FinishRuntime, FinishHandle, FinishToken
  <1>10. CASE Crash \/ Boot \/ UNCHANGED vars
    BY <1>6, <1>10 DEF Crash, Boot, vars
  <1> QED
    BY <1>5, <1>7, <1>8, <1>9, <1>10 DEF Next

\* An outcome that was reported is final.
THEOREM OutcomesFinal == Spec => OutcomeFinal
  <1>1. JobInv /\ [Next]_vars => [\A r \in Run : Final(r)]_vars
    BY FinalNext
  <1> QED
    BY <1>1, JobInvariant, PTL DEF Spec, OutcomeFinal, Final
=============================================================================
