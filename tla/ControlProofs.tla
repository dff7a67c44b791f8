--------------------------- MODULE ControlProofs ---------------------------
(***************************************************************************)
(* Safety of the services behind the control plane's routes, each proved   *)
(* for its own specification and for every value of its constants.         *)
(***************************************************************************)
EXTENDS RestorePortal, InstantRecovery, DrFailover, Inventory, Tenants, Sessions, Agents,
        FiniteSetTheorems, SequenceTheorems, TLAPS

(***************************************************************************)
(* The restore request portal.                                             *)
(***************************************************************************)
\* A copy is on its way only while the daemon that took it runs.
CopiesServed == \A c \in copies : c.by \in serving

\* The requests whose submitter was told 201, or is about to be.
Promised == {r \in Req : r \in acked \/ \E c \in copies : r \in c.acks}

\* What was promised and never exposed is known to whoever may write the row.
PromisedKnown ==
    \A r \in Promised \ (exposed \cup unsaved) :
        /\ r \in acked => saved[r] # "none"
        /\ \A c \in copies : c.vec[r] # "none"
        /\ \A n \in serving : requests[n][r] # "none"

\* Who holds a request that no restart has thrown back, and in which status.
VerdictsHeld ==
    \A r \in Req \ forgotten :
        /\ told[r] # "Pending"
        /\ told[r] = "none" => \A n, m \in Portal :
              requests[n][r] # "none" /\ requests[m][r] # "none" => n = m
        /\ \A n \in Portal :
              /\ requests[n][r] = "Pending" => told[r] = "none"
              /\ requests[n][r] = "Approved" => told[r] \in {"Approved", "Completed"}
              /\ told[r] = "none" => requests[n][r] \in {"none", "Pending"}

PortalInv == PortalTypeOK /\ CopiesServed /\ PromisedKnown /\ VerdictsHeld

USE DEF Status, Vector

\* The four verdicts are one write of a vector that is asked for first.
LEMMA PortalVerdict ==
    ASSUME PortalTypeOK, NEW n \in Portal, NEW c \in Caller, NEW r \in Req,
           \/ PortalApprove(n, c, r) \/ PortalReject(n, c, r)
           \/ PortalCancel(n, c, r) \/ PortalComplete(n, c, r)
    PROVE  \E from \in {"Pending", "Approved"}, to \in {"Approved", "Rejected", "Cancelled", "Completed"} :
              /\ Move(n, r, from, to)
              /\ from = "Approved" <=> to = "Completed"
  BY DEF PortalApprove, PortalReject, PortalCancel, PortalComplete

\* Every step of the portal keeps its type.
LEMMA PortalTypeStep ==
    ASSUME PortalTypeOK, PortalNext
    PROVE  PortalTypeOK'
<1>1. ASSUME NEW n \in Portal, NEW readable \in BOOLEAN, PortalBoot(n, readable)
      PROVE  PortalTypeOK'
  BY <1>1, PortalAssumption DEF PortalTypeOK, PortalBoot, NoRequests
<1>2. ASSUME NEW n \in Portal, PortalTick(n)
      PROVE  PortalTypeOK'
  BY <1>2 DEF PortalTypeOK, PortalTick
<1>3. ASSUME NEW n \in Portal, PortalCrash(n)
      PROVE  PortalTypeOK'
  BY <1>3 DEF PortalTypeOK, PortalCrash, NoRequests
<1>4. ASSUME NEW n \in Portal, NEW r \in Req, PortalSubmit(n, r)
      PROVE  PortalTypeOK'
  <2>1. requests' \in [Portal -> Vector]
    BY <1>4 DEF PortalTypeOK, PortalSubmit
  <2>2. copies' \subseteq [by : Portal, vec : Vector, acks : SUBSET Req]
    BY <1>4, <2>1 DEF PortalTypeOK, PortalSubmit
  <2>3. QED
    BY <1>4, <2>1, <2>2 DEF PortalTypeOK, PortalSubmit
<1>5. ASSUME NEW n \in Portal, NEW r \in Req,
             NEW from \in {"Pending", "Approved"},
             NEW to \in {"Approved", "Rejected", "Cancelled", "Completed"},
             Move(n, r, from, to)
      PROVE  PortalTypeOK'
  BY <1>5 DEF PortalTypeOK, Move
<1>6. ASSUME NEW c \in copies, NEW ok \in BOOLEAN, PortalWrite(c, ok)
      PROVE  PortalTypeOK'
  BY <1>6 DEF PortalTypeOK, PortalWrite
<1>7. QED
  BY <1>1, <1>2, <1>3, <1>4, <1>5, <1>6, PortalVerdict DEF PortalNext

\* Every step keeps what whoever may write the row knows.
LEMMA PortalKnownStep ==
    ASSUME PortalInv, PortalNext
    PROVE  CopiesServed' /\ PromisedKnown'
<1> USE DEF PortalInv
<1>1. ASSUME NEW n \in Portal, NEW readable \in BOOLEAN, PortalBoot(n, readable)
      PROVE  CopiesServed' /\ PromisedKnown'
  <2>1. CopiesServed'
    BY <1>1 DEF CopiesServed, PortalBoot
  <2>2. ASSUME NEW r \in Promised \ (exposed' \cup unsaved)
        PROVE  requests'[n][r] # "none"
    <3>1. r \in Req
      BY DEF PortalTypeOK, Promised
    <3>2. CASE r \in acked
      BY <3>1, <3>2, <2>2, <1>1 DEF PortalTypeOK, PromisedKnown, PortalBoot
    <3>3. CASE \E c \in copies : r \in c.acks
      BY <3>1, <3>3, <2>2, <1>1
         DEF PortalTypeOK, PromisedKnown, CopiesServed, PortalBoot, Promised
    <3>4. QED
      BY <3>2, <3>3 DEF Promised
  <2>3. PromisedKnown'
    BY <1>1, <2>2 DEF PortalTypeOK, PromisedKnown, Promised, PortalBoot
  <2>4. QED
    BY <2>1, <2>3
<1>2. ASSUME NEW n \in Portal, PortalTick(n)
      PROVE  CopiesServed' /\ PromisedKnown'
  BY <1>2 DEF PortalTypeOK, PortalTick, CopiesServed, PromisedKnown, Promised
<1>3. ASSUME NEW n \in Portal, PortalCrash(n)
      PROVE  CopiesServed' /\ PromisedKnown'
  BY <1>3 DEF PortalTypeOK, PortalCrash, CopiesServed, PromisedKnown, Promised
<1>4. ASSUME NEW n \in Portal, NEW r \in Req, PortalSubmit(n, r)
      PROVE  CopiesServed' /\ PromisedKnown'
  <2> DEFINE copy == [by |-> n, vec |-> requests'[n], acks |-> {r}]
  <2>0. copies' = copies \cup {copy} /\ copy.by = n /\ copy.acks = {r} /\ copy.vec = requests'[n]
    BY <1>4 DEF PortalSubmit
  <2>1. CopiesServed'
    BY <2>0, <1>4 DEF CopiesServed, PortalSubmit, Fresh
  <2>2. \A q \in Req : requests'[n][q] = IF q = r THEN "Pending" ELSE requests[n][q]
    BY <1>4 DEF PortalTypeOK, PortalSubmit
  <2>3. \A m \in Portal \ {n} : requests'[m] = requests[m]
    BY <1>4 DEF PortalTypeOK, PortalSubmit
  <2>4. Promised' = Promised \cup {r} /\ Promised \subseteq Req
    <3>1. \A q \in Req : q \in Promised' <=> q \in Promised \/ q = r
      BY <2>0, <1>4 DEF PortalSubmit, Promised
    <3>2. QED
      BY <3>1 DEF Promised
  <2>5. ASSUME NEW q \in Promised' \ (exposed' \cup unsaved'), q # r
        PROVE  /\ q \in acked' => saved'[q] # "none"
               /\ \A c \in copies' : c.vec[q] # "none"
               /\ \A m \in serving' : requests'[m][q] # "none"
    <3>1. q \in Promised \ (exposed \cup unsaved)
      BY <2>4, <2>5, <1>4 DEF PortalSubmit
    <3>2. /\ q \in acked => saved[q] # "none"
          /\ \A c \in copies : c.vec[q] # "none"
          /\ \A m \in serving : requests[m][q] # "none"
      BY <3>1 DEF PromisedKnown
    <3>3. requests'[n][q] # "none"
      BY <3>2, <2>2, <2>4, <2>5, <1>4 DEF PortalSubmit, Fresh
    <3>4. QED
      BY <3>2, <3>3, <2>0, <2>3, <1>4 DEF PortalTypeOK, PortalSubmit
  <2>6. ASSUME r \in Promised' \ (exposed' \cup unsaved')
        PROVE  /\ r \in acked' => saved'[r] # "none"
               /\ \A c \in copies' : c.vec[r] # "none"
               /\ \A m \in serving' : requests'[m][r] # "none"
    <3>1. copies = {} /\ serving = {n}
      BY <2>6, <1>4 DEF PortalSubmit
    <3>2. QED
      BY <3>1, <2>0, <2>2, <1>4 DEF PortalSubmit, Fresh
  <2>7. QED
    BY <2>1, <2>5, <2>6 DEF PromisedKnown
<1>5. ASSUME NEW n \in Portal, NEW r \in Req,
             NEW from \in {"Pending", "Approved"},
             NEW to \in {"Approved", "Rejected", "Cancelled", "Completed"},
             Move(n, r, from, to)
      PROVE  CopiesServed' /\ PromisedKnown'
  BY <1>5 DEF PortalTypeOK, Move, CopiesServed, PromisedKnown, Promised
<1>6. ASSUME NEW c \in copies, NEW ok \in BOOLEAN, PortalWrite(c, ok)
      PROVE  CopiesServed' /\ PromisedKnown'
  <2>1. CopiesServed'
    BY <1>6 DEF PortalWrite, CopiesServed
  <2>2. Promised' = Promised
    BY <1>6 DEF PortalWrite, Promised
  <2>3. PromisedKnown'
    BY <1>6, <2>2 DEF PortalTypeOK, PortalWrite, PromisedKnown
  <2>4. QED
    BY <2>1, <2>3
<1>7. QED
  BY <1>1, <1>2, <1>3, <1>4, <1>5, <1>6, PortalVerdict DEF PortalNext

\* Every step keeps what the daemons hold next to what callers were told.
LEMMA PortalVerdictStep ==
    ASSUME PortalInv, PortalNext
    PROVE  VerdictsHeld'
<1> USE DEF PortalInv
<1>1. ASSUME NEW n \in Portal, NEW readable \in BOOLEAN, PortalBoot(n, readable)
      PROVE  VerdictsHeld'
  BY <1>1 DEF PortalTypeOK, PortalBoot, VerdictsHeld
<1>2. ASSUME NEW n \in Portal, PortalTick(n)
      PROVE  VerdictsHeld'
  BY <1>2 DEF PortalTick, VerdictsHeld
<1>3. ASSUME NEW n \in Portal, PortalCrash(n)
      PROVE  VerdictsHeld'
  BY <1>3 DEF PortalTypeOK, PortalCrash, VerdictsHeld, NoRequests
<1>4. ASSUME NEW n \in Portal, NEW r \in Req, PortalSubmit(n, r)
      PROVE  VerdictsHeld'
  BY <1>4 DEF PortalTypeOK, PortalSubmit, Fresh, VerdictsHeld
<1>5. ASSUME NEW n \in Portal, NEW r \in Req,
             NEW from \in {"Pending", "Approved"},
             NEW to \in {"Approved", "Rejected", "Cancelled", "Completed"},
             Move(n, r, from, to), from = "Approved" <=> to = "Completed"
      PROVE  VerdictsHeld'
  BY <1>5 DEF PortalTypeOK, Move, VerdictsHeld
<1>6. ASSUME NEW c \in copies, NEW ok \in BOOLEAN, PortalWrite(c, ok)
      PROVE  VerdictsHeld'
  BY <1>6 DEF PortalWrite, VerdictsHeld
<1>7. QED
  BY <1>1, <1>2, <1>3, <1>4, <1>5, <1>6, PortalVerdict DEF PortalNext

\* A step of the portal changes a verdict only along the order of the statuses.
LEMMA VerdictStep ==
    ASSUME PortalInv, PortalNext, NEW r \in Req \ forgotten, told[r] # told'[r]
    PROVE  <<told[r], told'[r]>> \in
            ({"none"} \X {"Approved", "Rejected", "Cancelled"}) \cup {<<"Approved", "Completed">>}
<1> USE DEF PortalInv
<1>1. CASE told' = told
  BY <1>1
<1>2. ASSUME NEW n \in Portal, NEW q \in Req,
             NEW from \in {"Pending", "Approved"},
             NEW to \in {"Approved", "Rejected", "Cancelled", "Completed"},
             Move(n, q, from, to), from = "Approved" <=> to = "Completed"
      PROVE  <<told[r], told'[r]>> \in
            ({"none"} \X {"Approved", "Rejected", "Cancelled"}) \cup {<<"Approved", "Completed">>}
  BY <1>2 DEF PortalTypeOK, Move, VerdictsHeld
<1>3. QED
  BY <1>1, <1>2, PortalVerdict
     DEF PortalNext, PortalBoot, PortalTick, PortalCrash, PortalSubmit, PortalWrite

\* The portal's invariant holds in every state.
THEOREM PortalInvariant == PortalSpec => []PortalInv
<1>1. PortalInit => PortalInv
  BY PortalAssumption
     DEF PortalInit, PortalInv, PortalTypeOK, CopiesServed, PromisedKnown, Promised,
         VerdictsHeld, NoRequests
<1>2. PortalInv /\ [PortalNext]_portalVars => PortalInv'
  <2>1. CASE PortalNext
    BY <2>1, PortalTypeStep, PortalKnownStep, PortalVerdictStep DEF PortalInv
  <2>2. CASE UNCHANGED portalVars
    BY <2>2 DEF portalVars, PortalInv, PortalTypeOK, CopiesServed, PromisedKnown, Promised,
                VerdictsHeld
  <2>3. QED
    BY <2>1, <2>2
<1>3. QED
  BY <1>1, <1>2, PTL DEF PortalSpec

\* restore_requests.rs's "P0 durability": an acknowledged submission stays in
\* the row unless its write failed or another writer did not know it.
THEOREM SubmitStaysDurable == PortalSpec => []SubmitDurable
<1>1. PortalInv => SubmitDurable
  BY DEF PortalInv, PromisedKnown, Promised, SubmitDurable
<1>2. QED
  BY <1>1, PortalInvariant, PTL

\* A verdict a caller was told is only ever followed by the completion of an
\* approved request, for any number of daemons and requests.
THEOREM VerdictsStand == PortalSpec => VerdictStands
<1>1. PortalInv /\ [PortalNext]_portalVars =>
        [\A r \in Req \ forgotten :
           told[r] # told'[r] => <<told[r], told'[r]>> \in
              ({"none"} \X {"Approved", "Rejected", "Cancelled"}) \cup {<<"Approved", "Completed">>}
        ]_portalVars
  BY VerdictStep
<1>2. QED
  BY <1>1, PortalInvariant, PTL DEF PortalSpec, VerdictStands

-----------------------------------------------------------------------------
(***************************************************************************)
(* The sessions of the restore plane.                                      *)
(***************************************************************************)
\* How far a session's task has come when it is served, listed, published
\* and stopped.
SessionOrder ==
    \A s \in RSession :
        /\ task[s] \in {"none", "work", "lab", "start"} =>
              server[s] = "none" /\ migration[s] = "none" /\ s \notin listed
        /\ task[s] \in {"register", "publish"} => s \in listed
        /\ s \in published \/ stopping[s] # "none" =>
              task[s] \in {"started", "boot", "stop", "stopped", "done"}
        /\ stopping[s] # "none" => s \notin published /\ migration[s] # "none"
        /\ stopping[s] = "done" => s \notin listed
        /\ s \in listed => migration[s] # "none"

\* Until a stop has looked for the token, a migration that reads has one.
TokenHeld ==
    \A s \in RSession :
        /\ stopping[s] \in {"none", "token"} /\ migration[s] = "reading" => s \in token
        /\ stopping[s] \in {"drop", "done"} /\ migration[s] = "spawned" => s \in early

\* While the daemon is up nobody but the driver stops a lab's session.
LabHeld ==
    daemon = "up" => \A s \in RSession :
        /\ task[s] \in {"boot", "stop"} => s \in published \cap listed
        /\ task[s] = "stopped" => stopping[s] # "none"
        /\ lab[s] = "Completed" => task[s] = "done" /\ stopping[s] = "done"

RecInv == RecTypeOK /\ SessionOrder /\ TokenHeld /\ LabHeld /\ RecoverySound

\* Every step of the restore plane keeps its type.
LEMMA RecTypeStep ==
    ASSUME RecInv, RecNext
    PROVE  RecTypeOK'
<1> USE DEF RecInv, RecoverySound, TaskPC, Answer, TakesEffect, Step, SetTracker, SetLab,
        SetMigration, SetServer, TakeManager,
        managerVars
<1>1. ASSUME NEW s \in RSession, AskRestore(s)
      PROVE  RecTypeOK'
  BY <1>1 DEF RecTypeOK, AskRestore
<1>2. ASSUME NEW s \in RSession, NEW p \in {"nfs", "iscsi"}, AskRecovery(s, p)
      PROVE  RecTypeOK'
  BY <1>2 DEF RecTypeOK, AskRecovery
<1>3. ASSUME NEW s \in RSession, AskRecoveryVm(s)
      PROVE  RecTypeOK'
  BY <1>3 DEF RecTypeOK, AskRecoveryVm
<1>4. ASSUME NEW s \in RSession, AskLab(s)
      PROVE  RecTypeOK'
  BY <1>4 DEF RecTypeOK, AskLab
<1>5. ASSUME NEW s \in RSession, StopRoute(s)
      PROVE  RecTypeOK'
  BY <1>5 DEF RecTypeOK, StopRoute
<1>6. ASSUME NEW s \in RSession, DrainStop(s)
      PROVE  RecTypeOK'
  BY <1>6 DEF RecTypeOK, DrainStop
<1>7. ASSUME NEW s \in RSession, StartExport(s)
      PROVE  RecTypeOK'
  BY <1>7 DEF RecTypeOK, StartExport
<1>8. ASSUME NEW s \in RSession, StartFails(s)
      PROVE  RecTypeOK'
  BY <1>8 DEF RecTypeOK, StartFails
<1>9. ASSUME NEW s \in RSession, Publish(s)
      PROVE  RecTypeOK'
  BY <1>9 DEF RecTypeOK, Publish
<1>10. ASSUME NEW s \in RSession, Report(s)
      PROVE  RecTypeOK'
  BY <1>10 DEF RecTypeOK, Report
<1>11. ASSUME NEW s \in RSession, BeginMigration(s)
      PROVE  RecTypeOK'
  BY <1>11 DEF RecTypeOK, BeginMigration
<1>12. ASSUME NEW s \in RSession, EndMigration(s)
      PROVE  RecTypeOK'
  BY <1>12 DEF RecTypeOK, EndMigration
<1>13. ASSUME NEW s \in RSession, StopToken(s)
      PROVE  RecTypeOK'
  BY <1>13 DEF RecTypeOK, StopToken
<1>14. ASSUME NEW s \in RSession, LabCreate(s)
      PROVE  RecTypeOK'
  BY <1>14 DEF RecTypeOK, LabCreate
<1>15. ASSUME NEW s \in RSession, LabFails(s)
      PROVE  RecTypeOK'
  BY <1>15 DEF RecTypeOK, LabFails
<1>16. ASSUME NEW s \in RSession, LabTest(s)
      PROVE  RecTypeOK'
  BY <1>16 DEF RecTypeOK, LabTest
<1>17. ASSUME NEW s \in RSession, LabStop(s)
      PROVE  RecTypeOK'
  BY <1>17 DEF RecTypeOK, LabStop
<1>18. ASSUME NEW s \in RSession, LabComplete(s)
      PROVE  RecTypeOK'
  BY <1>18 DEF RecTypeOK, LabComplete
<1>19. ASSUME NEW s \in RSession, NEW ok \in BOOLEAN, FinishRestore(s, ok)
      PROVE  RecTypeOK'
  BY <1>19 DEF RecTypeOK, FinishRestore
<1>20. ASSUME NEW s \in RSession, NEW answer \in Answer, Register(s, answer)
      PROVE  RecTypeOK'
  BY <1>20 DEF RecTypeOK, Register
<1>21. ASSUME NEW s \in RSession, NEW answer \in Answer, StopDrop(s, answer)
      PROVE  RecTypeOK'
  BY <1>21 DEF RecTypeOK, StopDrop
<1>22. ASSUME Drain
      PROVE  RecTypeOK'
  BY <1>22 DEF RecTypeOK, Drain
<1>23. ASSUME Down
      PROVE  RecTypeOK'
  BY <1>23 DEF RecTypeOK, Down
<1>24. ASSUME NEW s \in RSession, Bind(s)
      PROVE  RecTypeOK'
  BY <1>24 DEF RecTypeOK, Bind
<1>25. ASSUME NEW s \in RSession, BindFails(s)
      PROVE  RecTypeOK'
  BY <1>25 DEF RecTypeOK, BindFails
<1>26. ASSUME NEW s \in RSession, AcceptFails(s)
      PROVE  RecTypeOK'
  BY <1>26 DEF RecTypeOK, AcceptFails
<1>27. QED
  BY <1>1, <1>2, <1>3, <1>4, <1>5, <1>6, <1>7, <1>8, <1>9, <1>10, <1>11, <1>12,
     <1>13, <1>14, <1>15, <1>16, <1>17, <1>18, <1>19, <1>20, <1>21, <1>22, <1>23,
     <1>24, <1>25, <1>26
  DEF RecNext, TaskStep

\* Every step keeps the order of a session's stations.
LEMMA RecOrderStep ==
    ASSUME RecInv, RecNext
    PROVE  SessionOrder'
<1> USE DEF RecInv, RecoverySound, TaskPC, Answer, TakesEffect, Step, SetTracker, SetLab,
        SetMigration, SetServer, TakeManager,
        managerVars
<1>1. ASSUME NEW s \in RSession, AskRestore(s)
      PROVE  SessionOrder'
  BY <1>1 DEF RecTypeOK, SessionOrder, AskRestore
<1>2. ASSUME NEW s \in RSession, NEW p \in {"nfs", "iscsi"}, AskRecovery(s, p)
      PROVE  SessionOrder'
  BY <1>2 DEF RecTypeOK, SessionOrder, AskRecovery
<1>3. ASSUME NEW s \in RSession, AskRecoveryVm(s)
      PROVE  SessionOrder'
  BY <1>3 DEF RecTypeOK, SessionOrder, AskRecoveryVm
<1>4. ASSUME NEW s \in RSession, AskLab(s)
      PROVE  SessionOrder'
  BY <1>4 DEF RecTypeOK, SessionOrder, AskLab
<1>5. ASSUME NEW s \in RSession, StopRoute(s)
      PROVE  SessionOrder'
  BY <1>5 DEF RecTypeOK, SessionOrder, StopRoute
<1>6. ASSUME NEW s \in RSession, DrainStop(s)
      PROVE  SessionOrder'
  BY <1>6 DEF RecTypeOK, SessionOrder, DrainStop
<1>7. ASSUME NEW s \in RSession, StartExport(s)
      PROVE  SessionOrder'
  BY <1>7 DEF RecTypeOK, SessionOrder, StartExport
<1>8. ASSUME NEW s \in RSession, StartFails(s)
      PROVE  SessionOrder'
  BY <1>8 DEF RecTypeOK, SessionOrder, StartFails
<1>9. ASSUME NEW s \in RSession, Publish(s)
      PROVE  SessionOrder'
  BY <1>9 DEF RecTypeOK, SessionOrder, Publish
<1>10. ASSUME NEW s \in RSession, Report(s)
      PROVE  SessionOrder'
  BY <1>10 DEF RecTypeOK, SessionOrder, Report
<1>11. ASSUME NEW s \in RSession, BeginMigration(s)
      PROVE  SessionOrder'
  BY <1>11 DEF RecTypeOK, SessionOrder, BeginMigration
<1>12. ASSUME NEW s \in RSession, EndMigration(s)
      PROVE  SessionOrder'
  BY <1>12 DEF RecTypeOK, SessionOrder, EndMigration
<1>13. ASSUME NEW s \in RSession, StopToken(s)
      PROVE  SessionOrder'
  BY <1>13 DEF RecTypeOK, SessionOrder, StopToken
<1>14. ASSUME NEW s \in RSession, LabCreate(s)
      PROVE  SessionOrder'
  BY <1>14 DEF RecTypeOK, SessionOrder, LabCreate
<1>15. ASSUME NEW s \in RSession, LabFails(s)
      PROVE  SessionOrder'
  BY <1>15 DEF RecTypeOK, SessionOrder, LabFails
<1>16. ASSUME NEW s \in RSession, LabTest(s)
      PROVE  SessionOrder'
  BY <1>16 DEF RecTypeOK, SessionOrder, LabTest
<1>17. ASSUME NEW s \in RSession, LabStop(s)
      PROVE  SessionOrder'
  BY <1>17 DEF RecTypeOK, SessionOrder, LabStop
<1>18. ASSUME NEW s \in RSession, LabComplete(s)
      PROVE  SessionOrder'
  BY <1>18 DEF RecTypeOK, SessionOrder, LabComplete
<1>19. ASSUME NEW s \in RSession, NEW ok \in BOOLEAN, FinishRestore(s, ok)
      PROVE  SessionOrder'
  BY <1>19 DEF RecTypeOK, SessionOrder, FinishRestore
<1>20. ASSUME NEW s \in RSession, NEW answer \in Answer, Register(s, answer)
      PROVE  SessionOrder'
  BY <1>20 DEF RecTypeOK, SessionOrder, Register
<1>21. ASSUME NEW s \in RSession, NEW answer \in Answer, StopDrop(s, answer)
      PROVE  SessionOrder'
  BY <1>21 DEF RecTypeOK, SessionOrder, StopDrop
<1>22. ASSUME Drain
      PROVE  SessionOrder'
  BY <1>22 DEF RecTypeOK, SessionOrder, Drain
<1>23. ASSUME Down
      PROVE  SessionOrder'
  BY <1>23 DEF RecTypeOK, SessionOrder, Down
<1>24. ASSUME NEW s \in RSession, Bind(s)
      PROVE  SessionOrder'
  BY <1>24 DEF RecTypeOK, SessionOrder, Bind
<1>25. ASSUME NEW s \in RSession, BindFails(s)
      PROVE  SessionOrder'
  BY <1>25 DEF RecTypeOK, SessionOrder, BindFails
<1>26. ASSUME NEW s \in RSession, AcceptFails(s)
      PROVE  SessionOrder'
  BY <1>26 DEF RecTypeOK, SessionOrder, AcceptFails
<1>27. QED
  BY <1>1, <1>2, <1>3, <1>4, <1>5, <1>6, <1>7, <1>8, <1>9, <1>10, <1>11, <1>12,
     <1>13, <1>14, <1>15, <1>16, <1>17, <1>18, <1>19, <1>20, <1>21, <1>22, <1>23,
     <1>24, <1>25, <1>26
  DEF RecNext, TaskStep

\* Every step keeps the tokens, and what a stop leaves of a migration.
LEMMA RecTokenStep ==
    ASSUME RecInv, RecNext
    PROVE  (TokenHeld /\ MigrationStopped)'
<1> USE DEF RecInv, RecoverySound, TaskPC, Answer, TakesEffect, Step, SetTracker, SetLab,
        SetMigration, SetServer, TakeManager,
        managerVars
<1>1. ASSUME NEW s \in RSession, AskRestore(s)
      PROVE  (TokenHeld /\ MigrationStopped)'
  BY <1>1 DEF RecTypeOK, SessionOrder, TokenHeld, MigrationStopped, AskRestore
<1>2. ASSUME NEW s \in RSession, NEW p \in {"nfs", "iscsi"}, AskRecovery(s, p)
      PROVE  (TokenHeld /\ MigrationStopped)'
  BY <1>2 DEF RecTypeOK, SessionOrder, TokenHeld, MigrationStopped, AskRecovery
<1>3. ASSUME NEW s \in RSession, AskRecoveryVm(s)
      PROVE  (TokenHeld /\ MigrationStopped)'
  BY <1>3 DEF RecTypeOK, SessionOrder, TokenHeld, MigrationStopped, AskRecoveryVm
<1>4. ASSUME NEW s \in RSession, AskLab(s)
      PROVE  (TokenHeld /\ MigrationStopped)'
  BY <1>4 DEF RecTypeOK, SessionOrder, TokenHeld, MigrationStopped, AskLab
<1>5. ASSUME NEW s \in RSession, StopRoute(s)
      PROVE  (TokenHeld /\ MigrationStopped)'
  BY <1>5 DEF RecTypeOK, SessionOrder, TokenHeld, MigrationStopped, StopRoute
<1>6. ASSUME NEW s \in RSession, DrainStop(s)
      PROVE  (TokenHeld /\ MigrationStopped)'
  BY <1>6 DEF RecTypeOK, SessionOrder, TokenHeld, MigrationStopped, DrainStop
<1>7. ASSUME NEW s \in RSession, StartExport(s)
      PROVE  (TokenHeld /\ MigrationStopped)'
  BY <1>7 DEF RecTypeOK, SessionOrder, TokenHeld, MigrationStopped, StartExport
<1>8. ASSUME NEW s \in RSession, StartFails(s)
      PROVE  (TokenHeld /\ MigrationStopped)'
  BY <1>8 DEF RecTypeOK, SessionOrder, TokenHeld, MigrationStopped, StartFails
<1>9. ASSUME NEW s \in RSession, Publish(s)
      PROVE  (TokenHeld /\ MigrationStopped)'
  BY <1>9 DEF RecTypeOK, SessionOrder, TokenHeld, MigrationStopped, Publish
<1>10. ASSUME NEW s \in RSession, Report(s)
      PROVE  (TokenHeld /\ MigrationStopped)'
  BY <1>10 DEF RecTypeOK, SessionOrder, TokenHeld, MigrationStopped, Report
<1>11. ASSUME NEW s \in RSession, BeginMigration(s)
      PROVE  (TokenHeld /\ MigrationStopped)'
  BY <1>11 DEF RecTypeOK, SessionOrder, TokenHeld, MigrationStopped, BeginMigration
<1>12. ASSUME NEW s \in RSession, EndMigration(s)
      PROVE  (TokenHeld /\ MigrationStopped)'
  BY <1>12 DEF RecTypeOK, SessionOrder, TokenHeld, MigrationStopped, EndMigration
<1>13. ASSUME NEW s \in RSession, StopToken(s)
      PROVE  (TokenHeld /\ MigrationStopped)'
  BY <1>13 DEF RecTypeOK, SessionOrder, TokenHeld, MigrationStopped, StopToken
<1>14. ASSUME NEW s \in RSession, LabCreate(s)
      PROVE  (TokenHeld /\ MigrationStopped)'
  BY <1>14 DEF RecTypeOK, SessionOrder, TokenHeld, MigrationStopped, LabCreate
<1>15. ASSUME NEW s \in RSession, LabFails(s)
      PROVE  (TokenHeld /\ MigrationStopped)'
  BY <1>15 DEF RecTypeOK, SessionOrder, TokenHeld, MigrationStopped, LabFails
<1>16. ASSUME NEW s \in RSession, LabTest(s)
      PROVE  (TokenHeld /\ MigrationStopped)'
  BY <1>16 DEF RecTypeOK, SessionOrder, TokenHeld, MigrationStopped, LabTest
<1>17. ASSUME NEW s \in RSession, LabStop(s)
      PROVE  (TokenHeld /\ MigrationStopped)'
  BY <1>17 DEF RecTypeOK, SessionOrder, TokenHeld, MigrationStopped, LabStop
<1>18. ASSUME NEW s \in RSession, LabComplete(s)
      PROVE  (TokenHeld /\ MigrationStopped)'
  BY <1>18 DEF RecTypeOK, SessionOrder, TokenHeld, MigrationStopped, LabComplete
<1>19. ASSUME NEW s \in RSession, NEW ok \in BOOLEAN, FinishRestore(s, ok)
      PROVE  (TokenHeld /\ MigrationStopped)'
  BY <1>19 DEF RecTypeOK, SessionOrder, TokenHeld, MigrationStopped, FinishRestore
<1>20. ASSUME NEW s \in RSession, NEW answer \in Answer, Register(s, answer)
      PROVE  (TokenHeld /\ MigrationStopped)'
  BY <1>20 DEF RecTypeOK, SessionOrder, TokenHeld, MigrationStopped, Register
<1>21. ASSUME NEW s \in RSession, NEW answer \in Answer, StopDrop(s, answer)
      PROVE  (TokenHeld /\ MigrationStopped)'
  BY <1>21 DEF RecTypeOK, SessionOrder, TokenHeld, MigrationStopped, StopDrop
<1>22. ASSUME Drain
      PROVE  (TokenHeld /\ MigrationStopped)'
  BY <1>22 DEF RecTypeOK, SessionOrder, TokenHeld, MigrationStopped, Drain
<1>23. ASSUME Down
      PROVE  (TokenHeld /\ MigrationStopped)'
  BY <1>23 DEF RecTypeOK, SessionOrder, TokenHeld, MigrationStopped, Down
<1>24. ASSUME NEW s \in RSession, Bind(s)
      PROVE  (TokenHeld /\ MigrationStopped)'
  BY <1>24 DEF RecTypeOK, SessionOrder, TokenHeld, MigrationStopped, Bind
<1>25. ASSUME NEW s \in RSession, BindFails(s)
      PROVE  (TokenHeld /\ MigrationStopped)'
  BY <1>25 DEF RecTypeOK, SessionOrder, TokenHeld, MigrationStopped, BindFails
<1>26. ASSUME NEW s \in RSession, AcceptFails(s)
      PROVE  (TokenHeld /\ MigrationStopped)'
  BY <1>26 DEF RecTypeOK, SessionOrder, TokenHeld, MigrationStopped, AcceptFails
<1>27. QED
  BY <1>1, <1>2, <1>3, <1>4, <1>5, <1>6, <1>7, <1>8, <1>9, <1>10, <1>11, <1>12,
     <1>13, <1>14, <1>15, <1>16, <1>17, <1>18, <1>19, <1>20, <1>21, <1>22, <1>23,
     <1>24, <1>25, <1>26
  DEF RecNext, TaskStep

\* Every step keeps what the driver holds, and cleans up.
LEMMA RecLabStep ==
    ASSUME RecInv, RecNext
    PROVE  (LabHeld /\ LabCleanedUp)'
<1> USE DEF RecInv, RecoverySound, TaskPC, Answer, TakesEffect, Step, SetTracker, SetLab,
        SetMigration, SetServer, TakeManager,
        managerVars
<1>1. ASSUME NEW s \in RSession, AskRestore(s)
      PROVE  (LabHeld /\ LabCleanedUp)'
  BY <1>1 DEF RecTypeOK, SessionOrder, LabHeld, LabCleanedUp, AskRestore
<1>2. ASSUME NEW s \in RSession, NEW p \in {"nfs", "iscsi"}, AskRecovery(s, p)
      PROVE  (LabHeld /\ LabCleanedUp)'
  BY <1>2 DEF RecTypeOK, SessionOrder, LabHeld, LabCleanedUp, AskRecovery
<1>3. ASSUME NEW s \in RSession, AskRecoveryVm(s)
      PROVE  (LabHeld /\ LabCleanedUp)'
  BY <1>3 DEF RecTypeOK, SessionOrder, LabHeld, LabCleanedUp, AskRecoveryVm
<1>4. ASSUME NEW s \in RSession, AskLab(s)
      PROVE  (LabHeld /\ LabCleanedUp)'
  BY <1>4 DEF RecTypeOK, SessionOrder, LabHeld, LabCleanedUp, AskLab
<1>5. ASSUME NEW s \in RSession, StopRoute(s)
      PROVE  (LabHeld /\ LabCleanedUp)'
  BY <1>5 DEF RecTypeOK, SessionOrder, LabHeld, LabCleanedUp, StopRoute
<1>6. ASSUME NEW s \in RSession, DrainStop(s)
      PROVE  (LabHeld /\ LabCleanedUp)'
  BY <1>6 DEF RecTypeOK, SessionOrder, LabHeld, LabCleanedUp, DrainStop
<1>7. ASSUME NEW s \in RSession, StartExport(s)
      PROVE  (LabHeld /\ LabCleanedUp)'
  BY <1>7 DEF RecTypeOK, SessionOrder, LabHeld, LabCleanedUp, StartExport
<1>8. ASSUME NEW s \in RSession, StartFails(s)
      PROVE  (LabHeld /\ LabCleanedUp)'
  BY <1>8 DEF RecTypeOK, SessionOrder, LabHeld, LabCleanedUp, StartFails
<1>9. ASSUME NEW s \in RSession, Publish(s)
      PROVE  (LabHeld /\ LabCleanedUp)'
  BY <1>9 DEF RecTypeOK, SessionOrder, LabHeld, LabCleanedUp, Publish
<1>10. ASSUME NEW s \in RSession, Report(s)
      PROVE  (LabHeld /\ LabCleanedUp)'
  BY <1>10 DEF RecTypeOK, SessionOrder, LabHeld, LabCleanedUp, Report
<1>11. ASSUME NEW s \in RSession, BeginMigration(s)
      PROVE  (LabHeld /\ LabCleanedUp)'
  BY <1>11 DEF RecTypeOK, SessionOrder, LabHeld, LabCleanedUp, BeginMigration
<1>12. ASSUME NEW s \in RSession, EndMigration(s)
      PROVE  (LabHeld /\ LabCleanedUp)'
  BY <1>12 DEF RecTypeOK, SessionOrder, LabHeld, LabCleanedUp, EndMigration
<1>13. ASSUME NEW s \in RSession, StopToken(s)
      PROVE  (LabHeld /\ LabCleanedUp)'
  BY <1>13 DEF RecTypeOK, SessionOrder, LabHeld, LabCleanedUp, StopToken
<1>14. ASSUME NEW s \in RSession, LabCreate(s)
      PROVE  (LabHeld /\ LabCleanedUp)'
  BY <1>14 DEF RecTypeOK, SessionOrder, LabHeld, LabCleanedUp, LabCreate
<1>15. ASSUME NEW s \in RSession, LabFails(s)
      PROVE  (LabHeld /\ LabCleanedUp)'
  BY <1>15 DEF RecTypeOK, SessionOrder, LabHeld, LabCleanedUp, LabFails
<1>16. ASSUME NEW s \in RSession, LabTest(s)
      PROVE  (LabHeld /\ LabCleanedUp)'
  BY <1>16 DEF RecTypeOK, SessionOrder, LabHeld, LabCleanedUp, LabTest
<1>17. ASSUME NEW s \in RSession, LabStop(s)
      PROVE  (LabHeld /\ LabCleanedUp)'
  BY <1>17 DEF RecTypeOK, SessionOrder, LabHeld, LabCleanedUp, LabStop
<1>18. ASSUME NEW s \in RSession, LabComplete(s)
      PROVE  (LabHeld /\ LabCleanedUp)'
  BY <1>18 DEF RecTypeOK, SessionOrder, LabHeld, LabCleanedUp, LabComplete
<1>19. ASSUME NEW s \in RSession, NEW ok \in BOOLEAN, FinishRestore(s, ok)
      PROVE  (LabHeld /\ LabCleanedUp)'
  BY <1>19 DEF RecTypeOK, SessionOrder, LabHeld, LabCleanedUp, FinishRestore
<1>20. ASSUME NEW s \in RSession, NEW answer \in Answer, Register(s, answer)
      PROVE  (LabHeld /\ LabCleanedUp)'
  BY <1>20 DEF RecTypeOK, SessionOrder, LabHeld, LabCleanedUp, Register
<1>21. ASSUME NEW s \in RSession, NEW answer \in Answer, StopDrop(s, answer)
      PROVE  (LabHeld /\ LabCleanedUp)'
  BY <1>21 DEF RecTypeOK, SessionOrder, LabHeld, LabCleanedUp, StopDrop
<1>22. ASSUME Drain
      PROVE  (LabHeld /\ LabCleanedUp)'
  BY <1>22 DEF RecTypeOK, SessionOrder, LabHeld, LabCleanedUp, Drain
<1>23. ASSUME Down
      PROVE  (LabHeld /\ LabCleanedUp)'
  BY <1>23 DEF RecTypeOK, SessionOrder, LabHeld, LabCleanedUp, Down
<1>24. ASSUME NEW s \in RSession, Bind(s)
      PROVE  (LabHeld /\ LabCleanedUp)'
  BY <1>24 DEF RecTypeOK, SessionOrder, LabHeld, LabCleanedUp, Bind
<1>25. ASSUME NEW s \in RSession, BindFails(s)
      PROVE  (LabHeld /\ LabCleanedUp)'
  BY <1>25 DEF RecTypeOK, SessionOrder, LabHeld, LabCleanedUp, BindFails
<1>26. ASSUME NEW s \in RSession, AcceptFails(s)
      PROVE  (LabHeld /\ LabCleanedUp)'
  BY <1>26 DEF RecTypeOK, SessionOrder, LabHeld, LabCleanedUp, AcceptFails
<1>27. QED
  BY <1>1, <1>2, <1>3, <1>4, <1>5, <1>6, <1>7, <1>8, <1>9, <1>10, <1>11, <1>12,
     <1>13, <1>14, <1>15, <1>16, <1>17, <1>18, <1>19, <1>20, <1>21, <1>22, <1>23,
     <1>24, <1>25, <1>26
  DEF RecNext, TaskStep

\* Every step keeps servers and VMs explained.
LEMMA RecServerStep ==
    ASSUME RecInv, RecNext
    PROVE  (UnservedExplained /\ OrphanVmExplained)'
<1> USE DEF RecInv, RecoverySound, TaskPC, Answer, TakesEffect, Step, SetTracker, SetLab,
        SetMigration, SetServer, TakeManager,
        managerVars
<1>1. ASSUME NEW s \in RSession, AskRestore(s)
      PROVE  (UnservedExplained /\ OrphanVmExplained)'
  BY <1>1 DEF RecTypeOK, SessionOrder, UnservedExplained, OrphanVmExplained, Port, PortTaken, AskRestore
<1>2. ASSUME NEW s \in RSession, NEW p \in {"nfs", "iscsi"}, AskRecovery(s, p)
      PROVE  (UnservedExplained /\ OrphanVmExplained)'
  BY <1>2 DEF RecTypeOK, SessionOrder, UnservedExplained, OrphanVmExplained, Port, PortTaken, AskRecovery
<1>3. ASSUME NEW s \in RSession, AskRecoveryVm(s)
      PROVE  (UnservedExplained /\ OrphanVmExplained)'
  BY <1>3 DEF RecTypeOK, SessionOrder, UnservedExplained, OrphanVmExplained, Port, PortTaken, AskRecoveryVm
<1>4. ASSUME NEW s \in RSession, AskLab(s)
      PROVE  (UnservedExplained /\ OrphanVmExplained)'
  BY <1>4 DEF RecTypeOK, SessionOrder, UnservedExplained, OrphanVmExplained, Port, PortTaken, AskLab
<1>5. ASSUME NEW s \in RSession, StopRoute(s)
      PROVE  (UnservedExplained /\ OrphanVmExplained)'
  BY <1>5 DEF RecTypeOK, SessionOrder, UnservedExplained, OrphanVmExplained, Port, PortTaken, StopRoute
<1>6. ASSUME NEW s \in RSession, DrainStop(s)
      PROVE  (UnservedExplained /\ OrphanVmExplained)'
  BY <1>6 DEF RecTypeOK, SessionOrder, UnservedExplained, OrphanVmExplained, Port, PortTaken, DrainStop
<1>7. ASSUME NEW s \in RSession, StartExport(s)
      PROVE  (UnservedExplained /\ OrphanVmExplained)'
  BY <1>7 DEF RecTypeOK, SessionOrder, UnservedExplained, OrphanVmExplained, Port, PortTaken, StartExport
<1>8. ASSUME NEW s \in RSession, StartFails(s)
      PROVE  (UnservedExplained /\ OrphanVmExplained)'
  BY <1>8 DEF RecTypeOK, SessionOrder, UnservedExplained, OrphanVmExplained, Port, PortTaken, StartFails
<1>9. ASSUME NEW s \in RSession, Publish(s)
      PROVE  (UnservedExplained /\ OrphanVmExplained)'
  BY <1>9 DEF RecTypeOK, SessionOrder, UnservedExplained, OrphanVmExplained, Port, PortTaken, Publish
<1>10. ASSUME NEW s \in RSession, Report(s)
      PROVE  (UnservedExplained /\ OrphanVmExplained)'
  BY <1>10 DEF RecTypeOK, SessionOrder, UnservedExplained, OrphanVmExplained, Port, PortTaken, Report
<1>11. ASSUME NEW s \in RSession, BeginMigration(s)
      PROVE  (UnservedExplained /\ OrphanVmExplained)'
  BY <1>11 DEF RecTypeOK, SessionOrder, UnservedExplained, OrphanVmExplained, Port, PortTaken, BeginMigration
<1>12. ASSUME NEW s \in RSession, EndMigration(s)
      PROVE  (UnservedExplained /\ OrphanVmExplained)'
  BY <1>12 DEF RecTypeOK, SessionOrder, UnservedExplained, OrphanVmExplained, Port, PortTaken, EndMigration
<1>13. ASSUME NEW s \in RSession, StopToken(s)
      PROVE  (UnservedExplained /\ OrphanVmExplained)'
  BY <1>13 DEF RecTypeOK, SessionOrder, UnservedExplained, OrphanVmExplained, Port, PortTaken, StopToken
<1>14. ASSUME NEW s \in RSession, LabCreate(s)
      PROVE  (UnservedExplained /\ OrphanVmExplained)'
  BY <1>14 DEF RecTypeOK, SessionOrder, UnservedExplained, OrphanVmExplained, Port, PortTaken, LabCreate
<1>15. ASSUME NEW s \in RSession, LabFails(s)
      PROVE  (UnservedExplained /\ OrphanVmExplained)'
  BY <1>15 DEF RecTypeOK, SessionOrder, UnservedExplained, OrphanVmExplained, Port, PortTaken, LabFails
<1>16. ASSUME NEW s \in RSession, LabTest(s)
      PROVE  (UnservedExplained /\ OrphanVmExplained)'
  BY <1>16 DEF RecTypeOK, SessionOrder, UnservedExplained, OrphanVmExplained, Port, PortTaken, LabTest
<1>17. ASSUME NEW s \in RSession, LabStop(s)
      PROVE  (UnservedExplained /\ OrphanVmExplained)'
  BY <1>17 DEF RecTypeOK, SessionOrder, UnservedExplained, OrphanVmExplained, Port, PortTaken, LabStop
<1>18. ASSUME NEW s \in RSession, LabComplete(s)
      PROVE  (UnservedExplained /\ OrphanVmExplained)'
  BY <1>18 DEF RecTypeOK, SessionOrder, UnservedExplained, OrphanVmExplained, Port, PortTaken, LabComplete
<1>19. ASSUME NEW s \in RSession, NEW ok \in BOOLEAN, FinishRestore(s, ok)
      PROVE  (UnservedExplained /\ OrphanVmExplained)'
  BY <1>19 DEF RecTypeOK, SessionOrder, UnservedExplained, OrphanVmExplained, Port, PortTaken, FinishRestore
<1>20. ASSUME NEW s \in RSession, NEW answer \in Answer, Register(s, answer)
      PROVE  (UnservedExplained /\ OrphanVmExplained)'
  BY <1>20 DEF RecTypeOK, SessionOrder, UnservedExplained, OrphanVmExplained, Port, PortTaken, Register
<1>21. ASSUME NEW s \in RSession, NEW answer \in Answer, StopDrop(s, answer)
      PROVE  (UnservedExplained /\ OrphanVmExplained)'
  BY <1>21 DEF RecTypeOK, SessionOrder, UnservedExplained, OrphanVmExplained, Port, PortTaken, StopDrop
<1>22. ASSUME Drain
      PROVE  (UnservedExplained /\ OrphanVmExplained)'
  BY <1>22 DEF RecTypeOK, SessionOrder, UnservedExplained, OrphanVmExplained, Port, PortTaken, Drain
<1>23. ASSUME Down
      PROVE  (UnservedExplained /\ OrphanVmExplained)'
  BY <1>23 DEF RecTypeOK, SessionOrder, UnservedExplained, OrphanVmExplained, Port, PortTaken, Down
<1>24. ASSUME NEW s \in RSession, Bind(s)
      PROVE  (UnservedExplained /\ OrphanVmExplained)'
  BY <1>24 DEF RecTypeOK, SessionOrder, UnservedExplained, OrphanVmExplained, Port, PortTaken, Bind
<1>25. ASSUME NEW s \in RSession, BindFails(s)
      PROVE  (UnservedExplained /\ OrphanVmExplained)'
  BY <1>25 DEF RecTypeOK, SessionOrder, UnservedExplained, OrphanVmExplained, Port, PortTaken, BindFails
<1>26. ASSUME NEW s \in RSession, AcceptFails(s)
      PROVE  (UnservedExplained /\ OrphanVmExplained)'
  BY <1>26 DEF RecTypeOK, SessionOrder, UnservedExplained, OrphanVmExplained, Port, PortTaken, AcceptFails
<1>27. QED
  BY <1>1, <1>2, <1>3, <1>4, <1>5, <1>6, <1>7, <1>8, <1>9, <1>10, <1>11, <1>12,
     <1>13, <1>14, <1>15, <1>16, <1>17, <1>18, <1>19, <1>20, <1>21, <1>22, <1>23,
     <1>24, <1>25, <1>26
  DEF RecNext, TaskStep

\* The invariant of the restore plane holds in every state.
THEOREM RecInvariant == RecSpec => []RecInv
<1>1. RecInit => RecInv
  BY DEF RecInit, RecInv, RecTypeOK, SessionOrder, TokenHeld, LabHeld, RecoverySound, TaskPC,
         UnservedExplained, MigrationStopped, OrphanVmExplained, LabCleanedUp
<1>2. RecInv /\ [RecNext]_recVars => RecInv'
  <2>1. CASE RecNext
    BY <2>1, RecTypeStep, RecOrderStep, RecTokenStep, RecLabStep, RecServerStep
       DEF RecInv, RecoverySound
  <2>2. CASE UNCHANGED recVars
    BY <2>2 DEF recVars, RecInv, RecTypeOK, SessionOrder, TokenHeld, LabHeld, RecoverySound,
                UnservedExplained, MigrationStopped, OrphanVmExplained, LabCleanedUp, Port
  <2>3. QED
    BY <2>1, <2>2
<1>3. QED
  BY <1>1, <1>2, PTL DEF RecSpec

\* What instant recoveries leave behind is explained: a session without a
\* server, a migration that outlives its stop, a VM nobody will unregister;
\* and a verification that completed leaves nothing in the registry.
THEOREM RecoveryStaysSound == RecSpec => []RecoverySound
<1>1. RecInv => RecoverySound
  BY DEF RecInv
<1>2. QED
  BY <1>1, RecInvariant, PTL

-----------------------------------------------------------------------------
(***************************************************************************)
(* Disaster recovery.                                                      *)
(***************************************************************************)
\* The route that the record of a call walks.
WayOf(r) == IF r.kind = "failover" THEN r.plan.order \o r.plan.vms ELSE r.plan.vms

\* What is always true of the record of a call.
DrFields ==
    [kind : Kind \cup {"none"}, plan : Plan \cup {"none"}, phase : DrPhase, pos : Nat, fails : Nat]

DrFits(r) ==
    /\ r.phase \in {"down", "up", "wait"} => r.kind # "none"
    /\ r.phase = "wait" => r.fails = 0
    /\ r.kind # "none" => /\ r.plan \in Plan /\ r.pos \in 1 .. Len(WayOf(r)) + 1
                          /\ r.fails \in 0 .. r.pos - 1

DrRecord == {r \in DrFields : DrFits(r)}

DrShape ==
    /\ wired \in BOOLEAN /\ power \subseteq DrVm
    /\ drStatus \in {"Idle", "FailedOver", "Error"} \cup {InProgress(k) : k \in Kind}
    /\ disturbed \in [DrCall -> SUBSET DrVm] /\ call \in [DrCall -> DrRecord]

\* The stops a heartbeat wait has passed in this round are on, or were shut
\* down by another operation.
PolledRun ==
    \A c \in DrCall :
        call[c].phase = "wait" /\ call[c].kind = "failover" /\ wired =>
        \A i \in WalkOrder(c) : i < call[c].pos => Vm(c, i) \in power \cup disturbed[c]

DrInv == DrShape /\ PolledRun

\* A step that leaves a call's kind and plan alone leaves its way alone.
LEMMA DrSameWay ==
    ASSUME NEW c \in DrCall, call'[c].kind = call[c].kind, call'[c].plan = call[c].plan
    PROVE  /\ Route(c)' = Route(c) /\ WalkOrder(c)' = WalkOrder(c)
           /\ \A i : Vm(c, i)' = Vm(c, i)
  BY DEF Route, WalkOrder, Vm

\* Whatever walks has a sequence of VMs to walk.
LEMMA DrRoute ==
    ASSUME DrShape, NEW c \in DrCall, c \in Busy
    PROVE  /\ call[c] \in DrRecord /\ call[c].kind \in Kind /\ call[c].plan \in Plan
           /\ Route(c) = WayOf(call[c]) /\ Len(Route(c)) \in Nat
           /\ WalkOrder(c) \subseteq 1 .. Len(Route(c))
           /\ \A i \in WalkOrder(c) : Vm(c, i) \in DrVm
<1>1. call[c] \in DrRecord /\ call[c].kind \in Kind /\ call[c].plan \in Plan
  BY DEF DrShape, DrRecord, DrFields, DrFits, Busy
<1>2. call[c].plan.vms \in Seq(DrVm) /\ call[c].plan.order \in Seq(DrVm)
  BY <1>1, DrAssumption
<1>3. Route(c) = WayOf(call[c]) /\ Route(c) \in Seq(DrVm)
  BY <1>2 DEF Route, WayOf
<1>4. Len(Route(c)) \in Nat /\ DOMAIN Route(c) = 1 .. Len(Route(c))
  BY <1>3
<1>5. \A i \in 1 .. Len(Route(c)) : Route(c)[i] \in DrVm
  BY <1>3
<1>6. QED
  BY <1>1, <1>3, <1>4, <1>5 DEF WalkOrder, Vm

\* The walk of a failover stops at every VM of the plan.
LEMMA DrAllWalked ==
    ASSUME NEW c \in DrCall, call[c].kind = "failover", call[c].plan \in Plan,
           NEW v \in ToSet(call[c].plan.vms)
    PROVE  \E i \in WalkOrder(c) : Vm(c, i) = v
<1> DEFINE vms == call[c].plan.vms
           order == call[c].plan.order
<1>1. vms \in Seq(DrVm) /\ order \in Seq(DrVm)
  BY DrAssumption
<1>2. /\ Route(c) = order \o vms /\ DOMAIN Route(c) = 1 .. Len(order) + Len(vms)
      /\ \A i \in 1 .. Len(order) : Route(c)[i] = order[i]
      /\ \A i \in 1 .. Len(vms) : Route(c)[Len(order) + i] = vms[i]
  <2>1. Route(c) = order \o vms
    BY DEF Route
  <2>2. /\ order \o vms \in Seq(DrVm) /\ Len(order \o vms) = Len(order) + Len(vms)
        /\ \A i \in 1 .. Len(order) + Len(vms) :
              (order \o vms)[i] = IF i <= Len(order) THEN order[i] ELSE vms[i - Len(order)]
    BY <1>1, ConcatProperties
  <2>3. Len(order) \in Nat /\ Len(vms) \in Nat
    BY <1>1
  <2> HIDE DEF order, vms
  <2>4. QED
    BY <2>1, <2>2, <2>3
<1>3. CASE v \in ToSet(order)
  <2>1. PICK i \in 1 .. Len(order) : order[i] = v
    BY <1>3, <1>1 DEF ToSet
  <2>2. i \in WalkOrder(c)
    <3>1. i \in DOMAIN Route(c) /\ Route(c)[i] = v /\ i <= Len(order)
      <4>1. Len(vms) \in Nat /\ Len(order) \in Nat
        BY <1>1
      <4> HIDE DEF vms, order
      <4>2. QED
        BY <2>1, <1>2, <4>1
    <3>2. QED
      BY <3>1 DEF WalkOrder
  <2>3. QED
    BY <2>1, <2>2, <1>2 DEF Vm
<1>4. CASE v \notin ToSet(order)
  <2>1. PICK i \in 1 .. Len(vms) : vms[i] = v
    BY <1>1 DEF ToSet
  <2>2. Len(order) + i \in WalkOrder(c)
    BY <2>1, <1>1, <1>2, <1>4, Len(vms) \in Nat, Len(order) \in Nat DEF WalkOrder
  <2>3. QED
    BY <2>1, <2>2, <1>2 DEF Vm
<1>5. QED
  BY <1>3, <1>4

\* What the actions make of the record of a call that is at work.
LEMMA DrEdit ==
    ASSUME NEW r \in DrRecord, r.phase \in {"down", "up", "wait"}
    PROVE  /\ \A x \in {"done", "failed"} : [r EXCEPT !.phase = x] \in DrRecord
           /\ \A x \in {"failed", "up", "wait"} :
                [r EXCEPT !.pos = 1, !.fails = 0, !.phase = x] \in DrRecord
           /\ r.phase = "wait" => [r EXCEPT !.pos = 1] \in DrRecord
<1>1. r.kind \in Kind /\ r.plan \in Plan /\ Len(WayOf(r)) \in Nat
  <2>1. r.plan.vms \in Seq(DrVm) /\ r.plan.order \in Seq(DrVm)
    BY DrAssumption DEF DrRecord, DrFits
  <2>2. WayOf(r) \in Seq(DrVm)
    BY <2>1, ConcatProperties DEF WayOf
  <2>3. QED
    BY <2>2 DEF DrRecord, DrFits, DrFields
<1>2. ASSUME NEW q, q \in DrFields,
             q.kind = r.kind, q.plan = r.plan,
             \/ q.pos = 1 /\ q.fails = 0
             \/ q.pos = r.pos /\ q.fails = r.fails /\ q.phase # "wait"
      PROVE  q \in DrRecord
  <2>1. WayOf(q) = WayOf(r)
    BY <1>2 DEF WayOf
  <2>2. DrFits(r)
    BY DEF DrRecord
  <2>3. DrFits(q)
    BY <1>1, <1>2, <2>1, <2>2 DEF DrFits, Kind
  <2>4. QED
    BY <1>2, <2>3 DEF DrRecord
<1>3. r \in DrFields /\ (r.phase = "wait" => r.fails = 0)
  BY DEF DrRecord, DrFits
<1>4. QED
  BY <1>2, <1>3 DEF DrFields, DrPhase

\* A walk goes on to its next stop.
LEMMA DrWalkOn ==
    ASSUME DrShape, NEW c \in DrCall, c \in Busy, NEW i \in NextStop(c), NEW f \in Nat,
           f = call[c].fails \/ (f = call[c].fails + 1 /\ call[c].phase # "wait")
    PROVE  [call[c] EXCEPT !.pos = i + 1, !.fails = f] \in DrRecord
<1> DEFINE q == [call[c] EXCEPT !.pos = i + 1, !.fails = f]
<1>1. i \in 1 .. Len(WayOf(call[c])) /\ i >= call[c].pos /\ Len(WayOf(call[c])) \in Nat
  BY DrRoute DEF NextStop
<1>2. call[c] \in DrRecord /\ call[c].kind \in Kind
  BY DrRoute
<1>3. call[c].pos \in Nat /\ call[c].fails \in 0 .. call[c].pos - 1
  BY <1>1, <1>2 DEF DrRecord, DrFits, Kind
<1>4. /\ q.kind = call[c].kind /\ q.plan = call[c].plan /\ q.phase = call[c].phase
      /\ q.pos = i + 1 /\ q.fails = f
      /\ q \in DrFields
  <2>1. call[c] \in DrFields
    BY <1>2 DEF DrRecord
  <2>2. i + 1 \in Nat
    BY <1>1
  <2>3. QED
    BY <2>1, <2>2 DEF DrFields
<1>5. WayOf(q) = WayOf(call[c])
  BY <1>4 DEF WayOf
<1>6. DrFits(call[c]) /\ (call[c].phase = "wait" => f = call[c].fails)
  BY <1>2 DEF DrRecord
<1>7. DrFits(q)
  <2> HIDE DEF q
  <2>1. q.pos \in 1 .. Len(WayOf(q)) + 1 /\ q.fails \in 0 .. q.pos - 1
    BY <1>1, <1>3, <1>4, <1>5
  <2>2. call[c].kind # "none" /\ (call[c].phase = "wait" => call[c].fails = 0)
    BY <1>2, <1>6 DEF DrFits, Kind
  <2>3. call[c].plan \in Plan
    BY <1>6, <2>2 DEF DrFits
  <2>4. QED
    BY <1>4, <1>6, <2>1, <2>2, <2>3 DEF DrFits
<1>8. QED
  BY <1>4, <1>7 DEF DrRecord

\* What each step of the orchestrator may do to the calls, the VMs and the status.
LEMMA DrShapeStep ==
    ASSUME DrShape, DrNext
    PROVE  DrShape'
<1>1. ASSUME NEW c \in DrCall, NEW r \in DrRecord, SetCall(c, r)
      PROVE  call' \in [DrCall -> DrRecord]
  BY <1>1 DEF SetCall, DrShape
<1>2. ASSUME NEW c \in DrCall, c \in Busy
      PROVE  call[c] \in DrRecord /\ call[c].phase \in {"down", "up", "wait"}
  BY <1>2, DrRoute DEF Busy
<1>3. ASSUME NEW c \in DrCall, EndWalk(c)
      PROVE  DrShape'
  <2>1. c \in Busy
    BY <1>3 DEF EndWalk, Busy
  <2>2. \E x \in {"failed", "up", "wait"} :
            SetCall(c, [call[c] EXCEPT !.pos = 1, !.fails = 0, !.phase = x])
    BY <1>3 DEF EndWalk, SetCall
  <2>3. QED
    BY <1>1, <1>2, <1>3, <2>1, <2>2, DrEdit DEF EndWalk, DrShape
<1>4. ASSUME NEW c \in DrCall, NEW i \in NextStop(c), Poll(c, i)
      PROVE  DrShape'
  <2>1. c \in Busy
    BY <1>4 DEF Poll, Busy
  <2>2. [call[c] EXCEPT !.pos = i + 1] \in DrRecord
    <3>1. [call[c] EXCEPT !.pos = i + 1, !.fails = call[c].fails] \in DrRecord
      BY <1>2, <2>1, DrWalkOn DEF DrRecord, DrFields
    <3>2. [call[c] EXCEPT !.pos = i + 1, !.fails = call[c].fails] = [call[c] EXCEPT !.pos = i + 1]
      BY <1>2, <2>1 DEF DrRecord, DrFields
    <3>3. QED
      BY <3>1, <3>2
  <2>3. /\ [call[c] EXCEPT !.pos = 1] \in DrRecord
        /\ [call[c] EXCEPT !.phase = "failed"] \in DrRecord
    BY <1>2, <1>4, <2>1, DrEdit DEF Poll
  <2>4. QED
    BY <1>1, <1>4, <2>2, <2>3 DEF Poll, DrShape
<1>5. ASSUME NEW c \in DrCall, Commit(c) \/ EndTest(c)
      PROVE  DrShape'
  <2>1. c \in Busy
    BY <1>5 DEF Commit, EndTest, Busy
  <2>2. SetCall(c, [call[c] EXCEPT !.phase = "done"])
    BY <1>5 DEF Commit, EndTest
  <2>3. call' \in [DrCall -> DrRecord]
    BY <1>1, <1>2, <2>1, <2>2, DrEdit
  <2>4. QED
    BY <1>5, <2>3 DEF Commit, EndTest, Outcome, DrShape
<1>6. ASSUME NEW c \in DrCall, GoAway(c)
      PROVE  DrShape'
  <2>1. call' \in [DrCall -> DrRecord]
    BY <1>1, <1>2, <1>6, DrEdit DEF GoAway
  <2>2. QED
    BY <1>6, <2>1 DEF GoAway, DrShape
<1>7. ASSUME NEW c \in DrCall, NEW i \in NextStop(c), NEW ok \in BOOLEAN,
             NEW changed \in BOOLEAN, ShutDown(c, i, ok, changed) \/ StartUp(c, i, ok, changed)
      PROVE  DrShape'
  <2>1. c \in Busy /\ call[c].phase # "wait"
    BY <1>7 DEF ShutDown, StartUp, Busy
  <2>2. call[c].fails \in Nat
    BY <1>2, <2>1 DEF DrRecord, DrFields
  <2>3. \E f \in Nat : /\ f = call[c].fails \/ (f = call[c].fails + 1)
                       /\ SetCall(c, [call[c] EXCEPT !.pos = i + 1, !.fails = f])
    <3>1. CASE ok
      <4>1. SetCall(c, [call[c] EXCEPT !.pos = i + 1, !.fails = call[c].fails])
        BY <1>7, <3>1 DEF ShutDown, StartUp
      <4>2. QED
        BY <2>2, <4>1
    <3>2. CASE ~ok
      <4>1. SetCall(c, [call[c] EXCEPT !.pos = i + 1, !.fails = call[c].fails + 1])
        BY <1>7, <3>2 DEF ShutDown, StartUp
      <4>2. call[c].fails + 1 \in Nat
        BY <2>2
      <4>3. QED
        BY <4>1, <4>2
    <3>3. QED
      BY <3>1, <3>2
  <2>4. call' \in [DrCall -> DrRecord]
    BY <1>1, <2>1, <2>3, DrWalkOn
  <2>5. Vm(c, i) \in DrVm
    BY <2>1, DrRoute DEF NextStop
  <2>6. QED
    BY <1>7, <2>4, <2>5 DEF ShutDown, StartUp, DrShape
<1>8. ASSUME NEW c \in DrCall, TestUnknown(c)
      PROVE  DrShape'
  BY <1>8 DEF TestUnknown, DrShape
<1>9. ASSUME NEW c \in DrCall, NEW p \in Plan, NEW k \in Kind, NEW x \in {"down", "wait"},
             SetCall(c, [NoCall EXCEPT !.kind = k, !.plan = p, !.phase = x])
      PROVE  call' \in [DrCall -> DrRecord]
  <2> DEFINE q == [NoCall EXCEPT !.kind = k, !.plan = p, !.phase = x]
  <2>1. /\ q.kind = k /\ q.plan = p /\ q.pos = 1 /\ q.fails = 0 /\ q.phase = x
        /\ q \in DrFields
    BY DEF NoCall, DrPhase, DrFields
  <2>2. p.vms \in Seq(DrVm) /\ p.order \o p.vms \in Seq(DrVm)
    BY DrAssumption, ConcatProperties
  <2>3. q \in DrRecord
    <3>1. WayOf(q) \in Seq(DrVm)
      BY <2>1, <2>2 DEF WayOf
    <3> HIDE DEF q
    <3>2. DrFits(q)
      BY <2>1, <3>1 DEF DrFits, Kind
    <3>3. QED
      BY <2>1, <3>2 DEF DrRecord
  <2>4. QED
    BY <1>1, <1>9, <2>3
<1>10. ASSUME NEW c \in DrCall, NEW p \in Plan, BeginTest(c, p)
       PROVE  DrShape'
  BY <1>9, <1>10 DEF BeginTest, DrShape, InProgress, Kind
<1>11. ASSUME NEW c \in DrCall, NEW p \in Plan, NEW k \in Kind, Begin(c, k, p)
       PROVE  DrShape'
  BY <1>9, <1>11 DEF Begin, DrShape
<1>12. NextCall \subseteq DrCall
  BY DEF NextCall
<1>13. QED
  BY <1>3, <1>4, <1>5, <1>6, <1>7, <1>8, <1>10, <1>11, <1>12 DEF DrNext

\* What a call has polled stays on, or is disturbed, while another one moves.
LEMMA DrOtherMoves ==
    ASSUME PolledRun, NEW c \in DrCall, call'[c] = call[c], wired' = wired,
           c \in Busy => power \cup disturbed[c] \subseteq power' \cup disturbed'[c],
           call'[c].phase = "wait", call'[c].kind = "failover", wired',
           NEW i \in WalkOrder(c)', i < call'[c].pos
    PROVE  Vm(c, i)' \in power' \cup disturbed'[c]
<1>1. WalkOrder(c)' = WalkOrder(c) /\ Vm(c, i)' = Vm(c, i)
  BY DrSameWay
<1>2. Vm(c, i) \in power \cup disturbed[c]
  BY <1>1 DEF PolledRun
<1>3. QED
  BY <1>1, <1>2 DEF Busy

\* A call that waits and is not the one that moves keeps what it has polled;
\* one that begins its wait has polled nothing; one that polls adds its stop.
LEMMA DrPolledStep ==
    ASSUME DrInv, DrNext
    PROVE  PolledRun'
<1> USE DEF DrInv
<1>1. ASSUME NEW d \in DrCall, NEW r, SetCall(d, r), wired' = wired,
             r.phase = "wait" /\ r.kind = "failover" => FALSE,
             \A c \in Busy \ {d} : power \cup disturbed[c] \subseteq power' \cup disturbed'[c]
      PROVE  PolledRun'
  <2>1. \A c \in DrCall : c # d => call'[c] = call[c]
    BY <1>1 DEF SetCall, DrShape
  <2>2. call'[d] = r
    BY <1>1 DEF SetCall, DrShape
  <2>3. QED
    BY <1>1, <2>1, <2>2, DrOtherMoves DEF PolledRun
<1>2. ASSUME NEW d \in DrCall, d \in Busy, NEW r, SetCall(d, r), wired' = wired, UNCHANGED <<power, disturbed>>,
             r.kind = call[d].kind, r.plan = call[d].plan,
             wired => \A i \in WalkOrder(d) : i < r.pos => Vm(d, i) \in power \cup disturbed[d]
      PROVE  PolledRun'
  <2>1. \A c \in DrCall : c # d => call'[c] = call[c]
    BY <1>2 DEF SetCall, DrShape
  <2>2. call'[d] = r
    BY <1>2 DEF SetCall, DrShape
  <2>3. WalkOrder(d)' = WalkOrder(d) /\ \A i : Vm(d, i)' = Vm(d, i)
    BY <1>2, <2>2, DrSameWay
  <2>4. ASSUME NEW i \in WalkOrder(d)', i < call'[d].pos, wired'
        PROVE  Vm(d, i)' \in power' \cup disturbed'[d]
    BY <1>2, <2>2, <2>3, <2>4
  <2>5. QED
    BY <1>2, <2>1, <2>4, DrOtherMoves DEF PolledRun
<1>3. ASSUME NEW d \in DrCall, EndWalk(d)
      PROVE  PolledRun'
  <2>1. d \in Busy
    BY <1>3 DEF EndWalk, Busy
  <2>2. PICK x \in {"failed", "up", "wait"} :
            SetCall(d, [call[d] EXCEPT !.pos = 1, !.fails = 0, !.phase = x])
    BY <1>3 DEF EndWalk, SetCall
  <2> DEFINE r == [call[d] EXCEPT !.pos = 1, !.fails = 0, !.phase = x]
  <2>3. r.kind = call[d].kind /\ r.plan = call[d].plan /\ r.pos = 1
    BY <2>1, DrRoute DEF DrRecord, DrFields
  <2>4. \A i \in WalkOrder(d) : ~(i < 1)
    BY <2>1, DrRoute
  <2>5. UNCHANGED <<wired, power, disturbed>>
    BY <1>3 DEF EndWalk
  <2> HIDE DEF r
  <2>6. SetCall(d, r)
    BY <2>2 DEF r
  <2>7. QED
    BY <1>2, <2>1, <2>3, <2>4, <2>5, <2>6
<1>4. ASSUME NEW d \in DrCall, NEW j \in NextStop(d), Poll(d, j)
      PROVE  PolledRun'
  <2>1. d \in Busy /\ call[d].phase = "wait" /\ call[d].kind = "failover" /\ wired
        /\ UNCHANGED <<wired, power, disturbed>>
    BY <1>4 DEF Poll, Busy
  <2>2. call[d] \in DrFields
    BY <2>1, DrRoute DEF DrRecord
  <2>3. CASE Vm(d, j) \in power /\ SetCall(d, [call[d] EXCEPT !.pos = j + 1])
    <3> DEFINE r == [call[d] EXCEPT !.pos = j + 1]
    <3>1. r.kind = call[d].kind /\ r.plan = call[d].plan /\ r.pos = j + 1 /\ SetCall(d, r)
      BY <2>2, <2>3 DEF DrFields
    <3>2. ASSUME NEW i \in WalkOrder(d), i < j + 1
          PROVE  Vm(d, i) \in power \cup disturbed[d]
      <4>1. /\ i \in Nat /\ j \in WalkOrder(d) /\ j \in Nat /\ call[d].pos \in Nat
            /\ i >= call[d].pos => j <= i
        BY <2>1, <2>2, DrRoute DEF NextStop, DrFields
      <4>2. CASE i < call[d].pos
        BY <4>2, <2>1 DEF PolledRun
      <4>3. CASE i = j
        BY <4>3, <2>3
      <4>4. QED
        BY <4>1, <4>2, <4>3, <3>2
    <3> HIDE DEF r
    <3>3. QED
      BY <1>2, <2>1, <3>1, <3>2
  <2>4. CASE SetCall(d, [call[d] EXCEPT !.pos = 1])
    <3> DEFINE r == [call[d] EXCEPT !.pos = 1]
    <3>1. r.kind = call[d].kind /\ r.plan = call[d].plan /\ r.pos = 1 /\ SetCall(d, r)
      BY <2>2, <2>4 DEF DrFields
    <3>2. \A i \in WalkOrder(d) : ~(i < 1)
      BY <2>1, DrRoute
    <3> HIDE DEF r
    <3>3. QED
      BY <1>2, <2>1, <3>1, <3>2
  <2>5. CASE SetCall(d, [call[d] EXCEPT !.phase = "failed"])
    <3>1. [call[d] EXCEPT !.phase = "failed"].phase = "failed"
      BY <2>2 DEF DrFields
    <3>2. QED
      BY <1>1, <2>1, <2>5, <3>1
  <2>6. QED
    BY <1>4, <2>3, <2>4, <2>5 DEF Poll
<1>5. ASSUME NEW d \in DrCall, Commit(d) \/ EndTest(d) \/ GoAway(d)
      PROVE  PolledRun'
  <2>1. call[d] \in DrFields
    BY DEF DrShape, DrRecord
  <2>2. PICK x \in {"done", "failed"} : SetCall(d, [call[d] EXCEPT !.phase = x])
    BY <1>5 DEF Commit, EndTest, GoAway
  <2>3. [call[d] EXCEPT !.phase = x].phase = x
    BY <2>1 DEF DrFields
  <2>4. UNCHANGED <<wired, power, disturbed>>
    BY <1>5 DEF Commit, EndTest, GoAway
  <2>5. QED
    BY <1>1, <2>2, <2>3, <2>4
<1>6. ASSUME NEW d \in DrCall, NEW i \in NextStop(d), NEW ok \in BOOLEAN,
             NEW changed \in BOOLEAN, ShutDown(d, i, ok, changed) \/ StartUp(d, i, ok, changed)
      PROVE  PolledRun'
  <2>1. call[d] \in DrFields /\ call[d].phase # "wait"
    BY <1>6 DEF DrShape, DrRecord, ShutDown, StartUp
  <2>2. PICK f : SetCall(d, [call[d] EXCEPT !.pos = i + 1, !.fails = f])
    BY <1>6 DEF ShutDown, StartUp
  <2>3. [call[d] EXCEPT !.pos = i + 1, !.fails = f].phase # "wait"
    BY <2>1 DEF DrFields
  <2>4. wired' = wired
    BY <1>6 DEF ShutDown, StartUp
  <2>5. \A c \in Busy \ {d} : power \cup disturbed[c] \subseteq power' \cup disturbed'[c]
    BY <1>6 DEF ShutDown, StartUp, Busy
  <2>6. QED
    BY <1>1, <2>2, <2>3, <2>4, <2>5
<1>7. ASSUME NEW d \in DrCall, TestUnknown(d)
      PROVE  PolledRun'
  BY <1>7, DrOtherMoves DEF TestUnknown, PolledRun
<1>8. ASSUME NEW d \in DrCall, NEW p \in Plan, BeginTest(d, p)
      PROVE  PolledRun'
  BY <1>1, <1>8 DEF BeginTest, NoCall
<1>9. ASSUME NEW d \in DrCall, NEW p \in Plan, NEW k \in Kind, Begin(d, k, p)
      PROVE  PolledRun'
  BY <1>1, <1>9 DEF Begin, NoCall
<1>10. NextCall \subseteq DrCall
  BY DEF NextCall
<1>11. QED
  BY <1>3, <1>4, <1>5, <1>6, <1>7, <1>8, <1>9, <1>10 DEF DrNext

\* A failover is done by its commit.
LEMMA DrDoneByCommit ==
    ASSUME DrShape, DrNext, NEW c \in DrCall,
           call[c].kind = "failover", call'[c].phase = "done", call[c].phase # "done"
    PROVE  Commit(c)
<1>1. ASSUME NEW d \in DrCall, NEW r, SetCall(d, r)
      PROVE  d = c /\ r.phase = "done"
  BY <1>1 DEF SetCall, DrShape
<1>2. \A d \in DrCall : call[d] \in DrFields
  BY DEF DrShape, DrRecord
<1>3. ASSUME NEW d \in DrCall, Commit(d) \/ EndTest(d)
      PROVE  Commit(c)
  BY <1>1, <1>3 DEF Commit, EndTest
<1>4. ASSUME NEW d \in DrCall, EndWalk(d)
      PROVE  FALSE
  <2>1. PICK x \in {"failed", "up", "wait"} :
            SetCall(d, [call[d] EXCEPT !.pos = 1, !.fails = 0, !.phase = x])
    BY <1>4 DEF EndWalk, SetCall
  <2>2. [call[d] EXCEPT !.pos = 1, !.fails = 0, !.phase = x].phase = x
    BY <1>2 DEF DrFields
  <2>3. QED
    BY <1>1, <2>1, <2>2
<1>5. ASSUME NEW d \in DrCall, NEW i \in NextStop(d), Poll(d, i)
      PROVE  FALSE
  <2>1. call[d].phase = "wait" /\ call[d] \in DrFields
    BY <1>2, <1>5 DEF Poll
  <2>2. /\ [call[d] EXCEPT !.pos = i + 1].phase # "done"
        /\ [call[d] EXCEPT !.pos = 1].phase # "done"
        /\ [call[d] EXCEPT !.phase = "failed"].phase # "done"
    BY <2>1 DEF DrFields
  <2>3. QED
    BY <1>1, <1>5, <2>2 DEF Poll
<1>6. ASSUME NEW d \in DrCall, GoAway(d)
      PROVE  FALSE
  <2>1. [call[d] EXCEPT !.phase = "failed"].phase # "done"
    BY <1>2 DEF DrFields
  <2>2. QED
    BY <1>1, <1>6, <2>1 DEF GoAway
<1>7. ASSUME NEW d \in DrCall, NEW i \in NextStop(d), NEW ok \in BOOLEAN,
             NEW changed \in BOOLEAN, ShutDown(d, i, ok, changed) \/ StartUp(d, i, ok, changed)
      PROVE  FALSE
  <2>1. call[d] \in DrFields /\ call[d].phase # "done"
    BY <1>2, <1>7 DEF ShutDown, StartUp
  <2>2. PICK f : SetCall(d, [call[d] EXCEPT !.pos = i + 1, !.fails = f])
    BY <1>7 DEF ShutDown, StartUp
  <2>3. [call[d] EXCEPT !.pos = i + 1, !.fails = f].phase # "done"
    BY <2>1 DEF DrFields
  <2>4. QED
    BY <1>1, <2>2, <2>3
<1>8. ASSUME NEW d \in DrCall, TestUnknown(d)
      PROVE  FALSE
  BY <1>8 DEF TestUnknown
<1>9. ASSUME NEW d \in DrCall, NEW p \in Plan, BeginTest(d, p)
      PROVE  FALSE
  BY <1>1, <1>9 DEF BeginTest, NoCall
<1>10. ASSUME NEW d \in DrCall, NEW p \in Plan, NEW k \in Kind, Begin(d, k, p)
       PROVE  FALSE
  BY <1>1, <1>10 DEF Begin, NoCall
<1>11. NextCall \subseteq DrCall
  BY DEF NextCall
<1>12. QED
  BY <1>3, <1>4, <1>5, <1>6, <1>7, <1>8, <1>9, <1>10, <1>11 DEF DrNext

\* The invariant of the orchestrator holds in every state, and with it its type.
THEOREM DrInvariant == DrSpec => [](DrInv /\ DrTypeOK)
<1>1. DrInit => DrInv
  <2> SUFFICES ASSUME DrInit PROVE DrInv
    OBVIOUS
  <2>1. NoCall \in DrRecord
    BY DEF NoCall, DrRecord, DrFields, DrFits, DrPhase
  <2>2. \A c \in DrCall : call[c].phase = "none"
    BY DEF DrInit, NoCall
  <2>3. QED
    BY <2>1, <2>2 DEF DrInit, DrInv, DrShape, PolledRun
<1>2. DrInv /\ [DrNext]_drVars => DrInv'
  <2>1. CASE DrNext
    BY <2>1, DrShapeStep, DrPolledStep DEF DrInv
  <2>2. CASE UNCHANGED drVars
    BY <2>2 DEF drVars, DrInv, DrShape, PolledRun, WalkOrder, Route, Vm
  <2>3. QED
    BY <2>1, <2>2
<1>3. DrInv => DrTypeOK
  BY DEF DrInv, DrShape, DrTypeOK, DrRecord, DrFields, DrFits, Route, WayOf
<1>4. QED
  BY <1>1, <1>2, <1>3, PTL DEF DrSpec

\* A failover over a connector that is answered "failover_committed" has left
\* every VM of its plan on, unless another operation shut it down meanwhile.
THEOREM CommittedFailoverRuns == DrSpec => CommittedRuns
<1>1. ASSUME DrInv, DrNext, NEW c \in DrCall, wired, Commits(c)
      PROVE  ToSet(call[c].plan.vms) \subseteq power \cup disturbed[c]
  <2>1. Commit(c) /\ call[c].phase = "wait" /\ call[c].kind = "failover"
    BY <1>1, DrDoneByCommit DEF DrInv, Commit, Commits
  <2>2. call[c].plan \in Plan
    BY <2>1, <1>1, DrRoute DEF Busy, DrInv
  <2>3. \A i \in WalkOrder(c) : Vm(c, i) \in power \cup disturbed[c]
    BY <2>1, <1>1 DEF Commit, Walked, DrInv, PolledRun
  <2>4. QED
    BY <2>1, <2>2, <2>3, DrAllWalked
<1>2. DrInv /\ [DrNext]_drVars =>
        [\A c \in DrCall : wired /\ Commits(c)
           => ToSet(call[c].plan.vms) \subseteq power \cup disturbed[c]]_drVars
  BY <1>1
<1>3. QED
  BY <1>2, DrInvariant, PTL DEF DrSpec, CommittedRuns

-----------------------------------------------------------------------------
(***************************************************************************)
(* The inventory of hypervisors and VMs.                                   *)
(***************************************************************************)
\* What a call carries at each of its awaits.
InvFields == {"at", "kind", "hv", "ref", "heard", "known"}

InvCarried(c) ==
    /\ DOMAIN icall[c] = InvFields
    /\ icall[c].at # "new" => Of(c) \in Hypervisor
    /\ icall[c].at \in {"insert", "status"} => icall[c].heard \in {"connected", "error"}
    /\ icall[c].at = "insert" => icall[c].kind = "add"
    /\ icall[c].at \in {"read", "commit"} =>
          /\ DOMAIN icall[c].heard \subseteq MoRef
          /\ \A r \in DOMAIN icall[c].heard : icall[c].heard[r] \in 1 .. onHv[<<Of(c), r>>].version
    /\ icall[c].at = "ask" /\ icall[c].kind = "backup" => <<Of(c), icall[c].ref>> \in InvVm
    /\ icall[c].at = "mark" => <<Of(c), icall[c].ref>> \in backedUp

InvCarries == DOMAIN icall = InvCall /\ \A c \in InvCall : InvCarried(c)

\* A hypervisor that is being added has no row, and nobody else asks for it.
AddedAlone ==
    \A c \in InvCall : icall[c].kind = "add" /\ icall[c].at \in {"ask", "insert"} =>
        /\ hvRow[Of(c)] = "absent" /\ \A d \in InvCall \ {c} : Of(d) # Of(c)
        /\ icall[c].at = "insert" => icall[c].heard = probed[Of(c)]

\* While no answers have been out of order, one call at most holds an answer
\* that it has not written, and it is the last one.
StatusAt(h) ==
    <<"status", h>> \notin raced =>
        /\ \A c \in InvCall : icall[c].at = "status" /\ Of(c) = h =>
              /\ icall[c].heard = probed[h]
              /\ \A d \in InvCall : icall[d].at = "status" /\ Of(d) = h => c = d
        /\ hvRow[h] # "absent" /\ (\A c \in InvCall : Of(c) = h => icall[c].at # "status")
              => hvRow[h] = probed[h]

RowsAt(h) ==
    <<"vms", h>> \notin raced =>
        /\ \A c \in InvCall : icall[c].at \in {"read", "commit"} /\ Of(c) = h =>
              /\ \A r \in DOMAIN icall[c].heard : vmRow[<<h, r>>].seen <= icall[c].heard[r]
              /\ \A d \in InvCall : icall[d].at \in {"read", "commit"} /\ Of(d) = h => c = d
        /\ \A r \in MoRef : vmRow[<<h, r>>].seen = newest[<<h, r>>]

StatusInOrder == \A h \in Hypervisor : StatusAt(h)
RowsInOrder == \A h \in Hypervisor : RowsAt(h)

\* No row is newer than its VM, and only a row that a backup has found is marked.
RowsBehind ==
    \A w \in InvVm :
        /\ vmRow[w].seen <= onHv[w].version
        /\ vmRow[w].protected => vmRow[w].seen > 0 /\ w \in backedUp

\* A backup has marked its VM's row, or has found none, or is about to mark it.
BackupsMark ==
    \A w \in backedUp :
        \/ vmRow[w].protected \/ w \in unmarked
        \/ \E c \in InvCall : icall[c].at = "mark" /\ <<Of(c), icall[c].ref>> = w

InvInv ==
    /\ InvTypeOK /\ InvCarries /\ AddedAlone /\ StatusInOrder /\ RowsInOrder
    /\ RowsBehind /\ BackupsMark

\* A call moves on, and hears or knows something new; the others stay.
InvMoves(c, at, heard, known) ==
    /\ DOMAIN icall' = InvCall /\ \A d \in InvCall \ {c} : icall'[d] = icall[d]
    /\ DOMAIN icall'[c] = InvFields
    /\ icall'[c].at = at /\ icall'[c].heard = heard /\ icall'[c].known = known
    /\ icall'[c].kind = icall[c].kind /\ icall'[c].hv = icall[c].hv /\ icall'[c].ref = icall[c].ref

\* What each action makes of its call.
LEMMA InvOnward ==
    ASSUME InvCarries, NEW c \in InvCall, NEW x, Onward(c, x)
    PROVE  InvMoves(c, x, icall[c].heard, icall[c].known)
  BY DEF InvCarries, InvCarried, InvFields, InvMoves, Onward

LEMMA InvProbed ==
    ASSUME InvCarries, NEW c \in InvCall, ProbeHypervisor(c)
    PROVE  \E status \in {"connected", "error"} :
              /\ InvMoves(c, IF icall[c].kind = "add" THEN "insert" ELSE "status", status,
                          icall[c].known)
              /\ probed' = [probed EXCEPT ![Of(c)] = status]
<1>1. PICK status \in {"connected", "error"} :
        /\ icall' = [icall EXCEPT ![c].at = IF icall[c].kind = "add" THEN "insert" ELSE "status",
                                  ![c].heard = status]
        /\ probed' = [probed EXCEPT ![Of(c)] = status]
  BY DEF ProbeHypervisor
<1>2. InvMoves(c, IF icall[c].kind = "add" THEN "insert" ELSE "status", status, icall[c].known)
  BY <1>1 DEF InvCarries, InvCarried, InvFields, InvMoves
<1>3. QED
  BY <1>1, <1>2

LEMMA InvListed ==
    ASSUME InvCarries, NEW c \in InvCall, ListVms(c)
    PROVE  InvMoves(c, "read",
                [r \in {q \in MoRef : onHv[<<Of(c), q>>].here} |-> onHv[<<Of(c), r>>].version],
                icall[c].known)
  BY DEF InvCarries, InvCarried, InvFields, InvMoves, ListVms

LEMMA InvReads ==
    ASSUME InvCarries, NEW c \in InvCall, ReadVmRows(c)
    PROVE  InvMoves(c, "commit", icall[c].heard,
                {r \in DOMAIN icall[c].heard : vmRow[<<Of(c), r>>].seen > 0})
  BY DEF InvCarries, InvCarried, InvFields, InvMoves, ReadVmRows

LEMMA InvAsks ==
    ASSUME InvCarries, NEW c \in InvCall, NEW kind, NEW h, NEW r, AskHypervisor(c, kind, h, r)
    PROVE  /\ DOMAIN icall' = InvCall /\ \A d \in InvCall \ {c} : icall'[d] = icall[d]
           /\ DOMAIN icall'[c] = InvFields
           /\ icall'[c].at = IF kind = "delete" THEN "erase" ELSE "ask"
           /\ icall'[c].kind = kind /\ icall'[c].hv = h /\ icall'[c].ref = r
           /\ icall[c].at = "new"
<1> DEFINE q == [NewInvCall EXCEPT !.kind = kind, !.hv = h, !.ref = r,
                                  !.at = IF kind = "delete" THEN "erase" ELSE "ask"]
<1>1. icall[c] = NewInvCall /\ icall' = [icall EXCEPT ![c] = q]
  BY DEF AskHypervisor
<1>2. /\ DOMAIN q = InvFields /\ q.kind = kind /\ q.hv = h /\ q.ref = r
      /\ q.at = IF kind = "delete" THEN "erase" ELSE "ask"
  BY DEF NewInvCall, InvFields
<1>3. icall[c].at = "new"
  BY <1>1, NewInvCall.at = "new" DEF NewInvCall
<1> HIDE DEF q
<1>4. QED
  BY <1>1, <1>2, <1>3 DEF InvCarries

\* A discovery's answer becomes what its row has seen, and unmarks only a row that nobody has seen.
LEMMA InvUpserted ==
    ASSUME NEW row \in [seen : 0 .. Versions + 1, protected : BOOLEAN], NEW version
    PROVE  /\ Upserted(row, version).seen = version
           /\ row.seen # 0 => Upserted(row, version).protected = row.protected
BY DEF Upserted

\* A backup's mark leaves what the rows have seen, and unmarks none.
LEMMA InvMarked ==
    ASSUME InvTypeOK, InvCarries, NEW c \in InvCall, MarkVmBackedUp(c)
    PROVE  \A w \in InvVm : /\ vmRow'[w].seen = vmRow[w].seen
                            /\ vmRow[w].protected => vmRow'[w].protected
<1> DEFINE markedVm == <<Of(c), icall[c].ref>>
<1>1. markedVm \in InvVm /\ DOMAIN vmRow = InvVm
  BY DEF MarkVmBackedUp, InvCarries, InvCarried, InvTypeOK
<1>2. \A w \in InvVm : vmRow[w] \in [seen : 0 .. Versions + 1, protected : BOOLEAN]
  BY DEF InvTypeOK
<1>3. vmRow' = vmRow \/ vmRow' = [vmRow EXCEPT ![markedVm].protected = TRUE]
  BY DEF MarkVmBackedUp
<1> HIDE DEF markedVm
<1>4. QED
  BY <1>1, <1>2, <1>3

\* A call that is new, asks.
LEMMA InvAtType ==
    ASSUME InvCarries, InvTypeOK, NEW c \in InvCall,
           \A d \in InvCall \ {c} : icall'[d] = icall[d],
           icall'[c].at \in {"new", "ask", "insert", "erase", "status", "read", "commit", "mark", "over"}
    PROVE  \A d \in InvCall : icall'[d].at \in {"new", "ask", "insert", "erase", "status", "read",
                                                "commit", "mark", "over"}
  BY DEF InvTypeOK

\* Every step of the inventory keeps its type.
LEMMA InvTypeStep ==
    ASSUME InvInv, InvNext
    PROVE  InvTypeOK'
<1> USE DEF InvInv
<1>1. ASSUME NEW w \in InvVm, VmChanges(w)
      PROVE  InvTypeOK'
  BY <1>1, InventoryAssumption DEF VmChanges, InvTypeOK, historyVars
<1>2. ASSUME NEW c \in InvCall, NEW kind, NEW h, NEW r, AskHypervisor(c, kind, h, r)
      PROVE  InvTypeOK'
  <2>1. \A d \in InvCall : icall'[d].at \in {"new", "ask", "insert", "erase", "status", "read",
                                              "commit", "mark", "over"}
    BY <1>2, InvAsks, InvAtType
  <2>2. QED
    BY <1>2, <2>1 DEF AskHypervisor, InvTypeOK, historyVars
<1>3. ASSUME NEW c \in InvCall, ProbeHypervisor(c)
      PROVE  InvTypeOK'
  <2>1. PICK status \in {"connected", "error"} :
            /\ InvMoves(c, IF icall[c].kind = "add" THEN "insert" ELSE "status", status,
                        icall[c].known)
            /\ probed' = [probed EXCEPT ![Of(c)] = status]
    BY <1>3, InvProbed
  <2>2. \A d \in InvCall : icall'[d].at \in {"new", "ask", "insert", "erase", "status", "read",
                                              "commit", "mark", "over"}
    BY <2>1, InvAtType DEF InvMoves
  <2>3. {hvRow', probed'} \subseteq [Hypervisor -> {"absent", "connected", "error"}]
    BY <1>3, <2>1 DEF ProbeHypervisor, InvTypeOK
  <2>4. QED
    BY <1>3, <2>2, <2>3 DEF ProbeHypervisor, InvTypeOK
<1>4. ASSUME NEW c \in InvCall, AddHypervisor(c) \/ SetStatus(c) \/ DeleteHypervisor(c)
      PROVE  InvTypeOK'
  <2>1. \A d \in InvCall : icall'[d].at \in {"new", "ask", "insert", "erase", "status", "read",
                                              "commit", "mark", "over"}
    BY <1>4, InvOnward, InvAtType DEF InvMoves, AddHypervisor, SetStatus, DeleteHypervisor
  <2>2. hvRow' \in [Hypervisor -> {"absent", "connected", "error"}]
    <3>1. hvRow \in [Hypervisor -> {"absent", "connected", "error"}]
      BY DEF InvTypeOK
    <3>2. icall[c].at \in {"insert", "status"} => icall[c].heard \in {"connected", "error"}
      BY DEF InvCarries, InvCarried
    <3>3. CASE AddHypervisor(c)
      BY <3>1, <3>2, <3>3 DEF AddHypervisor
    <3>4. CASE SetStatus(c)
      BY <3>1, <3>2, <3>4 DEF SetStatus
    <3>5. CASE DeleteHypervisor(c)
      BY <3>1, <3>5 DEF DeleteHypervisor
    <3>6. QED
      BY <1>4, <3>3, <3>4, <3>5
  <2>3. QED
    BY <1>4, <2>1, <2>2 DEF AddHypervisor, SetStatus, DeleteHypervisor, InvTypeOK, historyVars
<1>5. ASSUME NEW c \in InvCall, ListVms(c) \/ ReadVmRows(c)
      PROVE  InvTypeOK'
  <2>1. \A d \in InvCall : icall'[d].at \in {"new", "ask", "insert", "erase", "status", "read",
                                              "commit", "mark", "over"}
    BY <1>5, InvListed, InvReads, InvAtType DEF InvMoves
  <2>2. QED
    BY <1>5, <2>1 DEF ListVms, ReadVmRows, InvTypeOK, historyVars
<1>6. ASSUME NEW c \in InvCall, CommitVmRows(c)
      PROVE  InvTypeOK'
  <2>1. \A d \in InvCall : icall'[d].at \in {"new", "ask", "insert", "erase", "status", "read",
                                              "commit", "mark", "over"}
    BY <1>6, InvOnward, InvAtType DEF InvMoves, CommitVmRows
  <2>2. CASE ~Fits(c)
    BY <1>6, <2>1, <2>2 DEF CommitVmRows, InvTypeOK
  <2>3. CASE Fits(c)
    <3>1. ASSUME NEW w \in InvVm, w[1] = Of(c), w[2] \in DOMAIN icall[c].heard
          PROVE  Upserted(vmRow[w], icall[c].heard[w[2]])
                    \in [seen : 0 .. Versions + 1, protected : BOOLEAN]
      <4>1. w = <<Of(c), w[2]>>
        BY <3>1 DEF InvVm
      <4>2. icall[c].heard[w[2]] \in 1 .. onHv[w].version
        BY <1>6, <3>1, <4>1 DEF InvCarries, InvCarried, CommitVmRows
      <4>3. onHv[w].version \in 1 .. Versions + 1
        BY DEF InvTypeOK
      <4>4. icall[c].heard[w[2]] \in 0 .. Versions + 1
        BY <4>2, <4>3, InventoryAssumption
      <4>5. vmRow[w] \in [seen : 0 .. Versions + 1, protected : BOOLEAN]
        BY DEF InvTypeOK
      <4>6. QED
        BY <4>4, <4>5 DEF Upserted
    <3>2. vmRow' \in [InvVm -> [seen : 0 .. Versions + 1, protected : BOOLEAN]]
      BY <1>6, <2>3, <3>1 DEF CommitVmRows, InvTypeOK
    <3>3. newest' \in [InvVm -> 0 .. Versions + 1]
      BY <1>6, <2>3, <3>2 DEF CommitVmRows, InvTypeOK
    <3>4. QED
      BY <1>6, <2>1, <3>2, <3>3 DEF CommitVmRows, InvTypeOK
  <2>4. QED
    BY <2>2, <2>3
<1>7. ASSUME NEW c \in InvCall, VmBackedUp(c) \/ MarkVmBackedUp(c) \/ InvGivesUp(c)
      PROVE  InvTypeOK'
  <2>1. \A d \in InvCall : icall'[d].at \in {"new", "ask", "insert", "erase", "status", "read",
                                              "commit", "mark", "over"}
    BY <1>7, InvOnward, InvAtType DEF InvMoves, VmBackedUp, MarkVmBackedUp, InvGivesUp
  <2>2. backedUp' \cup unmarked' \subseteq InvVm
    BY <1>7 DEF VmBackedUp, MarkVmBackedUp, InvGivesUp, InvTypeOK, InvCarries, InvCarried
  <2>3. vmRow' \in [InvVm -> [seen : 0 .. Versions + 1, protected : BOOLEAN]]
    <3>1. \A w \in InvVm : [vmRow[w] EXCEPT !.protected = TRUE]
                                \in [seen : 0 .. Versions + 1, protected : BOOLEAN]
      BY DEF InvTypeOK
    <3>2. \/ vmRow' = vmRow
          \/ \E w \in InvVm : vmRow' = [vmRow EXCEPT ![w] = [vmRow[w] EXCEPT !.protected = TRUE]]
      BY <1>7 DEF VmBackedUp, MarkVmBackedUp, InvGivesUp, InvTypeOK, InvCarries, InvCarried
    <3>3. vmRow \in [InvVm -> [seen : 0 .. Versions + 1, protected : BOOLEAN]]
      BY DEF InvTypeOK
    <3>4. QED
      BY <3>1, <3>2, <3>3
  <2>4. QED
    BY <1>7, <2>1, <2>2, <2>3 DEF VmBackedUp, MarkVmBackedUp, InvGivesUp, InvTypeOK
<1>8. QED
  BY <1>1, <1>2, <1>3, <1>4, <1>5, <1>6, <1>7 DEF InvNext

\* Every step keeps what the calls carry: the call that moves carries what its
\* await has answered, and nothing falls behind what the others carry.
LEMMA InvCarriesStep ==
    ASSUME InvInv, InvNext
    PROVE  InvCarries'
<1> USE DEF InvInv
<1>1. ASSUME NEW c \in InvCall, DOMAIN icall' = InvCall, \A d \in InvCall \ {c} : icall'[d] = icall[d],
             onHv' = onHv, backedUp \subseteq backedUp', InvCarried(c)'
      PROVE  InvCarries'
  <2>1. ASSUME NEW d \in InvCall \ {c}
        PROVE  InvCarried(d)'
    BY <1>1 DEF InvCarries, InvCarried, Of
  <2>2. QED
    BY <1>1, <2>1 DEF InvCarries
<1>2. ASSUME NEW w \in InvVm, VmChanges(w)
      PROVE  InvCarries'
  <2>1. icall' = icall /\ backedUp' = backedUp
    BY <1>2 DEF VmChanges, historyVars
  <2>2. \A x \in InvVm : onHv[x].version \in Nat /\ onHv'[x].version \in Nat
                         /\ onHv'[x].version >= onHv[x].version
    BY <1>2, InventoryAssumption DEF VmChanges, InvTypeOK
  <2>3. ASSUME NEW c \in InvCall
        PROVE  InvCarried(c)'
    <3>1. InvCarried(c)
      BY DEF InvCarries
    <3>2. ASSUME icall[c].at \in {"read", "commit"}, NEW r \in DOMAIN icall[c].heard
          PROVE  icall[c].heard[r] \in 1 .. onHv'[<<Of(c), r>>].version
      <4>1. <<Of(c), r>> \in InvVm
        BY <3>1, <3>2 DEF InvCarried, InvVm
      <4>2. QED
        BY <2>2, <3>1, <3>2, <4>1 DEF InvCarried
    <3>3. QED
      BY <2>1, <3>1, <3>2 DEF InvCarried, Of
  <2>4. QED
    BY <2>1, <2>3 DEF InvCarries
<1>3. ASSUME NEW c \in InvCall, NEW h \in Hypervisor, NEW kind, NEW r, AskHypervisor(c, kind, h, r),
             kind = "backup" => <<h, r>> \in InvVm
      PROVE  InvCarries'
  <2>1. InvCarried(c)'
    BY <1>3, InvAsks DEF InvCarried, Of
  <2>2. QED
    BY <1>1, <1>3, <2>1, InvAsks DEF AskHypervisor, historyVars
<1>4. ASSUME NEW c \in InvCall, ProbeHypervisor(c)
      PROVE  InvCarries'
  <2>1. PICK status \in {"connected", "error"} :
            InvMoves(c, IF icall[c].kind = "add" THEN "insert" ELSE "status", status, icall[c].known)
    BY <1>4, InvProbed
  <2>2. InvCarried(c)'
    BY <1>4, <2>1 DEF ProbeHypervisor, InvMoves, InvCarries, InvCarried, Of
  <2>3. QED
    BY <1>1, <1>4, <2>1, <2>2 DEF ProbeHypervisor, InvMoves
<1>5. ASSUME NEW c \in InvCall, ListVms(c)
      PROVE  InvCarries'
  <2> DEFINE heard == [r \in {q \in MoRef : onHv[<<Of(c), q>>].here} |-> onHv[<<Of(c), r>>].version]
  <2>1. InvMoves(c, "read", heard, icall[c].known) /\ onHv' = onHv /\ Of(c) \in Hypervisor
    BY <1>5, InvListed DEF ListVms, InvCarries, InvCarried
  <2>2. /\ DOMAIN heard \subseteq MoRef
        /\ \A r \in DOMAIN heard : heard[r] = onHv[<<Of(c), r>>].version
    OBVIOUS
  <2>3. \A r \in MoRef : onHv[<<Of(c), r>>].version \in 1 .. onHv[<<Of(c), r>>].version
    <3>1. \A r \in MoRef : <<Of(c), r>> \in InvVm
      BY <2>1 DEF InvVm
    <3>2. QED
      BY <3>1, InventoryAssumption DEF InvTypeOK
  <2> HIDE DEF heard
  <2>4. InvCarried(c)'
    BY <2>1, <2>2, <2>3 DEF InvMoves, InvCarries, InvCarried, Of
  <2>5. QED
    BY <1>1, <1>5, <2>1, <2>4 DEF ListVms, InvMoves
<1>6. ASSUME NEW c \in InvCall, ReadVmRows(c)
      PROVE  InvCarries'
  <2>1. InvCarried(c)'
    <3>1. InvMoves(c, "commit", icall[c].heard, icall'[c].known)
      BY <1>6, InvReads DEF InvMoves
    <3>2. InvCarried(c) /\ icall[c].at = "read" /\ onHv' = onHv
      BY <1>6 DEF InvCarries, ReadVmRows, historyVars
    <3>3. QED
      BY <3>1, <3>2 DEF InvMoves, InvCarried, Of
  <2>2. QED
    BY <1>1, <1>6, <2>1, InvReads DEF ReadVmRows, InvMoves, historyVars
<1>7. ASSUME NEW c \in InvCall, Onward(c, "over"), onHv' = onHv, backedUp' = backedUp, icall[c].at # "new"
      PROVE  InvCarries'
  <2>1. InvCarried(c)'
    BY <1>7, InvOnward DEF InvMoves, InvCarries, InvCarried, Of
  <2>2. QED
    BY <1>1, <1>7, <2>1, InvOnward DEF InvMoves
<1>8. ASSUME NEW c \in InvCall,
             \/ AddHypervisor(c) \/ SetStatus(c) \/ DeleteHypervisor(c) \/ CommitVmRows(c)
             \/ MarkVmBackedUp(c) \/ InvGivesUp(c)
      PROVE  InvCarries'
  <2>1. Onward(c, "over") /\ onHv' = onHv /\ backedUp' = backedUp /\ icall[c].at # "new"
    BY <1>8 DEF AddHypervisor, SetStatus, DeleteHypervisor, CommitVmRows, MarkVmBackedUp,
                InvGivesUp, historyVars
  <2>2. QED
    BY <1>7, <2>1
<1>9. ASSUME NEW c \in InvCall, VmBackedUp(c)
      PROVE  InvCarries'
  <2>1. InvMoves(c, "mark", icall[c].heard, icall[c].known) /\ onHv' = onHv /\ icall[c].at # "new"
        /\ backedUp' = backedUp \cup {<<Of(c), icall[c].ref>>}
    BY <1>9, InvOnward DEF VmBackedUp
  <2>2. InvCarried(c)'
    BY <2>1 DEF InvMoves, InvCarries, InvCarried, Of
  <2>3. QED
    BY <1>1, <2>1, <2>2 DEF InvMoves
<1>10. QED
  BY <1>2, <1>3, <1>4, <1>5, <1>6, <1>8, <1>9 DEF InvNext, InvVm

\* Every step keeps additions alone: it touches the hypervisor of one call, and
\* no other call asks for a hypervisor that is being added.
LEMMA InvAddStep ==
    ASSUME InvInv, InvNext
    PROVE  AddedAlone'
<1> USE DEF InvInv
<1>1. ASSUME NEW c \in InvCall, \A d \in InvCall \ {c} : icall'[d] = icall[d],
             icall'[c].hv = icall[c].hv, icall'[c].kind = icall[c].kind,
             \A h \in Hypervisor \ {Of(c)} : hvRow'[h] = hvRow[h] /\ probed'[h] = probed[h],
             \/ icall'[c].at \notin {"ask", "insert"}
             \/ /\ icall[c].at = "ask" /\ hvRow' = hvRow
                /\ icall[c].kind = "add" /\ icall'[c].at = "insert" => icall'[c].heard = probed'[Of(c)]
      PROVE  AddedAlone'
  <2>1. ASSUME NEW d \in InvCall \ {c}, icall[d].kind = "add", icall[d].at \in {"ask", "insert"}
        PROVE  /\ hvRow'[Of(d)] = "absent" /\ \A e \in InvCall \ {d} : Of(e)' # Of(d)'
               /\ icall[d].at = "insert" => icall[d].heard = probed'[Of(d)]
    <3>1. /\ hvRow[Of(d)] = "absent" /\ \A e \in InvCall \ {d} : Of(e) # Of(d)
          /\ icall[d].at = "insert" => icall[d].heard = probed[Of(d)]
      BY <2>1 DEF AddedAlone
    <3>2. Of(d) \in Hypervisor /\ Of(d) # Of(c)
      BY <2>1, <3>1 DEF InvCarries, InvCarried
    <3>3. QED
      BY <1>1, <2>1, <3>1, <3>2 DEF Of
  <2>2. ASSUME icall'[c].kind = "add", icall'[c].at \in {"ask", "insert"}
        PROVE  /\ hvRow'[Of(c)] = "absent" /\ \A e \in InvCall \ {c} : Of(e)' # Of(c)'
               /\ icall'[c].at = "insert" => icall'[c].heard = probed'[Of(c)]
    <3>1. icall[c].at = "ask" /\ hvRow' = hvRow /\ icall[c].kind = "add"
      BY <1>1, <2>2
    <3>2. hvRow[Of(c)] = "absent" /\ \A e \in InvCall \ {c} : Of(e) # Of(c)
      BY <3>1 DEF AddedAlone
    <3>3. Of(c)' = Of(c) /\ \A e \in InvCall \ {c} : Of(e)' = Of(e)
      BY <1>1 DEF Of
    <3>4. icall'[c].at = "insert" => icall'[c].heard = probed'[Of(c)]
      BY <1>1, <2>2, <3>1
    <3>5. QED
      BY <3>1, <3>2, <3>3, <3>4
  <2>3. QED
    BY <1>1, <2>1, <2>2 DEF AddedAlone, Of
<1>2. ASSUME NEW w \in InvVm, VmChanges(w)
      PROVE  AddedAlone'
  BY <1>2 DEF VmChanges, historyVars, AddedAlone, Of
<1>3. ASSUME NEW c \in InvCall, NEW kind, NEW h \in Hypervisor, NEW r, AskHypervisor(c, kind, h, r)
      PROVE  AddedAlone'
  <2>1. UNCHANGED <<hvRow, probed>>
    BY <1>3 DEF AskHypervisor, historyVars
  <2>2. IF kind = "add" THEN hvRow[h] = "absent" /\ \A d \in InvCall : Of(d) # h ELSE hvRow[h] # "absent"
    BY <1>3 DEF AskHypervisor
  <2>3. /\ \A d \in InvCall \ {c} : icall'[d] = icall[d]
        /\ icall'[c].kind = kind /\ icall'[c].hv = h /\ icall'[c].at # "insert"
    BY <1>3, InvAsks
  <2>4. QED
    BY <2>1, <2>2, <2>3 DEF AddedAlone, Of
<1>4. ASSUME NEW c \in InvCall, ProbeHypervisor(c)
      PROVE  AddedAlone'
  <2>1. PICK status \in {"connected", "error"} :
            /\ InvMoves(c, IF icall[c].kind = "add" THEN "insert" ELSE "status", status,
                        icall[c].known)
            /\ probed' = [probed EXCEPT ![Of(c)] = status]
    BY <1>4, InvProbed
  <2>2. icall[c].at = "ask" /\ hvRow' = hvRow /\ Of(c) \in Hypervisor
    BY <1>4 DEF ProbeHypervisor, InvCarries, InvCarried
  <2>3. probed'[Of(c)] = status /\ \A h \in Hypervisor \ {Of(c)} : probed'[h] = probed[h]
    BY <2>1, <2>2 DEF InvTypeOK
  <2>4. QED
    BY <1>1, <2>1, <2>2, <2>3 DEF InvMoves
<1>5. ASSUME NEW c \in InvCall, AddHypervisor(c) \/ SetStatus(c) \/ DeleteHypervisor(c)
      PROVE  AddedAlone'
  <2>1. /\ InvMoves(c, "over", icall[c].heard, icall[c].known) /\ probed' = probed
        /\ \A h \in Hypervisor \ {Of(c)} : hvRow'[h] = hvRow[h]
    BY <1>5, InvOnward DEF AddHypervisor, SetStatus, DeleteHypervisor, historyVars, InvTypeOK
  <2>2. QED
    BY <1>1, <2>1 DEF InvMoves
<1>6. ASSUME NEW c \in InvCall, NEW x, x \notin {"ask", "insert"}, NEW heard, NEW known,
             InvMoves(c, x, heard, known), UNCHANGED <<hvRow, probed>>
      PROVE  AddedAlone'
  BY <1>1, <1>6 DEF InvMoves
<1>7. ASSUME NEW c \in InvCall,
             \/ ListVms(c) \/ ReadVmRows(c) \/ CommitVmRows(c)
             \/ VmBackedUp(c) \/ MarkVmBackedUp(c) \/ InvGivesUp(c)
      PROVE  AddedAlone'
  <2>1. UNCHANGED <<hvRow, probed>>
    BY <1>7 DEF ListVms, ReadVmRows, CommitVmRows, VmBackedUp, MarkVmBackedUp, InvGivesUp, historyVars
  <2>2. CASE ListVms(c)
    BY <1>6, <2>1, <2>2, InvListed
  <2>3. CASE ReadVmRows(c)
    BY <1>6, <2>1, <2>3, InvReads
  <2>4. CASE Onward(c, "over") \/ Onward(c, "mark")
    BY <1>6, <2>1, <2>4, InvOnward
  <2>5. QED
    BY <1>7, <2>2, <2>3, <2>4 DEF CommitVmRows, VmBackedUp, MarkVmBackedUp, InvGivesUp
<1>8. QED
  BY <1>2, <1>3, <1>4, <1>5, <1>7 DEF InvNext, InvVm

\* The order of a hypervisor's statuses is kept by a step that leaves the
\* hypervisor's row, its probe and the calls that hold a status of it alone.
LEMMA InvStatusKept ==
    ASSUME NEW h \in Hypervisor, StatusAt(h), hvRow'[h] = hvRow[h], probed'[h] = probed[h],
           raced \subseteq raced',
           \A d \in InvCall : icall'[d].at = "status" /\ Of(d)' = h <=> icall[d].at = "status" /\ Of(d) = h,
           \A d \in InvCall : icall[d].at = "status" => icall'[d].heard = icall[d].heard
    PROVE  StatusAt(h)'
  BY DEF StatusAt

\* Every step keeps the statuses in order.
LEMMA InvStatusStep ==
    ASSUME InvInv, InvNext
    PROVE  StatusInOrder'
<1> SUFFICES ASSUME NEW h \in Hypervisor PROVE StatusAt(h)'
  BY DEF StatusInOrder
<1> USE DEF InvInv
<1>0. StatusAt(h)
  BY DEF StatusInOrder
<1>1. ASSUME NEW w \in InvVm, VmChanges(w)
      PROVE  StatusAt(h)'
  BY <1>0, <1>1 DEF VmChanges, historyVars, StatusAt, Of
<1>2. ASSUME NEW c \in InvCall, NEW kind, NEW g, NEW r, AskHypervisor(c, kind, g, r)
      PROVE  StatusAt(h)'
  <2>1. UNCHANGED <<hvRow, probed, raced>>
    BY <1>2 DEF AskHypervisor, historyVars
  <2>2. /\ \A d \in InvCall \ {c} : icall'[d] = icall[d]
        /\ icall'[c].at # "status" /\ icall[c].at # "status"
    BY <1>2, InvAsks
  <2>3. QED
    BY <1>0, <2>1, <2>2, InvStatusKept DEF Of
<1>3. ASSUME NEW c \in InvCall, NEW x, NEW heard, NEW known, InvMoves(c, x, heard, known),
             hvRow'[h] = hvRow[h], probed'[h] = probed[h], raced \subseteq raced',
             Of(c) # h \/ (icall[c].at # "status" /\ x # "status")
      PROVE  StatusAt(h)'
  <2>1. \A d \in InvCall \ {c} : icall'[d] = icall[d]
    BY <1>3 DEF InvMoves
  <2>2. Of(c)' = Of(c) /\ icall'[c].at = x /\ icall'[c].heard = heard
    BY <1>3 DEF InvMoves, Of
  <2>3. CASE Of(c) = h
    BY <1>0, <1>3, <2>1, <2>2, <2>3, InvStatusKept DEF Of
  <2>4. CASE Of(c) # h
    BY <1>0, <1>3, <2>1, <2>2, <2>4 DEF StatusAt, Of
  <2>5. QED
    BY <2>3, <2>4
<1>4. ASSUME NEW c \in InvCall, ProbeHypervisor(c)
      PROVE  StatusAt(h)'
  <2>1. PICK status \in {"connected", "error"} :
            /\ InvMoves(c, IF icall[c].kind = "add" THEN "insert" ELSE "status", status,
                        icall[c].known)
            /\ probed' = [probed EXCEPT ![Of(c)] = status]
    BY <1>4, InvProbed
  <2>2. /\ icall[c].at = "ask" /\ hvRow' = hvRow /\ Of(c) \in Hypervisor /\ raced \subseteq raced'
        /\ (\E d \in InvCall \ {c} : Of(d) = Of(c) /\ icall[d].at = "status")
              => <<"status", Of(c)>> \in raced'
    BY <1>4 DEF ProbeHypervisor, InvCarries, InvCarried
  <2>3. probed'[Of(c)] = status /\ (h # Of(c) => probed'[h] = probed[h])
    BY <2>1, <2>2 DEF InvTypeOK
  <2>4. CASE h # Of(c)
    BY <1>3, <2>1, <2>2, <2>3, <2>4
  <2>5. CASE h = Of(c)
    <3>1. /\ \A d \in InvCall \ {c} : icall'[d] = icall[d]
          /\ icall'[c].at = (IF icall[c].kind = "add" THEN "insert" ELSE "status")
          /\ icall'[c].heard = status /\ icall'[c].hv = h
      BY <2>1, <2>5 DEF InvMoves, Of
    <3>2. icall[c].kind = "add" => hvRow[h] = "absent" /\ \A d \in InvCall \ {c} : Of(d) # h
      BY <2>2, <2>5 DEF AddedAlone
    <3>3. CASE icall[c].kind = "add"
      BY <2>2, <3>1, <3>2, <3>3 DEF StatusAt, Of
    <3>4. CASE icall[c].kind # "add"
      BY <2>2, <2>3, <2>5, <3>1, <3>4 DEF StatusAt, Of
    <3>5. QED
      BY <3>3, <3>4
  <2>6. QED
    BY <2>4, <2>5
<1>5. ASSUME NEW c \in InvCall, AddHypervisor(c) \/ SetStatus(c) \/ DeleteHypervisor(c)
      PROVE  StatusAt(h)'
  <2>1. /\ InvMoves(c, "over", icall[c].heard, icall[c].known) /\ probed' = probed /\ raced' = raced
        /\ h # Of(c) => hvRow'[h] = hvRow[h]
    BY <1>5, InvOnward DEF AddHypervisor, SetStatus, DeleteHypervisor, historyVars, InvTypeOK
  <2>2. CASE h # Of(c)
    BY <1>3, <2>1, <2>2
  <2>3. /\ \A d \in InvCall \ {c} : icall'[d] = icall[d]
        /\ icall'[c].at = "over" /\ icall'[c].hv = icall[c].hv
    BY <2>1 DEF InvMoves
  <2>4. CASE h = Of(c) /\ AddHypervisor(c)
    <3>1. icall[c].at = "insert" /\ hvRow'[h] = icall[c].heard
      BY <2>4 DEF AddHypervisor, InvTypeOK
    <3>2. icall[c].heard = probed[h] /\ \A d \in InvCall \ {c} : Of(d) # h
      BY <2>4, <3>1 DEF InvCarries, InvCarried, AddedAlone
    <3>3. QED
      BY <2>1, <2>3, <2>4, <3>1, <3>2 DEF StatusAt, Of
  <2>5. CASE h = Of(c) /\ SetStatus(c)
    <3>1. icall[c].at = "status" /\ hvRow'[h] = IF hvRow[h] = "absent" THEN hvRow[h] ELSE icall[c].heard
      BY <2>5 DEF SetStatus, InvTypeOK
    <3>2. QED
      BY <1>0, <2>1, <2>3, <2>5, <3>1 DEF StatusAt, Of
  <2>6. CASE h = Of(c) /\ DeleteHypervisor(c)
    <3>1. icall[c].at = "erase" /\ hvRow'[h] \in {hvRow[h], "absent"}
      BY <2>6 DEF DeleteHypervisor, InvTypeOK
    <3>2. QED
      BY <1>0, <2>1, <2>3, <2>6, <3>1 DEF StatusAt, Of
  <2>7. QED
    BY <1>5, <2>2, <2>4, <2>5, <2>6
<1>6. ASSUME NEW c \in InvCall, InvGivesUp(c)
      PROVE  StatusAt(h)'
  <2>1. /\ InvMoves(c, "over", icall[c].heard, icall[c].known) /\ UNCHANGED <<hvRow, probed>>
        /\ raced' = IF icall[c].at = "status" THEN raced \cup {<<"status", Of(c)>>} ELSE raced
    BY <1>6, InvOnward DEF InvGivesUp
  <2>2. CASE icall[c].at = "status" /\ Of(c) = h
    BY <2>1, <2>2 DEF StatusAt
  <2>3. CASE ~(icall[c].at = "status" /\ Of(c) = h)
    BY <1>3, <2>1, <2>3
  <2>4. QED
    BY <2>2, <2>3
<1>7. ASSUME NEW c \in InvCall,
             \/ ListVms(c) \/ ReadVmRows(c) \/ CommitVmRows(c) \/ VmBackedUp(c) \/ MarkVmBackedUp(c)
      PROVE  StatusAt(h)'
  <2>1. UNCHANGED <<hvRow, probed>> /\ raced \subseteq raced' /\ icall[c].at # "status"
    BY <1>7 DEF ListVms, ReadVmRows, CommitVmRows, VmBackedUp, MarkVmBackedUp, historyVars
  <2>2. CASE ListVms(c)
    BY <1>3, <2>1, <2>2, InvListed
  <2>3. CASE ReadVmRows(c)
    BY <1>3, <2>1, <2>3, InvReads
  <2>4. CASE Onward(c, "over") \/ Onward(c, "mark")
    BY <1>3, <2>1, <2>4, InvOnward
  <2>5. QED
    BY <1>7, <2>2, <2>3, <2>4 DEF CommitVmRows, VmBackedUp, MarkVmBackedUp
<1>8. QED
  BY <1>1, <1>2, <1>4, <1>5, <1>6, <1>7 DEF InvNext

\* The order of a hypervisor's rows is kept by a step that changes none of them
\* and lets no call hold an answer that it has not held.
LEMMA InvRowsKept ==
    ASSUME NEW h \in Hypervisor, RowsAt(h), raced \subseteq raced',
           \A r \in MoRef : vmRow'[<<h, r>>].seen = vmRow[<<h, r>>].seen,
           <<"vms", h>> \notin raced' => \A r \in MoRef : newest'[<<h, r>>] = newest[<<h, r>>],
           \A d \in InvCall : icall'[d].at \in {"read", "commit"} /\ Of(d)' = h =>
                /\ icall[d].at \in {"read", "commit"} /\ Of(d) = h /\ icall'[d].heard = icall[d].heard
                /\ DOMAIN icall[d].heard \subseteq MoRef
    PROVE  RowsAt(h)'
  BY DEF RowsAt

\* Every step keeps the rows in order.
LEMMA InvRowStep ==
    ASSUME InvInv, InvNext
    PROVE  RowsInOrder'
<1> SUFFICES ASSUME NEW h \in Hypervisor PROVE RowsAt(h)'
  BY DEF RowsInOrder
<1> USE DEF InvInv
<1>0. /\ RowsAt(h) /\ \A r \in MoRef : <<h, r>> \in InvVm
      /\ \A d \in InvCall : icall[d].at \in {"read", "commit"} => DOMAIN icall[d].heard \subseteq MoRef
  BY DEF RowsInOrder, InvVm, InvCarries, InvCarried
<1>1. ASSUME NEW w \in InvVm, VmChanges(w)
      PROVE  RowsAt(h)'
  BY <1>0, <1>1 DEF VmChanges, historyVars, RowsAt, Of
<1>2. ASSUME NEW c \in InvCall, NEW kind, NEW g, NEW r, AskHypervisor(c, kind, g, r)
      PROVE  RowsAt(h)'
  <2>1. UNCHANGED <<vmRow, newest, raced>>
    BY <1>2 DEF AskHypervisor, historyVars
  <2>2. /\ \A d \in InvCall \ {c} : icall'[d] = icall[d]
        /\ icall'[c].at \in {"ask", "erase"}
    BY <1>2, InvAsks
  <2>3. QED
    BY <1>0, <2>1, <2>2, InvRowsKept DEF Of
<1>3. ASSUME NEW c \in InvCall, NEW x, NEW heard, NEW known, InvMoves(c, x, heard, known),
             raced \subseteq raced', newest' = newest,
             \A r \in MoRef : vmRow'[<<h, r>>].seen = vmRow[<<h, r>>].seen,
             \/ x \notin {"read", "commit"} \/ Of(c) # h
             \/ icall[c].at \in {"read", "commit"} /\ heard = icall[c].heard
      PROVE  RowsAt(h)'
  <2>1. /\ \A d \in InvCall \ {c} : icall'[d] = icall[d]
        /\ Of(c)' = Of(c) /\ icall'[c].at = x /\ icall'[c].heard = heard
    BY <1>3 DEF InvMoves, Of
  <2>2. ASSUME NEW d \in InvCall, icall'[d].at \in {"read", "commit"}, Of(d)' = h
        PROVE  /\ icall[d].at \in {"read", "commit"} /\ Of(d) = h /\ icall'[d].heard = icall[d].heard
               /\ DOMAIN icall[d].heard \subseteq MoRef
    BY <1>0, <1>3, <2>1, <2>2 DEF Of
  <2>3. QED
    BY <1>0, <1>3, <2>2, InvRowsKept
<1>4. ASSUME NEW c \in InvCall, ListVms(c)
      PROVE  RowsAt(h)'
  <2> DEFINE heard == [r \in {q \in MoRef : onHv[<<Of(c), q>>].here} |-> onHv[<<Of(c), r>>].version]
  <2>1. /\ InvMoves(c, "read", heard, icall[c].known) /\ UNCHANGED <<vmRow, newest>>
        /\ raced \subseteq raced'
        /\ (\E d \in InvCall \ {c} : Of(d) = Of(c) /\ icall[d].at \in {"read", "commit"})
              => <<"vms", Of(c)>> \in raced'
    BY <1>4, InvListed DEF ListVms
  <2>2. /\ DOMAIN heard \subseteq MoRef
        /\ \A r \in DOMAIN heard : heard[r] = onHv[<<Of(c), r>>].version
    OBVIOUS
  <2> HIDE DEF heard
  <2>3. CASE Of(c) # h
    BY <1>3, <2>1, <2>3
  <2>4. CASE Of(c) = h
    <3>1. \A r \in DOMAIN heard : vmRow'[<<h, r>>].seen <= heard[r]
      BY <1>0, <2>1, <2>2, <2>4 DEF RowsBehind
    <3>2. /\ \A d \in InvCall \ {c} : icall'[d] = icall[d]
          /\ Of(c)' = h /\ icall'[c].at = "read" /\ icall'[c].heard = heard
      BY <2>1, <2>4 DEF InvMoves, Of
    <3>3. QED
      BY <1>0, <2>1, <2>4, <3>1, <3>2 DEF RowsAt, Of
  <2>5. QED
    BY <2>3, <2>4
<1>5. ASSUME NEW c \in InvCall, ReadVmRows(c)
      PROVE  RowsAt(h)'
  <2>1. UNCHANGED <<vmRow, newest, raced>> /\ icall[c].at = "read"
    BY <1>5 DEF ReadVmRows, historyVars
  <2>2. QED
    BY <1>3, <1>5, <2>1, InvReads
<1>6. ASSUME NEW c \in InvCall, CommitVmRows(c)
      PROVE  RowsAt(h)'
  <2>1. /\ InvMoves(c, "over", icall[c].heard, icall[c].known) /\ raced' = raced
        /\ icall[c].at = "commit"
    BY <1>6, InvOnward DEF CommitVmRows
  <2>2. CASE ~Fits(c)
    <3>1. UNCHANGED <<vmRow, newest>>
      BY <1>6, <2>2 DEF CommitVmRows
    <3>2. QED
      BY <1>3, <2>1, <3>1
  <2>3. CASE Fits(c)
    <3>1. \A r \in MoRef :
             /\ vmRow'[<<h, r>>] = IF h = Of(c) /\ r \in DOMAIN icall[c].heard
                                   THEN Upserted(vmRow[<<h, r>>], icall[c].heard[r])
                                   ELSE vmRow[<<h, r>>]
             /\ newest'[<<h, r>>] = IF vmRow'[<<h, r>>].seen > newest[<<h, r>>]
                                    THEN vmRow'[<<h, r>>].seen ELSE newest[<<h, r>>]
      <4>1. ASSUME NEW r \in MoRef
            PROVE  /\ vmRow'[<<h, r>>] = IF h = Of(c) /\ r \in DOMAIN icall[c].heard
                                         THEN Upserted(vmRow[<<h, r>>], icall[c].heard[r])
                                         ELSE vmRow[<<h, r>>]
                   /\ newest'[<<h, r>>] = IF vmRow'[<<h, r>>].seen > newest[<<h, r>>]
                                          THEN vmRow'[<<h, r>>].seen ELSE newest[<<h, r>>]
        BY <1>0, <1>6, <2>3 DEF CommitVmRows
      <4>2. QED
        BY <4>1
    <3>2. \A r \in MoRef : vmRow[<<h, r>>].seen \in Nat /\ newest[<<h, r>>] \in Nat
      BY <1>0, InventoryAssumption DEF InvTypeOK
    <3>3. CASE h # Of(c)
      <4>1. \A r \in MoRef : vmRow'[<<h, r>>].seen = vmRow[<<h, r>>].seen
        BY <3>1, <3>3
      <4>2. <<"vms", h>> \notin raced' => \A r \in MoRef : newest'[<<h, r>>] = newest[<<h, r>>]
        BY <1>0, <2>1, <3>1, <3>2, <4>1 DEF RowsAt
      <4>3. ASSUME NEW d \in InvCall, icall'[d].at \in {"read", "commit"}, Of(d)' = h
            PROVE  /\ icall[d].at \in {"read", "commit"} /\ Of(d) = h
                   /\ icall'[d].heard = icall[d].heard /\ DOMAIN icall[d].heard \subseteq MoRef
        BY <1>0, <2>1, <4>3 DEF InvMoves, Of
      <4>4. QED
        BY <1>0, <2>1, <4>1, <4>2, <4>3, InvRowsKept
    <3>4. CASE h = Of(c) /\ <<"vms", h>> \notin raced
      <4>1. /\ \A r \in DOMAIN icall[c].heard : vmRow[<<h, r>>].seen <= icall[c].heard[r]
            /\ \A d \in InvCall : icall[d].at \in {"read", "commit"} /\ Of(d) = h => c = d
            /\ \A r \in MoRef : vmRow[<<h, r>>].seen = newest[<<h, r>>]
        BY <1>0, <2>1, <3>4 DEF RowsAt
      <4>2. \A r \in MoRef : r \in DOMAIN icall[c].heard => icall[c].heard[r] \in Nat
        <5>1. \A r \in MoRef : onHv[<<h, r>>].version \in Nat
          BY <1>0, InventoryAssumption DEF InvTypeOK
        <5>2. ASSUME NEW r \in MoRef, r \in DOMAIN icall[c].heard
              PROVE  icall[c].heard[r] \in Nat
          <6>1. icall[c].heard[r] \in 1 .. onHv[<<Of(c), r>>].version
            BY <2>1, <5>2 DEF InvCarries, InvCarried
          <6>2. onHv[<<Of(c), r>>].version \in Nat
            BY <3>4, <5>1
          <6>3. QED
            BY <6>1, <6>2
        <5>3. QED
          BY <5>2
      <4>3. ASSUME NEW r \in MoRef
            PROVE  vmRow'[<<h, r>>].seen = newest'[<<h, r>>]
        <5>1. CASE r \in DOMAIN icall[c].heard
          <6>1. vmRow'[<<h, r>>].seen = icall[c].heard[r]
            <7>1. vmRow[<<h, r>>] \in [seen : 0 .. Versions + 1, protected : BOOLEAN]
              BY <1>0 DEF InvTypeOK
            <7>2. vmRow'[<<h, r>>] = Upserted(vmRow[<<h, r>>], icall[c].heard[r])
              BY <3>1, <3>4, <5>1
            <7>3. QED
              BY <7>1, <7>2, InvUpserted
          <6>2. QED
            BY <3>1, <3>2, <4>1, <4>2, <5>1, <6>1
        <5>2. CASE r \notin DOMAIN icall[c].heard
          BY <3>1, <3>2, <4>1, <5>2
        <5>3. QED
          BY <5>1, <5>2
      <4>4. \A d \in InvCall : ~(icall'[d].at \in {"read", "commit"} /\ Of(d)' = h)
        BY <2>1, <4>1 DEF InvMoves, Of
      <4>5. QED
        BY <4>3, <4>4 DEF RowsAt
    <3>5. CASE <<"vms", h>> \in raced
      BY <2>1, <3>5 DEF RowsAt
    <3>6. QED
      BY <3>3, <3>4, <3>5
  <2>4. QED
    BY <2>2, <2>3
<1>7. ASSUME NEW c \in InvCall, MarkVmBackedUp(c)
      PROVE  RowsAt(h)'
  <2>1. InvMoves(c, "over", icall[c].heard, icall[c].known) /\ UNCHANGED <<newest, raced>>
    BY <1>7, InvOnward DEF MarkVmBackedUp
  <2>2. \A w \in InvVm : vmRow'[w].seen = vmRow[w].seen
    BY <1>7, InvMarked
  <2>3. QED
    BY <1>0, <1>3, <2>1, <2>2
<1>8. ASSUME NEW c \in InvCall,
             \/ ProbeHypervisor(c) \/ AddHypervisor(c) \/ SetStatus(c) \/ DeleteHypervisor(c)
             \/ VmBackedUp(c) \/ InvGivesUp(c)
      PROVE  RowsAt(h)'
  <2>1. UNCHANGED <<vmRow, newest>> /\ raced \subseteq raced'
    BY <1>8 DEF ProbeHypervisor, AddHypervisor, SetStatus, DeleteHypervisor, VmBackedUp, InvGivesUp,
                historyVars
  <2>2. CASE ProbeHypervisor(c)
    BY <1>3, <2>1, <2>2, InvProbed
  <2>3. CASE Onward(c, "over") \/ Onward(c, "mark")
    BY <1>3, <2>1, <2>3, InvOnward
  <2>4. QED
    BY <1>8, <2>2, <2>3 DEF AddHypervisor, SetStatus, DeleteHypervisor, VmBackedUp, InvGivesUp
<1>9. QED
  BY <1>1, <1>2, <1>4, <1>5, <1>6, <1>7, <1>8 DEF InvNext

\* No step lets a row overtake its VM or marks a VM that has no backup.
LEMMA InvBehindStep ==
    ASSUME InvInv, InvNext
    PROVE  RowsBehind'
<1> USE DEF InvInv
<1>0. \A w \in InvVm : /\ vmRow[w] \in [seen : 0 .. Versions + 1, protected : BOOLEAN]
                       /\ onHv[w].version \in Nat
  BY InventoryAssumption DEF InvTypeOK
<1>1. ASSUME NEW w \in InvVm, VmChanges(w)
      PROVE  RowsBehind'
  <2>1. UNCHANGED <<vmRow, backedUp>>
    BY <1>1 DEF VmChanges, historyVars
  <2>2. \A x \in InvVm : onHv'[x].version \in Nat /\ onHv'[x].version >= onHv[x].version
    BY <1>0, <1>1 DEF VmChanges, InvTypeOK
  <2>3. QED
    BY <1>0, <2>1, <2>2, InventoryAssumption DEF RowsBehind
<1>2. ASSUME NEW c \in InvCall, CommitVmRows(c), Fits(c)
      PROVE  RowsBehind'
  <2>1. UNCHANGED <<onHv, backedUp>> /\ icall[c].at = "commit"
    BY <1>2 DEF CommitVmRows
  <2>2. ASSUME NEW w \in InvVm
        PROVE  vmRow'[w].seen <= onHv[w].version /\ (vmRow'[w].protected => vmRow'[w].seen > 0 /\ w \in backedUp)
    <3>1. vmRow'[w] = IF w[1] = Of(c) /\ w[2] \in DOMAIN icall[c].heard
                      THEN Upserted(vmRow[w], icall[c].heard[w[2]]) ELSE vmRow[w]
      BY <1>2 DEF CommitVmRows
    <3>2. CASE w[1] = Of(c) /\ w[2] \in DOMAIN icall[c].heard
      <4>1. w = <<Of(c), w[2]>>
        BY <3>2 DEF InvVm
      <4>2. icall[c].heard[w[2]] \in 1 .. onHv[w].version
        BY <2>1, <3>2, <4>1 DEF InvCarries, InvCarried
      <4>3. /\ vmRow'[w].seen = icall[c].heard[w[2]]
            /\ vmRow'[w].protected => vmRow[w].protected
        BY <1>0, <3>1, <3>2 DEF Upserted
      <4>4. QED
        BY <1>0, <4>2, <4>3 DEF RowsBehind
    <3>3. CASE ~(w[1] = Of(c) /\ w[2] \in DOMAIN icall[c].heard)
      BY <3>1, <3>3 DEF RowsBehind
    <3>4. QED
      BY <3>2, <3>3
  <2>3. QED
    BY <2>1, <2>2 DEF RowsBehind
<1>3. ASSUME NEW c \in InvCall, MarkVmBackedUp(c)
      PROVE  RowsBehind'
  <2> DEFINE markedVm == <<Of(c), icall[c].ref>>
  <2>1. markedVm \in backedUp /\ UNCHANGED <<onHv, backedUp>>
    BY <1>3 DEF MarkVmBackedUp, InvCarries, InvCarried
  <2>2. \/ vmRow' = vmRow
        \/ vmRow[markedVm].seen # 0 /\ vmRow' = [vmRow EXCEPT ![markedVm].protected = TRUE]
    BY <1>3 DEF MarkVmBackedUp
  <2>3. markedVm \in InvVm /\ DOMAIN vmRow = InvVm
    BY <2>1 DEF InvTypeOK
  <2> HIDE DEF markedVm
  <2>4. \A w \in InvVm : /\ vmRow'[w].seen = vmRow[w].seen
                         /\ vmRow'[w].protected =>
                               vmRow[w].protected \/ (w = markedVm /\ vmRow[markedVm].seen # 0)
    BY <1>0, <2>2, <2>3
  <2>5. QED
    BY <1>0, <2>1, <2>3, <2>4 DEF RowsBehind
<1>4. ASSUME UNCHANGED <<vmRow, onHv>>, backedUp \subseteq backedUp'
      PROVE  RowsBehind'
  BY <1>4 DEF RowsBehind
<1>5. ASSUME NEW c \in InvCall,
             \/ ProbeHypervisor(c) \/ AddHypervisor(c) \/ SetStatus(c) \/ DeleteHypervisor(c)
             \/ ListVms(c) \/ ReadVmRows(c) \/ VmBackedUp(c) \/ InvGivesUp(c)
             \/ \E kind, h, r : AskHypervisor(c, kind, h, r)
      PROVE  RowsBehind'
  BY <1>4, <1>5 DEF ProbeHypervisor, AddHypervisor, SetStatus, DeleteHypervisor, ListVms, ReadVmRows,
        VmBackedUp, InvGivesUp, AskHypervisor, historyVars
<1>6. ASSUME NEW c \in InvCall, CommitVmRows(c), ~Fits(c)
      PROVE  RowsBehind'
  BY <1>4, <1>6 DEF CommitVmRows
<1>7. QED
  BY <1>1, <1>2, <1>3, <1>5, <1>6 DEF InvNext

\* No step leaves a backup unmarked that has nobody to mark it.
LEMMA InvMarkStep ==
    ASSUME InvInv, InvNext
    PROVE  BackupsMark'
<1> USE DEF InvInv
<1>0. \A w \in InvVm : vmRow[w] \in [seen : 0 .. Versions + 1, protected : BOOLEAN]
  BY DEF InvTypeOK
<1>1. ASSUME backedUp' = backedUp, unmarked \subseteq unmarked',
             \A w \in InvVm : vmRow[w].protected => vmRow'[w].protected,
             \A c \in InvCall : icall[c].at = "mark" => icall'[c] = icall[c]
      PROVE  BackupsMark'
  BY <1>1 DEF BackupsMark, InvTypeOK, Of
<1>2. ASSUME NEW w \in InvVm, VmChanges(w)
      PROVE  BackupsMark'
  BY <1>1, <1>2 DEF VmChanges, historyVars
<1>3. ASSUME NEW c \in InvCall, NEW kind, NEW h, NEW r, AskHypervisor(c, kind, h, r)
      PROVE  BackupsMark'
  BY <1>1, <1>3, InvAsks DEF AskHypervisor, historyVars
<1>4. ASSUME NEW c \in InvCall, NEW x, NEW heard, NEW known, InvMoves(c, x, heard, known),
             icall[c].at # "mark", UNCHANGED <<backedUp, unmarked, vmRow>>
      PROVE  BackupsMark'
  BY <1>1, <1>4 DEF InvMoves
<1>5. ASSUME NEW c \in InvCall,
             \/ ProbeHypervisor(c) \/ AddHypervisor(c) \/ SetStatus(c) \/ DeleteHypervisor(c)
             \/ ListVms(c) \/ ReadVmRows(c)
      PROVE  BackupsMark'
  <2>1. UNCHANGED <<vmRow, backedUp, unmarked>> /\ icall[c].at # "mark"
    BY <1>5 DEF ProbeHypervisor, AddHypervisor, SetStatus, DeleteHypervisor, ListVms, ReadVmRows,
                historyVars
  <2>2. CASE ProbeHypervisor(c)
    BY <1>4, <2>1, <2>2, InvProbed
  <2>3. CASE ListVms(c)
    BY <1>4, <2>1, <2>3, InvListed
  <2>4. CASE ReadVmRows(c)
    BY <1>4, <2>1, <2>4, InvReads
  <2>5. CASE Onward(c, "over")
    BY <1>4, <2>1, <2>5, InvOnward
  <2>6. QED
    BY <1>5, <2>2, <2>3, <2>4, <2>5 DEF AddHypervisor, SetStatus, DeleteHypervisor
<1>6. ASSUME NEW c \in InvCall, CommitVmRows(c)
      PROVE  BackupsMark'
  <2>1. /\ InvMoves(c, "over", icall[c].heard, icall[c].known) /\ UNCHANGED <<backedUp, unmarked>>
        /\ icall[c].at = "commit"
    BY <1>6, InvOnward DEF CommitVmRows
  <2>2. ASSUME NEW w \in InvVm, vmRow[w].protected
        PROVE  vmRow'[w].protected
    <3>1. \/ vmRow' = vmRow
          \/ vmRow'[w] = vmRow[w] \/ vmRow'[w] = Upserted(vmRow[w], icall[c].heard[w[2]])
      BY <1>6 DEF CommitVmRows
    <3>2. vmRow[w].seen # 0
      BY <1>0, <2>2 DEF RowsBehind
    <3>3. Upserted(vmRow[w], icall[c].heard[w[2]]).protected
      BY <1>0, <2>2, <3>2 DEF Upserted
    <3>4. QED
      BY <2>2, <3>1, <3>3
  <2>3. QED
    BY <1>1, <2>1, <2>2 DEF InvMoves
<1>7. ASSUME NEW c \in InvCall, VmBackedUp(c)
      PROVE  BackupsMark'
  <2>1. /\ InvMoves(c, "mark", icall[c].heard, icall[c].known) /\ UNCHANGED <<vmRow, unmarked>>
        /\ icall[c].at = "ask" /\ backedUp' = backedUp \cup {<<Of(c), icall[c].ref>>}
    BY <1>7, InvOnward DEF VmBackedUp
  <2>2. /\ \A d \in InvCall \ {c} : icall'[d] = icall[d]
        /\ icall'[c].at = "mark" /\ Of(c)' = Of(c) /\ icall'[c].ref = icall[c].ref
    BY <2>1 DEF InvMoves, Of
  <2>3. \A d \in InvCall : icall[d].at = "mark" =>
            icall'[d].at = "mark" /\ <<Of(d)', icall'[d].ref>> = <<Of(d), icall[d].ref>>
    BY <2>1, <2>2 DEF Of
  <2>4. QED
    BY <2>1, <2>2, <2>3 DEF BackupsMark
<1>8. ASSUME NEW c \in InvCall, MarkVmBackedUp(c) \/ InvGivesUp(c)
      PROVE  BackupsMark'
  <2> DEFINE markedVm == <<Of(c), icall[c].ref>>
  <2>1. /\ InvMoves(c, "over", icall[c].heard, icall[c].known) /\ backedUp' = backedUp
        /\ unmarked \subseteq unmarked'
    BY <1>8, InvOnward DEF MarkVmBackedUp, InvGivesUp
  <2>2. icall[c].at = "mark" => markedVm \in backedUp /\ markedVm \in InvVm
    BY DEF InvTypeOK, InvCarries, InvCarried
  <2>3. \A w \in InvVm : vmRow[w].protected => vmRow'[w].protected
    BY <1>8, InvMarked DEF InvGivesUp
  <2>4. icall[c].at = "mark" => markedVm \in unmarked' \/ vmRow'[markedVm].protected
    <3>1. CASE MarkVmBackedUp(c)
      <4>1. markedVm \in InvVm /\ DOMAIN vmRow = InvVm /\ vmRow[markedVm] \in [seen : 0 .. Versions + 1, protected : BOOLEAN]
        BY <1>0, <2>2, <3>1 DEF MarkVmBackedUp, InvTypeOK
      <4>2. markedVm \in unmarked' \/ vmRow' = [vmRow EXCEPT ![markedVm].protected = TRUE]
        BY <3>1 DEF MarkVmBackedUp
      <4> HIDE DEF markedVm
      <4>3. QED
        BY <4>1, <4>2
    <3>2. CASE InvGivesUp(c)
      BY <3>2 DEF InvGivesUp
    <3>3. QED
      BY <1>8, <3>1, <3>2
  <2>5. \A d \in InvCall \ {c} : icall'[d] = icall[d]
    BY <2>1 DEF InvMoves
  <2>6. ASSUME NEW w \in backedUp'
        PROVE  \/ vmRow'[w].protected \/ w \in unmarked'
               \/ \E d \in InvCall : icall'[d].at = "mark" /\ <<Of(d)', icall'[d].ref>> = w
    <3>1. w \in backedUp /\ w \in InvVm
      BY <2>1, <2>6 DEF InvTypeOK
    <3>2. CASE vmRow[w].protected \/ w \in unmarked
      BY <2>1, <2>3, <3>1, <3>2
    <3>3. CASE \E d \in InvCall : icall[d].at = "mark" /\ <<Of(d), icall[d].ref>> = w
      BY <2>4, <2>5, <3>3 DEF Of
    <3>4. QED
      BY <3>1, <3>2, <3>3 DEF BackupsMark
  <2>7. QED
    BY <2>6 DEF BackupsMark
<1>9. QED
  BY <1>2, <1>3, <1>5, <1>6, <1>7, <1>8 DEF InvNext

\* The invariant of the inventory holds in every state, and with it its type.
THEOREM InvInvariant == InvSpec => []InvInv
<1>1. InvInit => InvInv
  <2> SUFFICES ASSUME InvInit PROVE InvInv
    OBVIOUS
  <2>1. \A c \in InvCall : icall[c] = NewInvCall
    BY DEF InvInit
  <2>2. NewInvCall.at = "new" /\ DOMAIN NewInvCall = InvFields
    BY DEF NewInvCall, InvFields
  <2>3. InvTypeOK
    BY <2>1, <2>2, InventoryAssumption DEF InvInit, InvTypeOK, NoRow
  <2>4. InvCarries /\ AddedAlone
    BY <2>1, <2>2 DEF InvInit, InvCarries, InvCarried, AddedAlone
  <2>5. StatusInOrder
    BY <2>1, <2>2 DEF InvInit, StatusInOrder, StatusAt
  <2>6. RowsInOrder
    BY <2>1, <2>2 DEF InvInit, RowsInOrder, RowsAt, InvVm, NoRow
  <2>7. RowsBehind /\ BackupsMark
    BY DEF InvInit, RowsBehind, BackupsMark, NoRow
  <2>8. QED
    BY <2>3, <2>4, <2>5, <2>6, <2>7 DEF InvInv
<1>2. InvInv /\ [InvNext]_inventoryVars => InvInv'
  <2>1. CASE InvNext
    BY <2>1, InvTypeStep, InvCarriesStep, InvAddStep, InvStatusStep, InvRowStep, InvBehindStep,
       InvMarkStep DEF InvInv
  <2>2. CASE UNCHANGED inventoryVars
    BY <2>2 DEF inventoryVars, InvInv, InvTypeOK, InvCarries, InvCarried, AddedAlone, StatusInOrder,
                StatusAt, RowsInOrder, RowsAt, RowsBehind, BackupsMark, Of
  <2>3. QED
    BY <2>1, <2>2
<1>3. QED
  BY <1>1, <1>2, PTL DEF InvSpec

\* A VM with a backup counts as protected and nothing else does, and rows and
\* statuses only go back when two answers were on their way at once.
THEOREM InventoryStaysSound == InvSpec => []InventorySound
<1>1. InvInv => InventorySound
  <2> SUFFICES ASSUME InvInv PROVE InventorySound
    OBVIOUS
  <2>1. BackupMarked
    BY DEF InvInv, BackupsMark, BackupMarked
  <2>2. MarkHasBackup
    BY DEF InvInv, RowsBehind, MarkHasBackup
  <2>3. AnswersInOrder
    BY DEF InvInv, StatusInOrder, StatusAt, RowsInOrder, RowsAt, AnswersInOrder
  <2>4. QED
    BY <2>1, <2>2, <2>3 DEF InventorySound
<1>2. QED
  BY <1>1, InvInvariant, PTL

-----------------------------------------------------------------------------
(***************************************************************************)
(* The tasks of agents.                                                    *)
(***************************************************************************)
AgentShape == born \in Seq(Task) /\ runs \in [Task -> Nat] /\ polled \in [Agent -> SUBSET Task]

\* Where a task is of which every report was answered: it waits to be handed
\* out, or it was run once, and either its report is awaited or it is no
\* longer pending.
HeardAt(t) ==
    t \notin unheard =>
        /\ runs[t] <= 1
        /\ life[owner[t]] = "new" \/ verdict[t] = "none" => runs[t] = 0
        /\ life[owner[t]] = "up" /\ runs[t] = 1 =>
              /\ t \notin polled[owner[t]]
              /\ verdict[t] = "pending" => awaiting[owner[t]] = t

\* What is reported on was a task once.
ReportsOnTasks == \A m \in flight : verdict[m.task] # "none"

AgentInv == AgentTypeOK /\ AgentShape /\ ReportsOnTasks /\ \A t \in Task : HeardAt(t)

\* A task is created once, and has its place behind the others.
LEMMA BornLater ==
  ASSUME born \in Seq(Task), IsInjective(born), NEW t \in Task, t \notin ToSet(born)
  PROVE  /\ Append(born, t) \in Seq(Task) /\ ToSet(Append(born, t)) = ToSet(born) \cup {t}
         /\ IsInjective(Append(born, t))
<1> DEFINE more == Append(born, t)
<1>1. /\ more \in Seq(Task) /\ DOMAIN more = 1 .. Len(born) + 1 /\ DOMAIN born = 1 .. Len(born)
      /\ Len(born) \in Nat /\ more[Len(born) + 1] = t
      /\ \A i \in 1 .. Len(born) : more[i] = born[i]
  OBVIOUS
<1>2. ToSet(more) = ToSet(born) \cup {t}
  BY <1>1 DEF ToSet
<1>3. \A i \in 1 .. Len(born) : born[i] # t
  BY <1>1 DEF ToSet
<1>4. \A i, j \in 1 .. Len(born) : born[i] = born[j] => i = j
  BY <1>1 DEF IsInjective
<1>5. \A i \in 1 .. Len(born) + 1 : i \in 1 .. Len(born) \/ i = Len(born) + 1
  BY <1>1
<1>6. ASSUME NEW i \in DOMAIN more, NEW j \in DOMAIN more, more[i] = more[j] PROVE i = j
  BY <1>1, <1>3, <1>4, <1>5, <1>6
<1>7. IsInjective(more)
  BY <1>6 DEF IsInjective
<1> QED
  BY <1>1, <1>2, <1>7

LEMMA AgentStart == AgentAssumption /\ AgentInit => AgentInv
<1> SUFFICES ASSUME AgentAssumption, AgentInit PROVE AgentInv
  OBVIOUS
<1>1. born = <<>> /\ DOMAIN born = {} /\ ToSet(born) = {} /\ IsInjective(born)
  BY DEF AgentInit, ToSet, IsInjective
<1>2. AgentTypeOK
  BY <1>1, AgentAssumption DEF AgentInit, AgentTypeOK, AgentAssumption
<1>3. AgentShape
  BY <1>1 DEF AgentInit, AgentShape
<1>4. \A t \in Task : HeardAt(t)
  BY DEF AgentInit, HeardAt
<1>5. ReportsOnTasks
  BY DEF AgentInit, ReportsOnTasks
<1> QED
  BY <1>2, <1>3, <1>4, <1>5 DEF AgentInv

\* Agents come and go, are known and forgotten.
LEMMA AgentLifeStep ==
  ASSUME AgentAssumption, AgentInv, NEW a \in Agent,
         AgentStarts(a) \/ AgentStops(a) \/ Heartbeat(a) \/ GrpcHeartbeat(a)
  PROVE  AgentInv'
<1>1. CASE AgentStarts(a)
  <2>1. AgentTypeOK' /\ AgentShape'
    BY <1>1 DEF AgentInv, AgentTypeOK, AgentShape, AgentStarts
  <2>2. \A t \in Task : HeardAt(t)'
    BY <1>1 DEF AgentInv, AgentTypeOK, AgentShape, HeardAt, AgentStarts
  <2>3. ReportsOnTasks'
    BY <1>1 DEF AgentInv, ReportsOnTasks, AgentStarts
  <2> QED
    BY <2>1, <2>2, <2>3 DEF AgentInv
<1>2. CASE AgentStops(a)
  <2>1. AgentTypeOK' /\ AgentShape'
    BY <1>2 DEF AgentInv, AgentTypeOK, AgentShape, AgentStops
  <2>2. \A t \in Task : HeardAt(t)'
    BY <1>2 DEF AgentInv, AgentTypeOK, AgentShape, HeardAt, AgentStops
  <2>3. ReportsOnTasks'
    BY <1>2 DEF AgentInv, ReportsOnTasks, AgentStops
  <2> QED
    BY <2>1, <2>2, <2>3 DEF AgentInv
<1>3. CASE Heartbeat(a) \/ GrpcHeartbeat(a)
  <2>1. AgentTypeOK' /\ AgentShape'
    BY <1>3 DEF AgentInv, AgentTypeOK, AgentShape, Heartbeat, GrpcHeartbeat
  <2>2. \A t \in Task : HeardAt(t)'
    BY <1>3 DEF AgentInv, HeardAt, Heartbeat, GrpcHeartbeat
  <2>3. ReportsOnTasks'
    BY <1>3 DEF AgentInv, ReportsOnTasks, Heartbeat, GrpcHeartbeat
  <2> QED
    BY <2>1, <2>2, <2>3 DEF AgentInv
<1> QED
  BY <1>1, <1>2, <1>3

\* The rows of tasks come, and go with their agent's.
LEMMA TaskRowStep ==
  ASSUME AgentAssumption, AgentInv,
         \/ \E a \in Agent : DeleteAgent(a)
         \/ \E t \in Task : CreateAgentTask(t) \/ StartAgentBackup(t) \/ StartAgentRestore(t)
  PROVE  AgentInv'
<1>1. ASSUME NEW a \in Agent, DeleteAgent(a) PROVE AgentInv'
  <2>1. verdict' \in [Task -> {"none", "pending", "completed", "failed", "gone"}]
    BY <1>1 DEF AgentInv, AgentTypeOK, DeleteAgent
  <2>2. \A t \in Task : verdict'[t] = verdict[t] \/ (verdict'[t] = "gone" /\ verdict[t] # "none")
    BY <1>1 DEF AgentInv, AgentTypeOK, DeleteAgent
  <2>3. AgentTypeOK' /\ AgentShape'
    BY <1>1, <2>1, <2>2 DEF AgentInv, AgentTypeOK, AgentShape, DeleteAgent
  <2>4. \A t \in Task : HeardAt(t)'
    BY <1>1, <2>2 DEF AgentInv, HeardAt, DeleteAgent
  <2>5. ReportsOnTasks'
    BY <1>1, <2>2 DEF AgentInv, AgentTypeOK, ReportsOnTasks, Reports, DeleteAgent
  <2> QED
    BY <2>3, <2>4, <2>5 DEF AgentInv
<1>2. ASSUME NEW t \in Task, InsertTask(t) PROVE AgentInv'
  <2>1. t \notin ToSet(born)
    BY <1>2 DEF AgentInv, AgentTypeOK, InsertTask
  <2>2. /\ born' \in Seq(Task) /\ ToSet(born') = ToSet(born) \cup {t} /\ IsInjective(born')
    BY <1>2, <2>1, BornLater DEF AgentInv, AgentTypeOK, AgentShape, InsertTask
  <2>3. ToSet(born') = {u \in Task : verdict'[u] # "none"}
    BY <1>2, <2>2 DEF AgentInv, AgentTypeOK, InsertTask
  <2>4. AgentTypeOK' /\ AgentShape'
    BY <1>2, <2>2, <2>3 DEF AgentInv, AgentTypeOK, AgentShape, InsertTask
  <2>5. \A u \in Task : HeardAt(u)'
    BY <1>2 DEF AgentInv, AgentTypeOK, AgentShape, HeardAt, InsertTask
  <2>6. ReportsOnTasks'
    BY <1>2 DEF AgentInv, AgentTypeOK, ReportsOnTasks, Reports, InsertTask
  <2> QED
    BY <2>4, <2>5, <2>6 DEF AgentInv
<1> QED
  BY <1>1, <1>2 DEF CreateAgentTask, StartAgentBackup, StartAgentRestore

\* A poll hands out pending tasks, to an agent that waits for no report.
LEMMA PollStep ==
  ASSUME AgentAssumption, AgentInv, NEW a \in Agent, PollPendingTasks(a)
  PROVE  AgentInv'
<1>1. \A t \in polled'[a] : t \in ToSet(born) /\ t \in Task /\ owner[t] = a /\ verdict[t] = "pending"
  BY DEF AgentInv, AgentTypeOK, AgentShape, PollPendingTasks, FirstPending, PendingTasks
<1>2. \A b \in Agent \ {a} : polled'[b] = polled[b]
  BY DEF AgentInv, AgentShape, PollPendingTasks
<1>3. polled' \in [Agent -> SUBSET Task]
  BY <1>1 DEF AgentInv, AgentShape, PollPendingTasks
<1>4. AgentTypeOK' /\ AgentShape'
  BY <1>1, <1>2, <1>3 DEF AgentInv, AgentTypeOK, AgentShape, PollPendingTasks
<1>5. ASSUME NEW t \in Task PROVE HeardAt(t)'
  <2>1. HeardAt(t) /\ owner[t] \in Agent /\ NoTask \notin Task /\ awaiting[a] = NoTask
    BY AgentAssumption DEF AgentInv, AgentTypeOK, AgentAssumption, PollPendingTasks
  <2> QED
    BY <1>1, <1>2, <2>1 DEF HeardAt, PollPendingTasks
<1>6. ReportsOnTasks'
  BY DEF AgentInv, ReportsOnTasks, PollPendingTasks
<1> QED
  BY <1>4, <1>5, <1>6 DEF AgentInv

\* A task that is run is not in the answer any more, and its report is awaited.
LEMMA RunStep ==
  ASSUME AgentAssumption, AgentInv, NEW a \in Agent, RunTask(a)
  PROVE  AgentInv'
<1>1. PICK t \in polled[a] :
         /\ awaiting' = [awaiting EXCEPT ![a] = t] /\ polled' = [polled EXCEPT ![a] = @ \ {t}]
         /\ runs' = [runs EXCEPT ![t] = @ + 1]
         /\ \E r \in Results(t) :
              flight' = flight \cup {[task |-> t, by |-> a, result |-> r, run |-> runs[t] + 1]}
  BY DEF RunTask
<1>2. t \in Task /\ owner[t] = a /\ verdict[t] # "none" /\ life[a] = "up"
  BY <1>1 DEF AgentInv, AgentTypeOK, AgentShape, RunTask
<1>3. flight' \subseteq Reports
  BY <1>1, <1>2 DEF AgentInv, AgentTypeOK, AgentShape, Reports, Results
<1>4. AgentTypeOK' /\ AgentShape'
  BY <1>1, <1>2, <1>3 DEF AgentInv, AgentTypeOK, AgentShape, RunTask
<1>5. ASSUME NEW u \in Task PROVE HeardAt(u)'
  <2>1. HeardAt(u) /\ owner[u] \in Agent /\ runs[u] \in Nat /\ awaiting[a] = NoTask /\ NoTask \notin Task
    BY AgentAssumption DEF AgentInv, AgentTypeOK, AgentShape, AgentAssumption, RunTask
  <2>2. CASE u = t
    BY <1>1, <1>2, <2>1, <2>2 DEF AgentInv, AgentTypeOK, AgentShape, HeardAt, RunTask
  <2>3. CASE u # t
    BY <1>1, <1>2, <2>1, <2>3 DEF AgentInv, AgentTypeOK, AgentShape, HeardAt, RunTask
  <2> QED
    BY <2>2, <2>3
<1>6. ReportsOnTasks'
  BY <1>1, <1>2 DEF AgentInv, ReportsOnTasks, RunTask
<1> QED
  BY <1>4, <1>5, <1>6 DEF AgentInv

\* A report that arrives takes its task out of those that are pending; one that
\* does not is remembered.
LEMMA ReportStep ==
  ASSUME AgentAssumption, AgentInv, NEW m \in flight, ReportTaskStatus(m) \/ ReportFails(m)
  PROVE  AgentInv'
<1>1. /\ m.task \in Task /\ m.by \in Agent /\ m.result \in {"completed", "failed"} /\ m.run \in Nat
      /\ flight' \subseteq Reports
  BY DEF AgentInv, AgentTypeOK, Reports, ReportTaskStatus, ReportFails
<1>2. CASE ReportTaskStatus(m)
  <2>1. awaiting' \in [Agent -> Task \cup {NoTask}]
    BY <1>1, <1>2 DEF AgentInv, AgentTypeOK, ReportTaskStatus
  <2>2. /\ verdict' \in [Task -> {"none", "pending", "completed", "failed", "gone"}]
        /\ verdict'[m.task] \in {"completed", "failed", "gone"}
        /\ \A t \in Task \ {m.task} : verdict'[t] = verdict[t]
    BY <1>1, <1>2 DEF AgentInv, AgentTypeOK, ReportTaskStatus
  <2>3. \A t \in Task : verdict'[t] = "none" <=> verdict[t] = "none"
    BY <1>1, <2>2 DEF AgentInv, ReportsOnTasks
  <2>4. AgentTypeOK' /\ AgentShape'
    BY <1>1, <1>2, <2>1, <2>2, <2>3 DEF AgentInv, AgentTypeOK, AgentShape, ReportTaskStatus
  <2>5. ReportsOnTasks'
    BY <1>1, <1>2, <2>3 DEF AgentInv, AgentTypeOK, ReportsOnTasks, Reports, ReportTaskStatus
  <2>6. ASSUME NEW t \in Task PROVE HeardAt(t)'
    <3>1. HeardAt(t) /\ owner[t] \in Agent
      BY DEF AgentInv, AgentTypeOK
    <3>2. t = m.task \/ awaiting[owner[t]] # t \/ awaiting'[owner[t]] = t
      BY <1>1, <1>2, <3>1 DEF AgentInv, AgentTypeOK, ReportTaskStatus, Waits
    <3> QED
      BY <1>1, <1>2, <2>2, <2>3, <3>1, <3>2 DEF HeardAt, ReportTaskStatus
  <2> QED
    BY <2>4, <2>5, <2>6 DEF AgentInv
<1>3. CASE ReportFails(m)
  <2>1. awaiting' = [awaiting EXCEPT ![m.by] = NoTask] /\ awaiting[m.by] = m.task
        /\ unheard' = unheard \cup {m.task}
        /\ UNCHANGED <<life, registered, enrolled, born, owner, work, verdict, polled, runs>>
    BY <1>3 DEF ReportFails, Waits
  <2>2. AgentTypeOK' /\ AgentShape'
    BY <1>1, <2>1 DEF AgentInv, AgentTypeOK, AgentShape
  <2>3. ReportsOnTasks'
    BY <1>3, <2>1 DEF AgentInv, ReportsOnTasks, ReportFails
  <2>4. ASSUME NEW t \in Task PROVE HeardAt(t)'
    <3>1. HeardAt(t) /\ owner[t] \in Agent
      BY DEF AgentInv, AgentTypeOK
    <3>2. t = m.task \/ awaiting[owner[t]] # t \/ awaiting'[owner[t]] = t
      BY <1>1, <2>1, <3>1 DEF AgentInv, AgentTypeOK
    <3> QED
      BY <2>1, <3>1, <3>2 DEF HeardAt
  <2> QED
    BY <2>2, <2>3, <2>4 DEF AgentInv
<1> QED
  BY <1>2, <1>3

(* Of every task it is known how often it ran and where it is, as long as every report of it was
   answered: for any agents, tasks and limits. *)
THEOREM AgentInvariant == AgentSpec => []AgentInv
<1>1. AgentInit => AgentInv
  BY AgentAssumption, AgentStart
<1>2. AgentInv /\ [AgentNext]_agentVars => AgentInv'
  <2> SUFFICES ASSUME AgentInv, [AgentNext]_agentVars PROVE AgentInv'
    OBVIOUS
  <2>1. CASE UNCHANGED agentVars
    BY <2>1 DEF agentVars, AgentInv, AgentTypeOK, AgentShape, ReportsOnTasks, HeardAt
  <2>2. ASSUME NEW a \in Agent, AgentStarts(a) \/ AgentStops(a) \/ Heartbeat(a) \/ GrpcHeartbeat(a)
        PROVE  AgentInv'
    BY <2>2, AgentAssumption, AgentLifeStep
  <2>3. ASSUME NEW a \in Agent, DeleteAgent(a) PROVE AgentInv'
    BY <2>3, AgentAssumption, TaskRowStep
  <2>4. ASSUME NEW t \in Task, CreateAgentTask(t) \/ StartAgentBackup(t) \/ StartAgentRestore(t)
        PROVE  AgentInv'
    BY <2>4, AgentAssumption, TaskRowStep
  <2>5. ASSUME NEW a \in Agent, PollPendingTasks(a) PROVE AgentInv'
    BY <2>5, AgentAssumption, PollStep
  <2>6. ASSUME NEW a \in Agent, RunTask(a) PROVE AgentInv'
    BY <2>6, AgentAssumption, RunStep
  <2>7. ASSUME NEW m \in flight, ReportTaskStatus(m) \/ ReportFails(m) PROVE AgentInv'
    BY <2>7, AgentAssumption, ReportStep
  <2> QED
    BY <2>1, <2>2, <2>3, <2>4, <2>5, <2>6, <2>7 DEF AgentNext
<1> QED
  BY <1>1, <1>2, PTL DEF AgentSpec

(* RepeatExplained for any number of agents and tasks: the poll hands a task out again only when
   a report of it was lost or came late. *)
THEOREM RepeatsStayExplained == AgentSpec => []RepeatExplained
<1>1. AgentInv => RepeatExplained
  BY DEF AgentInv, AgentShape, HeardAt, RepeatExplained
<1> QED
  BY <1>1, AgentInvariant, PTL

-----------------------------------------------------------------------------
(***************************************************************************)
(* Who is signed in.  Logins, tokens and SSO flows share only the clock    *)
(* and the record of requests, so each has an invariant of its own, which  *)
(* the steps of the other two leave alone.                                 *)
(***************************************************************************)
Holds(c, fields) == DOMAIN ucall[c] = fields /\ ucall[c].node \in SessNode

UcallShape(c) ==
    /\ Stage(c) \in Stages
    /\ Stage(c) = "verify" => Holds(c, {"at", "node", "raced"}) /\ ucall[c].raced \in BOOLEAN
    /\ Stage(c) = "row" => Holds(c, {"at", "node", "of", "kind", "after"})
    /\ Stage(c) \in {"insert", "prune"} => Holds(c, {"at", "node", "of"})
    /\ Stage(c) \in {"row", "insert", "prune", "slipped"} => ucall[c].of \in Token
    /\ Stage(c) = "discover" => Holds(c, {"at", "node", "redirect"})
    /\ Stage(c) \in {"exchange", "redeemed"} =>
           Holds(c, {"at", "node", "flow", "redirect", "begun"})

SessShape ==
    /\ SessTypeOK /\ DOMAIN ucall = SessCall /\ \A c \in SessCall : UcallShape(c)
    /\ DOMAIN failures = SessNode /\ \A n \in SessNode : IsFiniteSet(failures[n])
    /\ DOMAIN pendingAuth = SessNode

\* A login that is not raced is alone on its daemon, and found room.
LoginAt(c) ==
    Stage(c) = "verify" /\ ~ucall[c].raced =>
        Verifying(ucall[c].node) = {c} /\ Cardinality(Recent(ucall[c].node)) < MaxFailures

LoginInv == ThrottleHolds /\ \A c \in SessCall : LoginAt(c)

\* The row of a revoked token lasts as long as the token.
RowsLast == \A t \in Token : revokedRow[t] # 0 => expiry[t] # 0 /\ revokedRow[t] >= expiry[t]

\* A token that was logged out has its row until it expires, unless that could not be written.
Recorded(t) == expiry[t] # 0 /\ (t \in unpersisted \/ revokedRow[t] # 0 \/ expiry[t] <= tick)

TokenAt(c) ==
    /\ Stage(c) \in {"row", "insert", "prune"} => expiry[ucall[c].of] # 0
    /\ Stage(c) = "row" /\ ucall[c].after => ucall[c].of \in loggedOut
    /\ Stage(c) = "prune" => Recorded(ucall[c].of)
    /\ Stage(c) = "slipped" => ucall[c].of \in unpersisted

TokenInv == RowsLast /\ (\A t \in loggedOut : Recorded(t)) /\ \A c \in SessCall : TokenAt(c)

\* A flow is of a call that is over, and is kept by one daemon or redeemed by one callback.
Redeeming(c) == Stage(c) \in {"exchange", "redeemed"}

FlowsApart ==
    \A n \in SessNode : \A f \in pendingAuth[n] :
        /\ f.of \in SessCall /\ Stage(f.of) = "over"
        /\ \A m \in SessNode \ {n} : f \notin pendingAuth[m]
        /\ \A c \in SessCall : Redeeming(c) => ucall[c].flow # f

FlowAt(c) ==
    Redeeming(c) => ucall[c].flow.of \in SessCall /\ Stage(ucall[c].flow.of) = "over"

FlowInv == FlowsApart /\ FlowOnce /\ \A c \in SessCall : FlowAt(c)

SessInv == SessShape /\ LoginInv /\ TokenInv /\ FlowInv

-----------------------------------------------------------------------------
\* What a step leaves alone of each.
ClockGoesOn == tick' \in {tick, tick + 1}

LoginsStay ==
    /\ \A n \in SessNode : failures'[n] \subseteq failures[n]
    /\ \A c \in SessCall : Stage(c)' = "verify" => ucall'[c] = ucall[c]

TokensStay ==
    /\ UNCHANGED <<expiry, revokedRow, loggedOut, unpersisted>>
    /\ \A c \in SessCall :
           Stage(c)' \in {"row", "insert", "prune", "slipped"} => ucall'[c] = ucall[c]

FlowsStay ==
    /\ \A n \in SessNode : pendingAuth'[n] \subseteq pendingAuth[n]
    /\ \A c \in SessCall :
        /\ Stage(c) = "over" => Stage(c)' = "over"
        /\ Redeeming(c)' => /\ Redeeming(c) /\ ucall'[c].flow = ucall[c].flow
                            /\ ucall'[c].redirect = ucall[c].redirect
                            /\ ucall'[c].begun = ucall[c].begun

\* Fewer failures are still few.
LEMMA FewerFailures ==
  ASSUME NEW S, IsFiniteSet(S), NEW T, T \subseteq S
  PROVE  /\ IsFiniteSet(T) /\ Cardinality(T) \in Nat /\ Cardinality(S) \in Nat
         /\ Cardinality(T) <= Cardinality(S)
BY FS_Subset, FS_CardinalityType

LEMMA LoginsStayStep ==
  ASSUME SessShape, LoginInv, ClockGoesOn, LoginsStay
  PROVE  LoginInv'
<1>1. \A n \in SessNode : Recent(n)' \subseteq Recent(n) /\ Recent(n) \subseteq failures[n]
  <2> SUFFICES ASSUME NEW n \in SessNode, NEW f \in Recent(n)' PROVE f \in Recent(n)
    BY DEF Recent
  <2>1. f \in failures[n] /\ tick' - f.at < FailWindow
    BY DEF LoginsStay, Recent
  <2>2. f.at \in Nat /\ tick \in Nat /\ tick' \in {tick, tick + 1} /\ FailWindow \in Nat
    BY <2>1, SessionsAssumption DEF SessShape, SessTypeOK, ClockGoesOn, SessionsAssumption
  <2>3. tick - f.at < FailWindow
    BY <2>1, <2>2
  <2> QED
    BY <2>1, <2>3 DEF Recent
<1>2. \A n \in SessNode : Verifying(n)' \subseteq Verifying(n)
  BY DEF LoginsStay, Verifying, Stage
<1>3. \A n \in SessNode : IsFiniteSet(Recent(n))
  BY <1>1, FS_Subset DEF SessShape
<1>4. ThrottleHolds'
  <2> SUFFICES ASSUME NEW n \in SessNode
               PROVE  Cardinality({f \in Recent(n)' : ~f.raced}) <= MaxFailures
    BY DEF ThrottleHolds
  <2>1. {f \in Recent(n)' : ~f.raced} \subseteq {f \in Recent(n) : ~f.raced}
    BY <1>1
  <2>2. IsFiniteSet({f \in Recent(n) : ~f.raced})
    BY <1>3, FS_Subset
  <2>3. Cardinality({f \in Recent(n) : ~f.raced}) <= MaxFailures
    BY DEF LoginInv, ThrottleHolds
  <2> QED
    BY <2>1, <2>2, <2>3, FewerFailures, SessionsAssumption DEF SessionsAssumption
<1>5. ASSUME NEW c \in SessCall PROVE LoginAt(c)'
  <2> SUFFICES ASSUME Stage(c)' = "verify", ~ucall'[c].raced
               PROVE  /\ Verifying(ucall[c].node)' = {c}
                      /\ Cardinality(Recent(ucall[c].node)') < MaxFailures
    BY DEF LoginAt
  <2>1. ucall'[c] = ucall[c] /\ LoginAt(c) /\ Stage(c) = "verify"
    BY DEF LoginsStay, LoginInv, Stage
  <2>2. PICK n \in SessNode : n = ucall[c].node
    BY <2>1 DEF SessShape, UcallShape, Holds
  <2>3. Verifying(n) = {c} /\ Cardinality(Recent(n)) < MaxFailures
    BY <2>1, <2>2 DEF LoginAt
  <2>4. c \in Verifying(n)'
    BY <2>1, <2>2 DEF Verifying
  <2>5. Verifying(n)' = {c}
    BY <1>2, <2>3, <2>4
  <2>6. Cardinality(Recent(n)') < MaxFailures
    BY <1>1, <1>3, <2>3, FewerFailures, SessionsAssumption DEF SessionsAssumption
  <2> QED
    BY <2>1, <2>2, <2>5, <2>6
<1> QED
  BY <1>4, <1>5 DEF LoginInv

LEMMA TokensStayStep ==
  ASSUME SessShape, TokenInv, ClockGoesOn, TokensStay
  PROVE  TokenInv'
<1>1. \A t \in Token : Recorded(t) => Recorded(t)'
  BY DEF SessShape, SessTypeOK, ClockGoesOn, TokensStay, Recorded
<1>2. loggedOut \subseteq Token /\ \A c \in SessCall : UcallShape(c)
  BY DEF SessShape, SessTypeOK
<1>3. RowsLast'
  BY DEF TokenInv, RowsLast, TokensStay
<1>4. ASSUME NEW c \in SessCall PROVE TokenAt(c)'
  <2>1. TokenAt(c) /\ UcallShape(c)
    BY <1>2 DEF TokenInv
  <2> QED
    BY <1>1, <2>1 DEF TokenAt, TokensStay, UcallShape, Stage
<1> QED
  BY <1>1, <1>2, <1>3, <1>4 DEF TokenInv, TokensStay

LEMMA FlowsStayStep ==
  ASSUME FlowInv, FlowsStay
  PROVE  FlowInv'
<1>1. FlowsApart'
  BY DEF FlowInv, FlowsApart, FlowsStay
<1>2. FlowOnce'
  <2> SUFFICES ASSUME NEW c \in SessCall, NEW d \in SessCall, Redeeming(c)'
               PROVE  /\ ucall'[c].flow.till >= ucall'[c].begun
                      /\ ucall'[c].flow.redirect = ucall'[c].redirect
                      /\ Redeeming(d)' /\ ucall'[d].flow = ucall'[c].flow => d = c
    BY DEF FlowOnce, Redeeming
  <2> QED
    BY DEF FlowInv, FlowOnce, FlowsStay, Redeeming
<1>3. \A c \in SessCall : FlowAt(c)'
  BY DEF FlowInv, FlowAt, FlowsStay
<1> QED
  BY <1>1, <1>2, <1>3 DEF FlowInv

-----------------------------------------------------------------------------
\* What the steps of each part leave of the others.
LEMMA NextSessOnes == NextSessNode \subseteq SessNode /\ NextSessCall \subseteq SessCall
BY SessionsAssumption DEF NextSessNode, NextSessCall, SessionsAssumption

LEMMA LoginFrame ==
  ASSUME SessShape, NEW c \in SessCall, NEW n \in SessNode,
         \/ c \in NextSessCall /\ BeginLogin(c, n)
         \/ LoginFails(c) \/ LoginSucceeds(c) \/ LdapLoginFails(c) \/ LdapAuthenticate(c)
  PROVE  FlowsStay /\ ClockGoesOn /\ (LoginSucceeds(c) \/ TokensStay)
<1>1. DOMAIN ucall = SessCall /\ \A d \in SessCall : UcallShape(d)
  BY DEF SessShape
<1>2. CASE c \in NextSessCall /\ BeginLogin(c, n)
  <2>1. Stage(c) = "new"
    BY <1>2 DEF NextSessCall, FreshCall, Stage
  <2>2. \A d \in SessCall : \/ ucall'[d] = ucall[d]
                            \/ d = c /\ Stage(d)' \in {"over", "verify"}
                            \/ Stage(d) = "verify" /\ Stage(d)' = "verify"
    BY <1>1, <1>2 DEF BeginLogin, Ends, Stage, Verifying, UcallShape, Holds
  <2> QED
    BY <1>2, <2>1, <2>2 DEF BeginLogin, FlowsStay, TokensStay, ClockGoesOn, tokenVars, Stage, Redeeming
<1>3. CASE LoginFails(c) \/ LoginSucceeds(c) \/ LdapLoginFails(c) \/ LdapAuthenticate(c)
  <2>1. Stage(c) = "verify" /\ ucall' = [ucall EXCEPT ![c] = [at |-> "over"]]
        /\ tick' = tick /\ pendingAuth' = pendingAuth
    BY <1>3 DEF LoginFails, LoginSucceeds, LdapLoginFails, LdapAuthenticate, Ends
  <2>2. FlowsStay /\ ClockGoesOn
    BY <1>1, <2>1 DEF FlowsStay, ClockGoesOn, Stage, Redeeming
  <2>3. LoginSucceeds(c) \/ TokensStay
    BY <1>1, <1>3, <2>1 DEF LoginFails, LdapLoginFails, LdapAuthenticate, TokensStay, tokenVars, Stage
  <2> QED
    BY <2>2, <2>3
<1> QED
  BY <1>2, <1>3

LEMMA TokenFrame ==
  ASSUME SessShape,
         \/ \E c \in NextSessCall, n \in SessNode, t \in Token, kind \in {"any", "logout"} :
                BeginRequest(c, n, t, kind)
         \/ \E c \in SessCall : ReadRevoked(c) \/ PersistRevocation(c) \/ PruneRevoked(c)
         \/ \E n \in SessNode : CleanupRevoked(n)
  PROVE  LoginsStay /\ FlowsStay /\ ClockGoesOn
<1>1. DOMAIN ucall = SessCall /\ \A d \in SessCall : UcallShape(d)
  BY DEF SessShape
<1>2. tick' = tick /\ failures' = failures /\ pendingAuth' = pendingAuth
  BY DEF BeginRequest, ReadRevoked, PersistRevocation, PruneRevoked, CleanupRevoked
<1>3. UNCHANGED ucall \/ \E c \in SessCall :
         /\ \A d \in SessCall \ {c} : ucall'[d] = ucall[d]
         /\ Stage(c) \in {"new", "row", "insert", "prune"}
         /\ Stage(c)' \in {"row", "insert", "prune", "slipped", "over"}
  <2>1. ASSUME NEW c \in NextSessCall, NEW n \in SessNode, NEW t \in Token,
               NEW kind \in {"any", "logout"}, BeginRequest(c, n, t, kind)
        PROVE  /\ c \in SessCall /\ \A d \in SessCall \ {c} : ucall'[d] = ucall[d]
               /\ Stage(c) = "new" /\ Stage(c)' \in {"row", "over"}
    BY <1>1, <2>1 DEF BeginRequest, NextSessCall, FreshCall, Stage, Ends
  <2>2. ASSUME NEW c \in SessCall, ReadRevoked(c)
        PROVE  /\ \A d \in SessCall \ {c} : ucall'[d] = ucall[d]
               /\ Stage(c) = "row" /\ Stage(c)' \in {"insert", "slipped", "over"}
    BY <1>1, <2>2 DEF ReadRevoked, Stage, Ends
  <2>3. ASSUME NEW c \in SessCall, PersistRevocation(c)
        PROVE  /\ \A d \in SessCall \ {c} : ucall'[d] = ucall[d]
               /\ Stage(c) = "insert" /\ Stage(c)' = "prune"
    BY <1>1, <2>3 DEF PersistRevocation, Stage, UcallShape, Holds
  <2>4. ASSUME NEW c \in SessCall, PruneRevoked(c)
        PROVE  /\ \A d \in SessCall \ {c} : ucall'[d] = ucall[d]
               /\ Stage(c) = "prune" /\ Stage(c)' = "over"
    BY <1>1, <2>4 DEF PruneRevoked, Stage, Ends
  <2>5. ASSUME NEW n \in SessNode, CleanupRevoked(n) PROVE UNCHANGED ucall
    BY <2>5 DEF CleanupRevoked
  <2> QED
    BY <2>1, <2>2, <2>3, <2>4, <2>5
<1> QED
  BY <1>2, <1>3 DEF LoginsStay, FlowsStay, ClockGoesOn, Stage, Redeeming

LEMMA FlowFrame ==
  ASSUME SessShape, FlowNext
  PROVE  LoginsStay /\ TokensStay /\ ClockGoesOn
<1>1. DOMAIN ucall = SessCall /\ \A d \in SessCall : UcallShape(d)
  BY DEF SessShape
<1>2. tick' = tick /\ failures' = failures /\ UNCHANGED tokenVars
  BY DEF FlowNext, InitiateAuth, UnknownProvider, HandleCallback, KeepFlow, ValidateIdToken
<1>3. \E c \in SessCall : /\ \A d \in SessCall \ {c} : ucall'[d] = ucall[d]
                          /\ Stage(c)' \in {"discover", "exchange", "redeemed", "over"}
  <2>1. ASSUME NEW c \in NextSessCall, NEW n \in SessNode, InitiateAuth(c, n, "here") \/ UnknownProvider(c)
        PROVE  /\ c \in SessCall /\ \A d \in SessCall \ {c} : ucall'[d] = ucall[d]
               /\ Stage(c)' \in {"discover", "over"}
    BY <1>1, <2>1 DEF InitiateAuth, UnknownProvider, NextSessCall, Stage, Ends
  <2>2. ASSUME NEW c \in NextSessCall, NEW m \in SessNode, NEW f, NEW redirect,
               HandleCallback(c, m, f, redirect)
        PROVE  /\ c \in SessCall /\ \A d \in SessCall \ {c} : ucall'[d] = ucall[d]
               /\ Stage(c)' \in {"exchange", "over"}
    BY <1>1, <2>2 DEF HandleCallback, NextSessCall, Stage, Ends
  <2>3. ASSUME NEW c \in SessCall, KeepFlow(c)
        PROVE  (\A d \in SessCall \ {c} : ucall'[d] = ucall[d]) /\ Stage(c)' = "over"
    BY <1>1, <2>3 DEF KeepFlow, Stage, Ends
  <2>4. ASSUME NEW c \in SessCall, ValidateIdToken(c)
        PROVE  (\A d \in SessCall \ {c} : ucall'[d] = ucall[d]) /\ Stage(c)' = "redeemed"
    BY <1>1, <2>4 DEF ValidateIdToken, Stage, UcallShape, Holds
  <2> QED
    BY <2>1, <2>2, <2>3, <2>4, NextSessOnes DEF FlowNext
<1> QED
  BY <1>2, <1>3 DEF LoginsStay, TokensStay, ClockGoesOn, tokenVars, Stage

LEMMA CommonFrame ==
  ASSUME SessShape, SessCommon
  PROVE  LoginsStay /\ TokensStay /\ FlowsStay /\ ClockGoesOn
<1>1. CASE SessTick
  BY <1>1 DEF SessTick, LoginsStay, TokensStay, FlowsStay, ClockGoesOn, tokenVars, Stage, Redeeming
<1>2. ASSUME NEW c \in SessCall, CallEnds(c) PROVE LoginsStay /\ TokensStay /\ FlowsStay /\ ClockGoesOn
  <2>1. /\ \A d \in SessCall \ {c} : ucall'[d] = ucall[d]
        /\ Stage(c) # "over" /\ Stage(c)' = "over"
    BY <1>2 DEF CallEnds, Ends, Stage, SessShape
  <2> QED
    BY <1>2, <2>1 DEF CallEnds, LoginsStay, TokensStay, FlowsStay, ClockGoesOn, tokenVars, Stage, Redeeming
<1>3. ASSUME NEW n \in SessNode, SessRestart(n) PROVE LoginsStay /\ TokensStay /\ FlowsStay /\ ClockGoesOn
  <2>1. \A c \in SessCall : ucall'[c] = ucall[c] \/ (Stage(c) # "over" /\ Stage(c)' = "over")
    BY <1>3 DEF SessRestart, Stage
  <2>2. \A m \in SessNode : failures'[m] \subseteq failures[m] /\ pendingAuth'[m] \subseteq pendingAuth[m]
    BY <1>3 DEF SessRestart, SessShape
  <2>3. tick' = tick
    BY <1>3, SessionsAssumption DEF SessRestart
  <2> QED
    BY <1>3, <2>1, <2>2, <2>3 DEF SessRestart, LoginsStay, TokensStay, FlowsStay, ClockGoesOn, Stage, Redeeming
<1> QED
  BY <1>1, <1>2, <1>3 DEF SessCommon

-----------------------------------------------------------------------------
\* Every step keeps the shape of the state.
LEMMA CallsKeepShape ==
  ASSUME SessShape, NEW c \in SessCall, DOMAIN ucall' = SessCall,
         \A d \in SessCall \ {c} : ucall'[d] = ucall[d], UcallShape(c)'
  PROVE  \A d \in SessCall : UcallShape(d)' /\ Stage(d)' \in Stages
BY DEF SessShape, UcallShape, Holds, Stage

LEMMA BoundedShape ==
  ASSUME tick \in Nat, NEW map \in [Token -> Nat]
  PROVE  Bounded(map) \subseteq [Token -> Nat]
BY DEF Bounded

LEMMA FailureKept ==
  ASSUME SessShape, NEW c \in SessCall, Stage(c) = "verify", LoginFails(c) \/ LdapLoginFails(c)
  PROVE  /\ DOMAIN failures' = SessNode
         /\ \A n \in SessNode : n # ucall[c].node => failures'[n] = failures[n]
         /\ \A n \in SessNode : failures'[n] \subseteq failures[n] \cup {Failure(c)}
BY DEF SessShape, LoginFails, LdapLoginFails, RecordFailure

LEMMA LoginShape ==
  ASSUME SessShape, NEW c \in SessCall, NEW n \in SessNode,
         \/ c \in NextSessCall /\ BeginLogin(c, n)
         \/ LoginFails(c) \/ LoginSucceeds(c) \/ LdapLoginFails(c) \/ LdapAuthenticate(c)
  PROVE  SessShape'
<1>1. SessTypeOK /\ DOMAIN ucall = SessCall /\ \A d \in SessCall : UcallShape(d)
  BY DEF SessShape
<1>2. tick' = tick /\ UNCHANGED <<pendingAuth, revokedIn, revokedRow, loggedOut, unpersisted>>
  BY DEF BeginLogin, LoginFails, LoginSucceeds, LdapLoginFails, LdapAuthenticate, tokenVars
<1>3. expiry' \in [Token -> Nat]
  BY <1>1, SessionsAssumption
  DEF BeginLogin, LoginFails, LoginSucceeds, LdapLoginFails, LdapAuthenticate, tokenVars, SessTypeOK,
      SessionsAssumption
<1>4. /\ DOMAIN failures' = SessNode
      /\ \A m \in SessNode : IsFiniteSet(failures'[m]) /\ \A f \in failures'[m] : f.at \in 0 .. tick
  <2>1. CASE UNCHANGED failures
    BY <2>1 DEF SessShape, SessTypeOK
  <2>2. CASE BeginLogin(c, n)
    <3>1. Recent(n) \subseteq failures[n]
      BY DEF Recent
    <3>2. \A m \in SessNode : failures'[m] \subseteq failures[m]
      BY <2>2, <3>1 DEF BeginLogin, SessShape
    <3> QED
      BY <2>2, <3>2, FS_Subset DEF BeginLogin, SessShape, SessTypeOK
  <2>3. CASE LoginFails(c) \/ LdapLoginFails(c)
    <3>1. Stage(c) = "verify"
      BY <2>3 DEF LoginFails, LdapLoginFails
    <3>2. \A m \in SessNode : IsFiniteSet(failures[m] \cup {Failure(c)})
      BY FS_AddElement DEF SessShape
    <3>3. Failure(c).at \in 0 .. tick
      BY <1>1 DEF Failure, SessTypeOK
    <3>4. /\ DOMAIN failures' = SessNode
          /\ \A m \in SessNode : failures'[m] \subseteq failures[m] \cup {Failure(c)}
      BY <2>3, <3>1, FailureKept
    <3>5. \A m \in SessNode : IsFiniteSet(failures'[m])
      BY <3>2, <3>4, FS_Subset
    <3>6. \A m \in SessNode : \A f \in failures'[m] : f.at \in 0 .. tick
      BY <1>1, <3>3, <3>4 DEF SessTypeOK
    <3> QED
      BY <3>4, <3>5, <3>6
  <2> QED
    BY <2>1, <2>2, <2>3 DEF LoginSucceeds, LdapAuthenticate
<1>5. DOMAIN ucall' = SessCall /\ \A d \in SessCall : UcallShape(d)' /\ Stage(d)' \in Stages
  <2>1. CASE c \in NextSessCall /\ BeginLogin(c, n)
    <3>1. DOMAIN ucall' = SessCall
      BY <1>1, <2>1 DEF BeginLogin, Ends
    <3>2. ASSUME NEW d \in SessCall PROVE UcallShape(d)'
      <4>1. \/ ucall'[d] = ucall[d]
            \/ ucall'[d] = [at |-> "over"]
            \/ ucall'[d] = [at |-> "verify", node |-> n, raced |-> Verifying(n) # {}]
            \/ d \in Verifying(n) /\ ucall'[d] = [ucall[d] EXCEPT !.raced = TRUE]
        BY <1>1, <2>1 DEF BeginLogin, Ends
      <4>2. CASE d \in Verifying(n) /\ ucall'[d] = [ucall[d] EXCEPT !.raced = TRUE]
        BY <1>1, <4>2 DEF UcallShape, Holds, Stage, Stages, Verifying
      <4>3. CASE ucall'[d] = [at |-> "verify", node |-> n, raced |-> Verifying(n) # {}]
        BY <4>3 DEF UcallShape, Holds, Stage, Stages
      <4> QED
        BY <1>1, <4>1, <4>2, <4>3 DEF UcallShape, Holds, Stage, Stages
    <3> QED
      BY <3>1, <3>2 DEF UcallShape
  <2>2. CASE Ends(c)
    <3>1. ucall'[c] = [at |-> "over"] /\ DOMAIN ucall' = SessCall
          /\ \A d \in SessCall \ {c} : ucall'[d] = ucall[d]
      BY <1>1, <2>2 DEF Ends
    <3> QED
      BY <3>1, CallsKeepShape DEF UcallShape, Stage, Stages
  <2> QED
    BY <2>1, <2>2 DEF LoginFails, LoginSucceeds, LdapLoginFails, LdapAuthenticate
<1> QED
  BY <1>1, <1>2, <1>3, <1>4, <1>5 DEF SessShape, SessTypeOK

LEMMA TokenShape ==
  ASSUME SessShape,
         \/ \E c \in NextSessCall, n \in SessNode, t \in Token, kind \in {"any", "logout"} :
                BeginRequest(c, n, t, kind)
         \/ \E c \in SessCall : ReadRevoked(c) \/ PersistRevocation(c) \/ PruneRevoked(c)
         \/ \E n \in SessNode : CleanupRevoked(n)
  PROVE  SessShape'
<1>1. SessTypeOK /\ DOMAIN ucall = SessCall /\ \A d \in SessCall : UcallShape(d)
  BY DEF SessShape
<1>2. UNCHANGED <<tick, expiry, failures, pendingAuth>>
  BY DEF BeginRequest, ReadRevoked, PersistRevocation, PruneRevoked, CleanupRevoked
<1>3. tick \in Nat /\ TokenLife \in Nat
  BY <1>1, SessionsAssumption DEF SessTypeOK, SessionsAssumption
<1>4. \A t \in Token : RevokedTill(t) \in Nat
  BY <1>1, <1>3 DEF RevokedTill, SessTypeOK
<1> DEFINE Kept ==
      /\ revokedIn' \in [SessNode -> [Token -> Nat]] /\ revokedRow' \in [Token -> Nat]
      /\ unpersisted' \subseteq Token /\ loggedOut' \subseteq Token
      /\ DOMAIN ucall' = SessCall /\ \A d \in SessCall : UcallShape(d)' /\ Stage(d)' \in Stages
<1>5. ASSUME NEW c \in NextSessCall, NEW n \in SessNode, NEW t \in Token,
             NEW kind \in {"any", "logout"}, BeginRequest(c, n, t, kind)
      PROVE  Kept
  <2>1. c \in SessCall
    BY NextSessOnes
  <2>2. DOMAIN ucall' = SessCall /\ \A d \in SessCall \ {c} : ucall'[d] = ucall[d]
    BY <1>1, <1>5 DEF BeginRequest, Ends
  <2>3. UcallShape(c)'
    BY <1>1, <1>5, <2>1 DEF BeginRequest, Ends, UcallShape, Holds, Stage, Stages
  <2>4. revokedIn' \in [SessNode -> [Token -> Nat]]
    BY <1>1, <1>5 DEF BeginRequest, SessTypeOK
  <2> QED
    BY <1>1, <1>5, <2>1, <2>2, <2>3, <2>4, CallsKeepShape DEF BeginRequest, SessTypeOK
<1>6. ASSUME NEW c \in SessCall, ReadRevoked(c) PROVE Kept
  <2>1. Stage(c) = "row" /\ ucall[c].node \in SessNode /\ ucall[c].of \in Token
    BY <1>1, <1>6 DEF ReadRevoked, UcallShape, Holds
  <2>2. DOMAIN ucall' = SessCall /\ \A d \in SessCall \ {c} : ucall'[d] = ucall[d]
    BY <1>1, <1>6 DEF ReadRevoked, Ends
  <2>3. UcallShape(c)'
    BY <1>1, <1>6, <2>1 DEF ReadRevoked, Ends, UcallShape, Holds, Stage, Stages
  <2>4. Revoked(ucall[c].node, ucall[c].of) \subseteq [Token -> Nat]
    BY <1>1, <1>3, <1>4, <2>1, BoundedShape DEF Revoked, SessTypeOK
  <2>5. revokedIn' \in [SessNode -> [Token -> Nat]]
    <3>1. CASE UNCHANGED revokedIn
      BY <1>1, <3>1 DEF SessTypeOK
    <3>2. CASE \E map \in Revoked(ucall[c].node, ucall[c].of) :
                  revokedIn' = [revokedIn EXCEPT ![ucall[c].node] = map]
      BY <1>1, <2>1, <2>4, <3>2 DEF SessTypeOK
    <3> QED
      BY <1>6, <3>1, <3>2 DEF ReadRevoked
  <2> QED
    BY <1>1, <1>6, <2>2, <2>3, <2>5, CallsKeepShape DEF ReadRevoked, SessTypeOK
<1>7. ASSUME NEW c \in SessCall, PersistRevocation(c) PROVE Kept
  <2>1. Stage(c) = "insert" /\ ucall[c].of \in Token
    BY <1>1, <1>7 DEF PersistRevocation, UcallShape
  <2>2. DOMAIN ucall' = SessCall /\ \A d \in SessCall \ {c} : ucall'[d] = ucall[d]
    BY <1>1, <1>7 DEF PersistRevocation
  <2>3. UcallShape(c)'
    BY <1>1, <1>7, <2>1 DEF PersistRevocation, UcallShape, Holds, Stage, Stages
  <2>4. revokedRow' \in [Token -> Nat] /\ unpersisted' \subseteq Token
    BY <1>1, <1>4, <1>7, <2>1 DEF PersistRevocation, SessTypeOK
  <2> QED
    BY <1>1, <1>7, <2>2, <2>3, <2>4, CallsKeepShape DEF PersistRevocation, SessTypeOK
<1>8. ASSUME NEW c \in SessCall, PruneRevoked(c) PROVE Kept
  <2>1. Stage(c) = "prune" /\ ucall[c].of \in Token
    BY <1>1, <1>8 DEF PruneRevoked, UcallShape
  <2>2. DOMAIN ucall' = SessCall /\ \A d \in SessCall \ {c} : ucall'[d] = ucall[d]
    BY <1>1, <1>8 DEF PruneRevoked, Ends
  <2>3. UcallShape(c)'
    BY <1>1, <1>8 DEF PruneRevoked, Ends, UcallShape, Stage, Stages
  <2>4. revokedRow' \in [Token -> Nat]
    BY <1>1, <1>8 DEF PruneRevoked, SessTypeOK
  <2> QED
    BY <1>1, <1>8, <2>1, <2>2, <2>3, <2>4, CallsKeepShape DEF PruneRevoked, SessTypeOK
<1>9. ASSUME NEW n \in SessNode, CleanupRevoked(n) PROVE Kept
  <2>1. revokedIn' \in [SessNode -> [Token -> Nat]]
    BY <1>1, <1>9 DEF CleanupRevoked, SessTypeOK
  <2> QED
    BY <1>1, <1>9, <2>1 DEF CleanupRevoked, SessTypeOK, UcallShape, Holds, Stage
<1>10. Kept
  BY <1>5, <1>6, <1>7, <1>8, <1>9
<1> HIDE DEF Kept
<1> QED
  BY <1>1, <1>2, <1>10 DEF Kept, SessShape, SessTypeOK

LEMMA FlowShape ==
  ASSUME SessShape, FlowNext
  PROVE  SessShape'
<1>1. SessTypeOK /\ DOMAIN ucall = SessCall /\ \A d \in SessCall : UcallShape(d)
  BY DEF SessShape
<1>2. UNCHANGED <<tick, failures, expiry, revokedIn, revokedRow, loggedOut, unpersisted>>
  BY DEF FlowNext, InitiateAuth, UnknownProvider, HandleCallback, KeepFlow, ValidateIdToken, tokenVars
<1> DEFINE Kept ==
      /\ DOMAIN pendingAuth' = SessNode
      /\ \A n \in SessNode : \A f \in pendingAuth'[n] : f.of \in SessCall
      /\ DOMAIN ucall' = SessCall /\ \A d \in SessCall : UcallShape(d)' /\ Stage(d)' \in Stages
<1>3. ASSUME NEW c \in SessCall, NEW n \in SessNode, InitiateAuth(c, n, "here") \/ UnknownProvider(c)
      PROVE  Kept
  <2>1. DOMAIN ucall' = SessCall /\ \A d \in SessCall \ {c} : ucall'[d] = ucall[d]
    BY <1>1, <1>3 DEF InitiateAuth, UnknownProvider, Ends
  <2>2. UcallShape(c)'
    BY <1>1, <1>3 DEF InitiateAuth, UnknownProvider, Ends, UcallShape, Holds, Stage, Stages
  <2> QED
    BY <1>1, <1>3, <2>1, <2>2, CallsKeepShape DEF InitiateAuth, UnknownProvider, SessShape, SessTypeOK
<1>4. ASSUME NEW c \in SessCall, NEW n \in SessNode, NEW flow, NEW redirect,
             HandleCallback(c, n, flow, redirect)
      PROVE  Kept
  <2>1. DOMAIN ucall' = SessCall /\ \A d \in SessCall \ {c} : ucall'[d] = ucall[d]
    BY <1>1, <1>4 DEF HandleCallback, Ends
  <2>2. UcallShape(c)'
    BY <1>1, <1>4 DEF HandleCallback, Ends, UcallShape, Holds, Stage, Stages
  <2>3. DOMAIN pendingAuth' = SessNode /\ \A m \in SessNode : pendingAuth'[m] \subseteq pendingAuth[m]
    BY <1>4 DEF HandleCallback, SessShape
  <2> QED
    BY <1>1, <2>1, <2>2, <2>3, CallsKeepShape DEF SessTypeOK
<1>5. ASSUME NEW c \in SessCall, KeepFlow(c) PROVE Kept
  <2>1. DOMAIN ucall' = SessCall /\ \A d \in SessCall \ {c} : ucall'[d] = ucall[d]
    BY <1>1, <1>5 DEF KeepFlow, Ends
  <2>2. UcallShape(c)'
    BY <1>1, <1>5 DEF KeepFlow, Ends, UcallShape, Stage, Stages
  <2>3. DOMAIN pendingAuth' = SessNode
        /\ \A m \in SessNode : \A f \in pendingAuth'[m] : f \in pendingAuth[m] \/ f.of = c
    BY <1>5 DEF KeepFlow, SessShape
  <2> QED
    BY <1>1, <2>1, <2>2, <2>3, CallsKeepShape DEF SessTypeOK
<1>6. ASSUME NEW c \in SessCall, ValidateIdToken(c) PROVE Kept
  <2>1. DOMAIN ucall' = SessCall /\ \A d \in SessCall \ {c} : ucall'[d] = ucall[d]
    BY <1>1, <1>6 DEF ValidateIdToken
  <2>2. UcallShape(c)'
    BY <1>1, <1>6 DEF ValidateIdToken, UcallShape, Holds, Stage, Stages
  <2> QED
    BY <1>1, <1>6, <2>1, <2>2, CallsKeepShape DEF ValidateIdToken, SessShape, SessTypeOK
<1>7. Kept
  BY <1>3, <1>4, <1>5, <1>6, NextSessOnes DEF FlowNext
<1> HIDE DEF Kept
<1> QED
  BY <1>1, <1>2, <1>7 DEF Kept, SessShape, SessTypeOK

LEMMA CommonShape ==
  ASSUME SessShape, SessCommon
  PROVE  SessShape'
<1>1. SessTypeOK /\ DOMAIN ucall = SessCall /\ \A d \in SessCall : UcallShape(d)
  BY DEF SessShape
<1>2. CASE SessTick
  BY <1>1, <1>2, SessionsAssumption
  DEF SessTick, tokenVars, SessShape, SessTypeOK, SessionsAssumption, UcallShape, Holds, Stage
<1>3. ASSUME NEW c \in SessCall, CallEnds(c) PROVE SessShape'
  <2>1. DOMAIN ucall' = SessCall /\ \A d \in SessCall \ {c} : ucall'[d] = ucall[d]
    BY <1>1, <1>3 DEF CallEnds, Ends
  <2>2. UcallShape(c)'
    BY <1>1, <1>3 DEF CallEnds, Ends, UcallShape, Stage, Stages
  <2>3. \A d \in SessCall : UcallShape(d)' /\ Stage(d)' \in Stages
    BY <2>1, <2>2, CallsKeepShape
  <2> QED
    BY <1>1, <1>3, <2>1, <2>3 DEF CallEnds, tokenVars, SessShape, SessTypeOK
<1>4. ASSUME NEW n \in SessNode, SessRestart(n) PROVE SessShape'
  <2>1. \A d \in SessCall : ucall'[d] = ucall[d] \/ ucall'[d] = [at |-> "over"]
    BY <1>4 DEF SessRestart
  <2>2. \A d \in SessCall : UcallShape(d)' /\ Stage(d)' \in Stages
    <3> SUFFICES ASSUME NEW d \in SessCall PROVE UcallShape(d)' /\ Stage(d)' \in Stages
      OBVIOUS
    <3> QED
      BY <1>1, <2>1 DEF UcallShape, Holds, Stage, Stages
  <2>3. revokedIn' \in [SessNode -> [Token -> Nat]]
    BY <1>1, <1>4 DEF SessRestart, SessTypeOK
  <2>4. /\ DOMAIN failures' = SessNode /\ DOMAIN pendingAuth' = SessNode /\ DOMAIN ucall' = SessCall
        /\ \A m \in SessNode : failures'[m] = {} \/ failures'[m] = failures[m]
        /\ \A m \in SessNode : pendingAuth'[m] = {} \/ pendingAuth'[m] = pendingAuth[m]
    BY <1>4 DEF SessRestart, SessShape
  <2>5. \A m \in SessNode : IsFiniteSet(failures'[m])
    BY <2>4, FS_EmptySet DEF SessShape
  <2> QED
    BY <1>1, <1>4, <2>2, <2>3, <2>4, <2>5 DEF SessRestart, SessShape, SessTypeOK
<1> QED
  BY <1>2, <1>3, <1>4 DEF SessCommon

-----------------------------------------------------------------------------
\* A login that begins while none is at work leaves room; one that fails uses it.
LEMMA LoginStep ==
  ASSUME SessShape, LoginInv, NEW c \in SessCall, NEW n \in SessNode,
         (c \in NextSessCall /\ BeginLogin(c, n)) \/ LoginFails(c) \/ LdapLoginFails(c)
  PROVE  LoginInv'
<1>1. DOMAIN ucall = SessCall /\ \A d \in SessCall : UcallShape(d) /\ LoginAt(d)
  BY DEF SessShape, LoginInv
<1>2. MaxFailures \in Nat /\ tick' = tick
  BY SessionsAssumption DEF SessionsAssumption, BeginLogin, LoginFails, LdapLoginFails
<1>3. \A m \in SessNode : IsFiniteSet(failures[m]) /\ Recent(m) \subseteq failures[m]
  BY DEF SessShape, Recent
<1>4. CASE c \in NextSessCall /\ BeginLogin(c, n)
  <2>1. Stage(c) = "new"
    BY <1>4 DEF NextSessCall, FreshCall, Stage
  <2>2. \A m \in SessNode : Recent(m)' = Recent(m)
    BY <1>2, <1>4 DEF BeginLogin, Recent, SessShape
  <2>3. ThrottleHolds'
    BY <2>2 DEF ThrottleHolds, LoginInv
  <2>4. ASSUME NEW d \in SessCall PROVE LoginAt(d)'
    <3>1. CASE Cardinality(Recent(n)) >= MaxFailures
      <4>1. ucall' = [ucall EXCEPT ![c] = [at |-> "over"]]
        BY <1>4, <3>1 DEF BeginLogin, Ends
      <4>2. \A m \in SessNode : Verifying(m)' = Verifying(m)
        BY <1>1, <2>1, <4>1 DEF Verifying, Stage
      <4> QED
        BY <1>1, <2>2, <4>1, <4>2 DEF LoginAt, Stage, UcallShape, Holds
    <3>2. CASE ~(Cardinality(Recent(n)) >= MaxFailures)
      <4>1. ucall' = [e \in SessCall |->
                IF e = c THEN [at |-> "verify", node |-> n, raced |-> Verifying(n) # {}]
                ELSE IF e \in Verifying(n) THEN [ucall[e] EXCEPT !.raced = TRUE] ELSE ucall[e]]
        BY <1>4, <3>2 DEF BeginLogin
      <4>2. \A e \in SessCall \ {c} : ucall'[e].at = ucall[e].at
                /\ (Stage(e) = "verify" => ucall'[e].node = ucall[e].node)
        BY <1>1, <4>1 DEF Verifying, UcallShape, Holds, Stage
      <4>3. CASE d = c
        <5> SUFFICES ASSUME ~ucall'[c].raced PROVE LoginAt(c)'
          BY <4>3 DEF LoginAt
        <5>1. ucall'[c] = [at |-> "verify", node |-> n, raced |-> Verifying(n) # {}]
          BY <4>1
        <5>2. Verifying(n) = {}
          <6>1. ucall'[c].raced = (Verifying(n) # {})
            BY <5>1
          <6> QED
            BY <6>1
        <5>3. Verifying(n)' = {c}
          BY <4>2, <5>1, <5>2 DEF Verifying, Stage
        <5>4. Cardinality(Recent(n)) < MaxFailures
          BY <1>2, <1>3, <3>2, FewerFailures
        <5> QED
          BY <2>2, <5>1, <5>3, <5>4 DEF LoginAt
      <4>4. CASE d # c
        <5> SUFFICES ASSUME Stage(d)' = "verify", ~ucall'[d].raced PROVE LoginAt(d)'
          BY DEF LoginAt
        <5>1. d \notin Verifying(n)
          BY <1>1, <4>1, <4>4 DEF Verifying, UcallShape, Holds, Stage
        <5>2. ucall'[d] = ucall[d] /\ Stage(d) = "verify"
          BY <4>1, <4>4, <5>1 DEF Stage
        <5>3. PICK m \in SessNode : m = ucall[d].node
          BY <1>1, <5>2 DEF UcallShape, Holds
        <5>4. m # n
          BY <5>1, <5>2, <5>3 DEF Verifying
        <5>5. Verifying(m)' = Verifying(m)
          BY <2>1, <4>1, <4>2, <5>4 DEF Verifying, Stage
        <5> QED
          BY <1>1, <2>2, <5>2, <5>3, <5>5 DEF LoginAt
      <4> QED
        BY <4>3, <4>4
    <3> QED
      BY <3>1, <3>2
  <2> QED
    BY <2>3, <2>4 DEF LoginInv
<1>5. CASE LoginFails(c) \/ LdapLoginFails(c)
  <2>1. Stage(c) = "verify" /\ ucall' = [ucall EXCEPT ![c] = [at |-> "over"]]
    BY <1>5 DEF LoginFails, LdapLoginFails, Ends
  <2>2. PICK m \in SessNode : m = ucall[c].node
    BY <1>1, <2>1 DEF UcallShape, Holds
  <2>3. /\ \A k \in SessNode : k # m => failures'[k] = failures[k]
        /\ failures'[m] \subseteq failures[m] \cup {Failure(c)}
    BY <1>5, <2>1, <2>2, FailureKept
  <2>4. \A k \in SessNode : k # m => Recent(k)' = Recent(k)
    BY <1>2, <2>3 DEF Recent
  <2>5. \A k \in SessNode : Verifying(k)' \subseteq Verifying(k)
    BY <1>1, <2>1 DEF Verifying, Stage
  <2>6. Recent(m)' \subseteq Recent(m) \cup {Failure(c)} /\ Failure(c).raced = ucall[c].raced
    BY <1>2, <2>3 DEF Recent, Failure
  <2>7. ASSUME NEW k \in SessNode PROVE Cardinality({f \in Recent(k)' : ~f.raced}) <= MaxFailures
    <3>1. Cardinality({f \in Recent(k) : ~f.raced}) <= MaxFailures
      BY DEF LoginInv, ThrottleHolds
    <3>2. CASE k # m
      BY <2>4, <3>1, <3>2
    <3>3. CASE k = m /\ ucall[c].raced
      <4>1. {f \in Recent(m)' : ~f.raced} \subseteq {f \in Recent(m) : ~f.raced}
        BY <2>6, <3>3
      <4>2. IsFiniteSet({f \in Recent(m) : ~f.raced})
        BY <1>3, FS_Subset
      <4> QED
        BY <1>2, <3>1, <3>3, <4>1, <4>2, FewerFailures
    <3>4. CASE k = m /\ ~ucall[c].raced
      <4>1. Cardinality(Recent(m)) < MaxFailures
        BY <1>1, <2>1, <2>2, <3>4 DEF LoginAt
      <4>2. IsFiniteSet(Recent(m)) /\ Cardinality(Recent(m)) \in Nat
        BY <1>3, FS_Subset, FS_CardinalityType
      <4>3. /\ IsFiniteSet(Recent(m) \cup {Failure(c)})
            /\ \/ Cardinality(Recent(m) \cup {Failure(c)}) = Cardinality(Recent(m))
               \/ Cardinality(Recent(m) \cup {Failure(c)}) = Cardinality(Recent(m)) + 1
        BY <4>2, FS_AddElement
      <4>4. {f \in Recent(m)' : ~f.raced} \subseteq Recent(m) \cup {Failure(c)}
        BY <2>6
      <4>5. /\ Cardinality({f \in Recent(m)' : ~f.raced}) \in Nat
            /\ Cardinality({f \in Recent(m)' : ~f.raced}) <= Cardinality(Recent(m) \cup {Failure(c)})
        BY <4>3, <4>4, FewerFailures
      <4>6. Cardinality({f \in Recent(m)' : ~f.raced}) <= MaxFailures
        BY <1>2, <4>1, <4>2, <4>3, <4>5
      <4> QED
        BY <3>4, <4>6
    <3> QED
      BY <3>2, <3>3, <3>4
  <2>8. ASSUME NEW d \in SessCall, Stage(d)' = "verify", ~ucall'[d].raced PROVE LoginAt(d)'
    <3>1. d # c /\ ucall'[d] = ucall[d] /\ Stage(d) = "verify"
      BY <1>1, <2>1, <2>8 DEF Stage
    <3>2. PICK k \in SessNode : k = ucall[d].node
      BY <1>1, <3>1 DEF UcallShape, Holds
    <3>3. Verifying(k) = {d} /\ Cardinality(Recent(k)) < MaxFailures
      BY <1>1, <2>8, <3>1, <3>2 DEF LoginAt
    <3>4. k # m
      BY <2>1, <2>2, <3>1, <3>3 DEF Verifying
    <3>5. d \in Verifying(k)'
      BY <2>8, <3>1, <3>2 DEF Verifying
    <3>6. Verifying(k)' = {d}
      BY <2>5, <3>3, <3>5
    <3> QED
      BY <2>4, <3>1, <3>2, <3>3, <3>4, <3>6 DEF LoginAt
  <2> QED
    BY <2>7, <2>8 DEF LoginInv, ThrottleHolds, LoginAt
<1> QED
  BY <1>4, <1>5

\* A row is written for as long as its token lasts, and pruned no earlier.
LEMMA TokenStep ==
  ASSUME SessShape, TokenInv,
         \/ \E c \in SessCall : LoginSucceeds(c)
         \/ \E c \in NextSessCall, n \in SessNode, t \in Token, kind \in {"any", "logout"} :
                BeginRequest(c, n, t, kind)
         \/ \E c \in SessCall : ReadRevoked(c) \/ PersistRevocation(c) \/ PruneRevoked(c)
         \/ \E n \in SessNode : CleanupRevoked(n)
  PROVE  TokenInv'
<1>1. /\ tick \in Nat /\ expiry \in [Token -> Nat] /\ revokedRow \in [Token -> Nat]
      /\ loggedOut \subseteq Token /\ DOMAIN ucall = SessCall
      /\ \A d \in SessCall : UcallShape(d) /\ TokenAt(d)
  BY DEF SessShape, SessTypeOK, TokenInv
<1>2. RowsLast /\ \A t \in loggedOut : Recorded(t)
  BY DEF TokenInv
<1>3. TokenLife \in Nat /\ Leeway \in Nat
  BY SessionsAssumption DEF SessionsAssumption
<1>4. ASSUME NEW c \in SessCall, LoginSucceeds(c) PROVE TokenInv'
  <2>1. tick' = tick /\ UNCHANGED <<revokedRow, loggedOut, unpersisted>>
        /\ Stage(c) = "verify" /\ ucall' = [ucall EXCEPT ![c] = [at |-> "over"]]
    BY <1>4 DEF LoginSucceeds, Ends
  <2>2. \A t \in Token : expiry[t] # 0 => expiry'[t] = expiry[t]
    BY <1>1, <1>4 DEF LoginSucceeds
  <2>3. RowsLast'
    BY <1>2, <2>1, <2>2 DEF RowsLast
  <2>4. \A t \in Token : Recorded(t) => Recorded(t)'
    BY <2>1, <2>2 DEF Recorded
  <2>5. ASSUME NEW d \in SessCall PROVE TokenAt(d)'
    <3>1. TokenAt(d) /\ UcallShape(d)
      BY <1>1
    <3>2. d = c \/ ucall'[d] = ucall[d]
      BY <2>1
    <3>3. Stage(c)' = "over"
      BY <1>1, <2>1 DEF Stage
    <3> QED
      BY <2>1, <2>2, <2>4, <3>1, <3>2, <3>3 DEF TokenAt, UcallShape, Stage
  <2> QED
    BY <1>1, <1>2, <2>1, <2>3, <2>4, <2>5 DEF TokenInv
<1>5. ASSUME NEW c \in NextSessCall, NEW n \in SessNode, NEW t \in Token,
             NEW kind \in {"any", "logout"}, BeginRequest(c, n, t, kind)
      PROVE  TokenInv'
  <2>1. c \in SessCall
    BY NextSessOnes
  <2>2. UNCHANGED <<tick, expiry, revokedRow, loggedOut, unpersisted>> /\ expiry[t] # 0
    BY <1>5 DEF BeginRequest
  <2>3. \A d \in SessCall \ {c} : ucall'[d] = ucall[d]
    BY <1>1, <1>5 DEF BeginRequest, Ends
  <2>4. ucall'[c] = [at |-> "over"]
        \/ ucall'[c] = [at |-> "row", node |-> n, of |-> t, kind |-> kind, after |-> t \in loggedOut]
    BY <1>1, <1>5, <2>1 DEF BeginRequest, Ends
  <2>5. TokenAt(c)'
    <3>1. CASE ucall'[c] = [at |-> "over"]
      BY <3>1 DEF TokenAt, Stage
    <3>2. CASE ucall'[c] = [at |-> "row", node |-> n, of |-> t, kind |-> kind, after |-> t \in loggedOut]
      <4>1. Stage(c)' = "row" /\ ucall'[c].of = t /\ ucall'[c].after = (t \in loggedOut)
        BY <3>2 DEF Stage
      <4>2. loggedOut' = loggedOut /\ expiry'[t] # 0
        BY <2>2
      <4>3. ucall'[c].after => t \in loggedOut'
        BY <4>1, <4>2, Zenon
      <4> QED
        BY <4>1, <4>2, <4>3 DEF TokenAt
    <3> QED
      BY <2>4, <3>1, <3>2
  <2>6. ASSUME NEW d \in SessCall \ {c} PROVE TokenAt(d)'
    <3>1. TokenAt(d) /\ ucall'[d] = ucall[d]
      BY <1>1, <2>3
    <3> QED
      BY <2>2, <3>1 DEF TokenAt, Stage, Recorded
  <2> QED
    BY <1>2, <2>2, <2>5, <2>6 DEF TokenInv, RowsLast, Recorded
<1>6. ASSUME NEW c \in SessCall, ReadRevoked(c) PROVE TokenInv'
  <2>1. PICK t \in Token : t = ucall[c].of
    BY <1>1, <1>6 DEF ReadRevoked, UcallShape
  <2>2. UNCHANGED <<tick, expiry, revokedRow, loggedOut, unpersisted>> /\ expiry[t] # 0
    BY <1>1, <1>6, <2>1 DEF ReadRevoked, TokenAt
  <2>3. \A d \in SessCall \ {c} : ucall'[d] = ucall[d]
    BY <1>1, <1>6 DEF ReadRevoked, Ends
  <2>4. \/ ucall'[c] = [at |-> "over"]
        \/ Stage(c)' = "insert" /\ ucall'[c].of = t
        \/ /\ ucall'[c] = [at |-> "slipped", of |-> t]
           /\ ucall[c].after /\ revokedRow[t] = 0 /\ expiry[t] > tick
    BY <1>1, <1>6, <2>1 DEF ReadRevoked, Ends, Stage
  <2>5. ucall[c].after => Recorded(t)
    BY <1>1, <1>2, <1>6, <2>1 DEF ReadRevoked, TokenAt
  <2>6. TokenAt(c)'
    <3>1. expiry[t] \in Nat
      BY <1>1
    <3> QED
      BY <1>1, <2>2, <2>4, <2>5, <3>1 DEF TokenAt, Stage, Recorded
  <2>7. ASSUME NEW d \in SessCall \ {c} PROVE TokenAt(d)'
    <3>1. TokenAt(d) /\ ucall'[d] = ucall[d]
      BY <1>1, <2>3
    <3> QED
      BY <2>2, <3>1 DEF TokenAt, Stage, Recorded
  <2> QED
    BY <1>2, <2>2, <2>6, <2>7 DEF TokenInv, RowsLast, Recorded
<1>7. ASSUME NEW c \in SessCall, PersistRevocation(c) PROVE TokenInv'
  <2>1. PICK t \in Token : t = ucall[c].of
    BY <1>1, <1>7 DEF PersistRevocation, UcallShape
  <2>2. UNCHANGED <<tick, expiry, loggedOut>> /\ expiry[t] # 0
    BY <1>1, <1>7, <2>1 DEF PersistRevocation, TokenAt
  <2>3. /\ \A d \in SessCall \ {c} : ucall'[d] = ucall[d]
        /\ Stage(c)' = "prune" /\ ucall'[c].of = t
    BY <1>1, <1>7, <2>1 DEF PersistRevocation, Stage, UcallShape, Holds
  <2>4. \/ revokedRow' = [revokedRow EXCEPT ![t] = IF @ = 0 THEN RevokedTill(t) ELSE @]
           /\ UNCHANGED unpersisted
        \/ unpersisted' = unpersisted \cup {t} /\ UNCHANGED revokedRow
    BY <1>7, <2>1 DEF PersistRevocation
  <2>5. RevokedTill(t) >= expiry[t] /\ (RevokedTill(t) # 0 \/ expiry[t] <= tick)
    <3>1. expiry[t] \in Nat
      BY <1>1
    <3> QED
      BY <1>1, <1>3, <2>2, <3>1 DEF RevokedTill, Decodable
  <2>6. RowsLast'
    BY <1>1, <1>2, <2>2, <2>4, <2>5 DEF RowsLast
  <2>7. \A u \in Token : Recorded(u) \/ u = t => Recorded(u)'
    BY <1>1, <2>2, <2>4, <2>5 DEF Recorded
  <2>8. TokenAt(c)'
    BY <2>2, <2>3, <2>7 DEF TokenAt
  <2>9. ASSUME NEW d \in SessCall \ {c} PROVE TokenAt(d)'
    <3>1. TokenAt(d) /\ UcallShape(d) /\ ucall'[d] = ucall[d]
      BY <1>1, <2>3
    <3>2. unpersisted \subseteq unpersisted'
      BY <2>4
    <3> QED
      BY <2>2, <2>7, <3>1, <3>2 DEF TokenAt, Stage, UcallShape
  <2> QED
    BY <1>1, <1>2, <2>2, <2>6, <2>7, <2>8, <2>9 DEF TokenInv
<1>8. ASSUME NEW c \in SessCall, PruneRevoked(c) PROVE TokenInv'
  <2>1. PICK t \in Token : t = ucall[c].of
    BY <1>1, <1>8 DEF PruneRevoked, UcallShape
  <2>2. UNCHANGED <<tick, expiry, unpersisted>> /\ loggedOut' = loggedOut \cup {t} /\ Recorded(t)
    BY <1>1, <1>8, <2>1 DEF PruneRevoked, TokenAt
  <2>3. (\A d \in SessCall \ {c} : ucall'[d] = ucall[d]) /\ Stage(c)' = "over"
    BY <1>1, <1>8 DEF PruneRevoked, Ends, Stage
  <2>4. \A u \in Token : revokedRow'[u] = revokedRow[u] \/ (revokedRow'[u] = 0 /\ revokedRow[u] <= tick)
    BY <1>1, <1>8 DEF PruneRevoked, Pruned
  <2>5. RowsLast'
    BY <1>2, <2>2, <2>4 DEF RowsLast
  <2>6. ASSUME NEW u \in Token, Recorded(u) PROVE Recorded(u)'
    <3>1. expiry[u] \in Nat /\ revokedRow[u] \in Nat
      BY <1>1
    <3> QED
      BY <1>1, <1>2, <2>2, <2>4, <2>6, <3>1 DEF Recorded, RowsLast
  <2>7. ASSUME NEW d \in SessCall PROVE TokenAt(d)'
    <3>1. TokenAt(d) /\ UcallShape(d) /\ (d = c \/ ucall'[d] = ucall[d])
      BY <1>1, <2>3
    <3> QED
      BY <2>2, <2>3, <2>6, <3>1 DEF TokenAt, Stage, UcallShape
  <2> QED
    BY <1>1, <1>2, <2>2, <2>5, <2>6, <2>7 DEF TokenInv
<1>9. ASSUME NEW n \in SessNode, CleanupRevoked(n) PROVE TokenInv'
  <2>1. TokensStay /\ ClockGoesOn
    BY <1>9 DEF CleanupRevoked, TokensStay, ClockGoesOn, Stage
  <2> QED
    BY <2>1, TokensStayStep
<1> QED
  BY <1>4, <1>5, <1>6, <1>7, <1>8, <1>9

-----------------------------------------------------------------------------
\* A flow is kept by the call that began it, which is then over, and taken by one callback.
LEMMA FlowStep ==
  ASSUME SessShape, FlowInv, FlowNext
  PROVE  FlowInv'
<1>1. DOMAIN ucall = SessCall /\ DOMAIN pendingAuth = SessNode /\ \A d \in SessCall : UcallShape(d) /\ FlowAt(d)
  BY DEF SessShape, FlowInv
<1>2. ASSUME NEW c \in NextSessCall, NEW n \in SessNode, InitiateAuth(c, n, "here") \/ UnknownProvider(c)
      PROVE  FlowInv'
  <2>1. Stage(c) = "new" /\ c \in SessCall /\ pendingAuth' = pendingAuth
    BY <1>2 DEF NextSessCall, FreshCall, Stage, InitiateAuth, UnknownProvider
  <2>2. (\A d \in SessCall \ {c} : ucall'[d] = ucall[d]) /\ Stage(c)' \in {"discover", "over"}
    BY <1>1, <1>2, <2>1 DEF InitiateAuth, UnknownProvider, Ends, Stage
  <2> QED
    BY <2>1, <2>2, FlowsStayStep DEF FlowsStay, Stage, Redeeming
<1>3. ASSUME NEW c \in SessCall, ValidateIdToken(c) PROVE FlowInv'
  <2>1. /\ Stage(c) = "exchange" /\ pendingAuth' = pendingAuth
        /\ \A d \in SessCall \ {c} : ucall'[d] = ucall[d]
        /\ Stage(c)' = "redeemed" /\ ucall'[c].flow = ucall[c].flow
        /\ ucall'[c].redirect = ucall[c].redirect /\ ucall'[c].begun = ucall[c].begun
    BY <1>1, <1>3 DEF ValidateIdToken, Stage, UcallShape, Holds
  <2> QED
    BY <2>1, FlowsStayStep DEF FlowsStay, Stage, Redeeming
<1>4. ASSUME NEW c \in SessCall, KeepFlow(c) PROVE FlowInv'
  <2>1. PICK n \in SessNode : n = ucall[c].node
    BY <1>1, <1>4 DEF KeepFlow, UcallShape, Holds
  <2>2. PICK new : /\ pendingAuth' = [pendingAuth EXCEPT ![n] = @ \cup {new}] /\ new.of = c
    <3> WITNESS [of |-> c, redirect |-> ucall[c].redirect, till |-> tick + FlowLife]
    <3> QED
      BY <1>4, <2>1 DEF KeepFlow
  <2>3. Stage(c) = "discover" /\ ucall' = [ucall EXCEPT ![c] = [at |-> "over"]]
    BY <1>4 DEF KeepFlow, Ends
  <2>4. /\ \A d \in SessCall \ {c} : ucall'[d] = ucall[d]
        /\ Stage(c)' = "over"
        /\ \A m \in SessNode : pendingAuth[m] \subseteq pendingAuth'[m]
        /\ \A m \in SessNode : \A f \in pendingAuth'[m] : f \in pendingAuth[m] \/ (f = new /\ m = n)
    BY <1>1, <2>2, <2>3 DEF Stage
  <2>5. \A m \in SessNode : new \notin pendingAuth[m]
    BY <2>2, <2>3 DEF FlowInv, FlowsApart
  <2>6. \A d \in SessCall : Redeeming(d) => ucall[d].flow # new
    BY <1>1, <2>2, <2>3 DEF FlowAt
  <2>7. \A d \in SessCall : Redeeming(d)' => d # c /\ Redeeming(d) /\ ucall'[d] = ucall[d]
    BY <2>4 DEF Redeeming, Stage
  <2>8. \A d \in SessCall : Stage(d) = "over" => Stage(d)' = "over"
    BY <2>4 DEF Stage
  <2>9. FlowsApart'
    <3> SUFFICES ASSUME NEW m \in SessNode, NEW f \in pendingAuth'[m]
                 PROVE  /\ f.of \in SessCall /\ Stage(f.of)' = "over"
                        /\ \A k \in SessNode \ {m} : f \notin pendingAuth'[k]
                        /\ \A d \in SessCall : Redeeming(d)' => ucall'[d].flow # f
      BY DEF FlowsApart
    <3>1. CASE f = new /\ m = n
      BY <2>2, <2>4, <2>5, <2>6, <2>7, <3>1
    <3>2. CASE f \in pendingAuth[m]
      <4>1. f # new
        BY <2>5, <3>2
      <4> QED
        BY <2>4, <2>7, <2>8, <3>2, <4>1 DEF FlowInv, FlowsApart
    <3> QED
      BY <2>4, <3>1, <3>2
  <2>10. FlowOnce'
    <3> SUFFICES ASSUME NEW d \in SessCall, NEW e \in SessCall, Redeeming(d)'
                 PROVE  /\ ucall'[d].flow.till >= ucall'[d].begun
                        /\ ucall'[d].flow.redirect = ucall'[d].redirect
                        /\ Redeeming(e)' /\ ucall'[e].flow = ucall'[d].flow => e = d
      BY DEF FlowOnce, Redeeming
    <3> QED
      BY <2>7 DEF FlowInv, FlowOnce, Redeeming
  <2>11. \A d \in SessCall : FlowAt(d)'
    BY <1>1, <2>7, <2>8 DEF FlowAt
  <2> QED
    BY <2>9, <2>10, <2>11 DEF FlowInv
<1>5. ASSUME NEW c \in NextSessCall, NEW n \in SessNode, NEW k \in SessNode, NEW flow \in pendingAuth[k],
             NEW redirect \in Redirects, HandleCallback(c, n, flow, redirect)
      PROVE  FlowInv'
  <2>1. Stage(c) = "new" /\ c \in SessCall
    BY <1>5 DEF NextSessCall, FreshCall, Stage
  <2>2. /\ pendingAuth' = [pendingAuth EXCEPT ![n] = @ \ {flow}]
        /\ \A d \in SessCall \ {c} : ucall'[d] = ucall[d]
    BY <1>1, <1>5 DEF HandleCallback, Ends
  <2>3. \A m \in SessNode : pendingAuth'[m] \subseteq pendingAuth[m]
    BY <1>1, <2>2
  <2>4. CASE flow \in pendingAuth[n] /\ flow.till >= tick /\ flow.redirect = redirect
    <3>1. /\ Stage(c)' = "exchange" /\ ucall'[c].flow = flow
          /\ ucall'[c].redirect = redirect /\ ucall'[c].begun = tick
      BY <1>1, <1>5, <2>1, <2>4 DEF HandleCallback, Stage
    <3>2. /\ flow.of \in SessCall /\ Stage(flow.of) = "over"
          /\ \A m \in SessNode \ {n} : flow \notin pendingAuth[m]
          /\ \A d \in SessCall : Redeeming(d) => ucall[d].flow # flow
      BY <2>4 DEF FlowInv, FlowsApart
    <3>3. \A m \in SessNode : flow \notin pendingAuth'[m]
      BY <1>1, <2>2, <3>2
    <3>4. \A d \in SessCall : Stage(d) = "over" => Stage(d)' = "over"
      BY <2>1, <2>2 DEF Stage
    <3>5. \A d \in SessCall : Redeeming(d)' => d = c \/ (Redeeming(d) /\ ucall'[d] = ucall[d])
      BY <2>2 DEF Redeeming, Stage
    <3>6. FlowsApart'
      <4> SUFFICES ASSUME NEW m \in SessNode, NEW f \in pendingAuth'[m]
                   PROVE  /\ f.of \in SessCall /\ Stage(f.of)' = "over"
                          /\ \A j \in SessNode \ {m} : f \notin pendingAuth'[j]
                          /\ \A d \in SessCall : Redeeming(d)' => ucall'[d].flow # f
        BY DEF FlowsApart
      <4>1. f # flow /\ f \in pendingAuth[m]
        BY <2>3, <3>3
      <4> QED
        BY <2>3, <3>1, <3>4, <3>5, <4>1 DEF FlowInv, FlowsApart
    <3>7. FlowOnce'
      <4> SUFFICES ASSUME NEW d \in SessCall, NEW e \in SessCall, Redeeming(d)'
                   PROVE  /\ ucall'[d].flow.till >= ucall'[d].begun
                          /\ ucall'[d].flow.redirect = ucall'[d].redirect
                          /\ Redeeming(e)' /\ ucall'[e].flow = ucall'[d].flow => e = d
        BY DEF FlowOnce, Redeeming
      <4>1. CASE d = c
        BY <2>4, <3>1, <3>2, <3>5, <4>1
      <4>2. CASE d # c
        <5>1. Redeeming(d) /\ ucall'[d] = ucall[d]
          BY <3>5, <4>2
        <5> QED
          BY <3>1, <3>2, <3>5, <4>2, <5>1 DEF FlowInv, FlowOnce, Redeeming
      <4> QED
        BY <4>1, <4>2
    <3>8. \A d \in SessCall : FlowAt(d)'
      BY <1>1, <3>1, <3>2, <3>4, <3>5 DEF FlowAt
    <3> QED
      BY <3>6, <3>7, <3>8 DEF FlowInv
  <2>5. CASE ~(flow \in pendingAuth[n] /\ flow.till >= tick /\ flow.redirect = redirect)
    <3>1. Stage(c)' = "over"
      BY <1>1, <1>5, <2>1, <2>5 DEF HandleCallback, Ends, Stage
    <3> QED
      BY <2>1, <2>2, <2>3, <3>1, FlowsStayStep DEF FlowsStay, Stage, Redeeming
  <2> QED
    BY <2>4, <2>5
<1> QED
  BY <1>2, <1>3, <1>4, <1>5, NextSessOnes DEF FlowNext

-----------------------------------------------------------------------------
LEMMA SessInitially == SessInit => SessInv
<1> SUFFICES ASSUME SessInit PROVE SessInv
  OBVIOUS
<1> USE SessionsAssumption DEF SessionsAssumption, SessInit, FreshCall
<1>1. SessShape
  BY FS_EmptySet DEF SessShape, SessTypeOK, UcallShape, Holds, Stage, Stages
<1>2. LoginInv
  <2>1. \A n \in SessNode : {f \in Recent(n) : ~f.raced} = {}
    BY DEF Recent
  <2>2. Cardinality({}) = 0
    BY FS_EmptySet
  <2>3. ThrottleHolds
    <3>1. MaxFailures \in Nat
      OBVIOUS
    <3>2. \A n \in SessNode : Cardinality({f \in Recent(n) : ~f.raced}) = 0
      BY <2>1, <2>2, Zenon
    <3>3. \A n \in SessNode : Cardinality({f \in Recent(n) : ~f.raced}) <= MaxFailures
      <4> SUFFICES ASSUME NEW n \in SessNode PROVE Cardinality({f \in Recent(n) : ~f.raced}) <= MaxFailures
        OBVIOUS
      <4>1. Cardinality({f \in Recent(n) : ~f.raced}) = 0
        BY <3>2
      <4> HIDE DEF SessInit
      <4> QED
        BY <3>1, <4>1
    <3> QED
      BY <3>3 DEF ThrottleHolds
  <2> QED
    BY <2>3 DEF LoginInv, LoginAt, Stage
<1>3. TokenInv
  BY DEF TokenInv, RowsLast, TokenAt, Stage
<1>4. FlowInv
  BY DEF FlowInv, FlowsApart, FlowOnce, FlowAt, Redeeming, Stage
<1> QED
  BY <1>1, <1>2, <1>3, <1>4 DEF SessInv

LEMMA SessStep == SessInv /\ [SessNext]_sessVars => SessInv'
<1> SUFFICES ASSUME SessInv, [SessNext]_sessVars PROVE SessInv'
  OBVIOUS
<1>1. SessShape /\ LoginInv /\ TokenInv /\ FlowInv
  BY DEF SessInv
<1>2. CASE LoginNext
  <2>1. PICK c \in SessCall, n \in SessNode :
            \/ c \in NextSessCall /\ BeginLogin(c, n)
            \/ LoginFails(c) \/ LoginSucceeds(c) \/ LdapLoginFails(c) \/ LdapAuthenticate(c)
    BY <1>2, NextSessOnes, SessionsAssumption DEF LoginNext, SessionsAssumption
  <2>2. FlowsStay /\ ClockGoesOn /\ (LoginSucceeds(c) \/ TokensStay)
    BY <1>1, <2>1, LoginFrame
  <2>3. SessShape'
    BY <1>1, <2>1, LoginShape
  <2>4. LoginInv'
    <3>1. CASE LoginSucceeds(c) \/ LdapAuthenticate(c)
      <4>1. LoginsStay
        BY <1>1, <3>1 DEF LoginSucceeds, LdapAuthenticate, Ends, LoginsStay, SessShape, Stage
      <4> QED
        BY <1>1, <2>2, <4>1, LoginsStayStep
    <3> QED
      BY <1>1, <2>1, <3>1, LoginStep
  <2>5. TokenInv'
    BY <1>1, <2>2, TokenStep, TokensStayStep
  <2>6. FlowInv'
    BY <1>1, <2>2, FlowsStayStep
  <2> QED
    BY <2>3, <2>4, <2>5, <2>6 DEF SessInv
<1>3. CASE TokenNext
  <2>1. \/ \E c \in NextSessCall, n \in SessNode, t \in Token, kind \in {"any", "logout"} :
                BeginRequest(c, n, t, kind)
        \/ \E c \in SessCall : ReadRevoked(c) \/ PersistRevocation(c) \/ PruneRevoked(c)
        \/ \E n \in SessNode : CleanupRevoked(n)
    BY <1>3, NextSessOnes DEF TokenNext
  <2>2. LoginsStay /\ FlowsStay /\ ClockGoesOn
    BY <1>1, <2>1, TokenFrame
  <2>3. SessShape' /\ TokenInv'
    BY <1>1, <2>1, TokenShape, TokenStep
  <2> QED
    BY <1>1, <2>2, <2>3, LoginsStayStep, FlowsStayStep DEF SessInv
<1>4. CASE FlowNext
  BY <1>1, <1>4, FlowFrame, FlowShape, FlowStep, LoginsStayStep, TokensStayStep DEF SessInv
<1>5. CASE SessCommon
  BY <1>1, <1>5, CommonFrame, CommonShape, LoginsStayStep, TokensStayStep, FlowsStayStep DEF SessInv
<1>6. CASE UNCHANGED sessVars
  <2>1. LoginsStay /\ TokensStay /\ FlowsStay /\ ClockGoesOn
    BY <1>6 DEF sessVars, tokenVars, LoginsStay, TokensStay, FlowsStay, ClockGoesOn, Stage, Redeeming
  <2>2. SessShape'
    BY <1>1, <1>6 DEF sessVars, tokenVars, SessShape, SessTypeOK, UcallShape, Holds, Stage
  <2> QED
    BY <1>1, <2>1, <2>2, LoginsStayStep, TokensStayStep, FlowsStayStep DEF SessInv
<1> QED
  BY <1>2, <1>3, <1>4, <1>5, <1>6 DEF SessNext

(* The inductive invariant of logins, tokens and flows. *)
THEOREM SessInvariant == SessSpec => []SessInv
<1> QED
  BY SessInitially, SessStep, PTL DEF SessSpec

(* A session lasts no longer than the user meant it to, and begins only once: a logout that was
   answered holds on every daemon, unraced failures stay within the limit, and a flow is redeemed
   once, for any number of daemons, tokens and requests. *)
THEOREM SessionsStaySound == SessSpec => []SessionsSound
<1>1. SessInv => SessionsSound
  BY DEF SessInv, LoginInv, TokenInv, TokenAt, FlowInv, SessionsSound, LogoutHolds
<1> QED
  BY <1>1, SessInvariant, PTL

-----------------------------------------------------------------------------
(***************************************************************************)
(* Tenants.  Between a change of the cache and its write a daemon agrees   *)
(* with the table as soon as that write is done, if no other call writes   *)
(* the same tenant; and a tenant whose create has not reached the table is *)
(* nowhere, so that a deleted one has nothing left to come back from.      *)
(***************************************************************************)
TcallFields == {"at", "on", "kind", "id", "copy", "loaded"}
TenantSteps == {"load", "install", "blank", "apply", "save", "push", "erase", "users", "over"}
Early == {"load", "install", "blank", "apply", "save"}
Writes == {"save", "push", "erase"}

TcallAt(c) ==
    /\ DOMAIN tcall[c] = TcallFields /\ tcall[c].at \in TenantSteps \cup {"new"}
    /\ tcall[c].loaded \in [TenantId -> Row] /\ tcall[c].copy \in Row
    /\ tcall[c].at # "new" =>
          tcall[c].on \in TenantNode /\ tcall[c].kind \in Kinds /\ tcall[c].id \in TenantId
    /\ tcall[c].at # "install" => tcall[c].loaded = Nobody
    /\ tcall[c].at = "save" => tcall[c].kind \in {"create", "suspend", "quota"}
    /\ tcall[c].at = "push" => tcall[c].kind = "create"
    /\ tcall[c].at = "erase" => tcall[c].kind = "delete"

TenantShape == TenantTypeOK /\ DOMAIN tcall = TenantCall /\ \A c \in TenantCall : TcallAt(c)

\* A tenant whose create has not written it, or that nobody has created.
Creates(c, t) == tcall[c].at # "new" /\ tcall[c].kind = "create" /\ tcall[c].id = t
Unborn(t) == t \notin Settled /\ \A c \in TenantCall : Creates(c, t) => tcall[c].at \in Early

NoneOf(t) ==
    /\ tenantRow[t] = <<>> /\ \A n \in TenantNode : cache[n][t] = <<>>
    /\ \A c \in TenantCall : tcall[c].loaded[t] = <<>>

CreatedOnce ==
    /\ \A c, d \in TenantCall, t \in TenantId : Creates(c, t) /\ Creates(d, t) => c = d
    /\ \A c \in TenantCall, t \in TenantId : Creates(c, t) => t \notin Settled

UnbornAt(t) ==
    Unborn(t) =>
        /\ NoneOf(t)
        /\ \A c \in TenantCall : tcall[c].at \in Writes /\ tcall[c].id = t => tcall[c].kind = "create"

\* What was loaded is what the table has, or the daemon that loaded it is known to drift.
LoadedAt(c) ==
    tcall[c].at = "install" =>
        \A t \in TenantId : <<tcall[c].on, t>> \notin drift => tcall[c].loaded[t] = tenantRow[t]

WritersOf(n, t) == {c \in Writing(n) : tcall[c].id = t}
WritesAlone(c, n, t) ==
    /\ tcall[c].at = "save" => cache[n][t] = IF tcall[c].kind = "create" THEN <<>> ELSE tcall[c].copy
    /\ tcall[c].at = "erase" => cache[n][t] = <<>>
    /\ tcall[c].at = "push" => cache[n][t] = <<>> /\ tenantRow[t] = tcall[c].copy

AgreesAt(n, t) ==
    n \in hydrated /\ <<n, t>> \notin drift =>
        /\ WritersOf(n, t) = {} => cache[n][t] = tenantRow[t]
        /\ \A c \in WritersOf(n, t) :
              /\ WritersOf(n, t) = {c} => WritesAlone(c, n, t)
              /\ tcall[c].at = "push" => WritersOf(n, t) = {c}

ClosedAt(t) ==
    t \in closed =>
        /\ NoneOf(t)
        /\ \A c \in TenantCall : tcall[c].id = t => tcall[c].at \notin {"save", "push"}
        /\ \A c \in TenantCall : Creates(c, t) => tcall[c].at \notin Early
        /\ \E c \in TenantCall : tcall[c].at # "new" /\ tcall[c].id = t

TenantInv ==
    /\ TenantShape /\ CreatedOnce /\ \A c \in TenantCall : LoadedAt(c)
    /\ \A t \in TenantId : UnbornAt(t) /\ ClosedAt(t)
    /\ \A n \in TenantNode, t \in TenantId : AgreesAt(n, t)

-----------------------------------------------------------------------------
\* The step of a call leaves every other call alone, and what its own is about.
Moved(c) ==
    /\ tcall[c].at # "new" /\ tcall'[c].at # "new" /\ TcallAt(c)'
    /\ DOMAIN tcall' = TenantCall /\ \A d \in TenantCall \ {c} : tcall'[d] = tcall[d]
    /\ tcall'[c].on = tcall[c].on /\ tcall'[c].kind = tcall[c].kind /\ tcall'[c].id = tcall[c].id
    /\ tcall'[c].at \in Early => tcall[c].at \in Early

CallStep(c) ==
    \/ LoadTenants(c) \/ InstallTenants(c) \/ ChangeTenant(c) \/ CreateTenant(c)
    \/ DeleteTenant(c) \/ ReadTenants(c) \/ SaveTenant(c) \/ PushTenant(c) \/ EraseTenant(c)
    \/ ReleaseUsers(c) \/ GiveUp(c)

LEMMA Rows == Nobody \in [TenantId -> Row] /\ <<Created>> \in Row /\ Row \subseteq Seq(Tenant)
<1>1. Created \in Tenant
  BY DEF Created, Tenant
<1>2. <<>> \in Seq(Tenant) /\ \A x \in Tenant : <<x>> \in Seq(Tenant)
  BY EmptySeq
<1> QED
  BY <1>1, <1>2 DEF Nobody, Row

\* The first entry of a tenant in memory, changed.
LEMMA ChangedRow ==
  ASSUME NEW s \in Seq(Tenant), s # <<>>, NEW kind
  PROVE  /\ Changed(Head(s), kind) \in Tenant
         /\ <<Changed(Head(s), kind)>> \o Tail(s) \in Seq(Tenant)
         /\ s \in Row => <<Changed(Head(s), kind)>> \o Tail(s) = <<Changed(Head(s), kind)>>
<1>1. Head(s) \in Tenant /\ Tail(s) \in Seq(Tenant)
  BY HeadTailProperties
<1>2. Changed(Head(s), kind) \in Tenant
  BY <1>1 DEF Changed, Tenant
<1>3. <<Changed(Head(s), kind)>> \in Seq(Tenant)
  BY <1>2
<1>4. <<Changed(Head(s), kind)>> \o Tail(s) \in Seq(Tenant)
  BY <1>1, <1>3, ConcatProperties
<1>5. ASSUME s \in Row PROVE Tail(s) = <<>>
  <2>1. PICK x \in Tenant : s = <<x>>
    BY <1>5 DEF Row
  <2>2. Len(s) = 1 /\ Len(Tail(s)) = 0
    BY <2>1, HeadTailProperties
  <2> QED
    BY <1>1, <2>2, EmptySeq
<1> QED
  BY <1>2, <1>3, <1>4, <1>5, ConcatEmptySeq

LEMMA CallMoves ==
  ASSUME TenantShape, NEW c \in TenantCall, CallStep(c)
  PROVE  Moved(c)
<1>1. TenantTypeOK /\ DOMAIN tcall = TenantCall /\ TcallAt(c)
  BY DEF TenantShape
<1>2. CASE ReadTenants(c) \/ SaveTenant(c) \/ PushTenant(c) \/ EraseTenant(c) \/ ReleaseUsers(c)
           \/ DeleteTenant(c)
  <2>1. PICK s \in {"over", "push", "erase", "users"} : To(c, s) /\ tcall[c].at \notin {"new", "install"}
            /\ (s = "push" => tcall[c].kind = "create") /\ (s = "erase" => tcall[c].kind = "delete")
    BY <1>2 DEF ReadTenants, SaveTenant, PushTenant, EraseTenant, ReleaseUsers, DeleteTenant
  <2> QED
    BY <1>1, <2>1 DEF To, Moved, TcallAt, TcallFields, TenantSteps, Early
<1>3. CASE LoadTenants(c)
  <2>1. tcall[c].at = "load" /\ tenantRow \in [TenantId -> Row]
    BY <1>1, <1>3 DEF LoadTenants, TenantTypeOK
  <2>2. CASE tcall' = [tcall EXCEPT ![c].at = "install", ![c].loaded = tenantRow]
    BY <1>1, <2>1, <2>2 DEF Moved, TcallAt, TcallFields, TenantSteps, Early
  <2>3. CASE tcall' = [tcall EXCEPT ![c].at = "blank"]
    BY <1>1, <2>1, <2>3 DEF Moved, TcallAt, TcallFields, TenantSteps, Early
  <2> QED
    BY <1>3, <2>2, <2>3 DEF LoadTenants
<1>4. CASE InstallTenants(c)
  BY <1>1, <1>4, Rows DEF InstallTenants, Moved, TcallAt, TcallFields, TenantSteps, Early
<1>5. CASE GiveUp(c)
  BY <1>1, <1>5, Rows DEF GiveUp, Moved, TcallAt, TcallFields, TenantSteps, Early
<1>6. CASE CreateTenant(c)
  BY <1>1, <1>6, Rows DEF CreateTenant, Moved, TcallAt, TcallFields, TenantSteps, Early
<1>7. CASE ChangeTenant(c)
  <2> DEFINE after == Changed(Head(cache[tcall[c].on][tcall[c].id]), tcall[c].kind)
  <2>1. tcall[c].at = "apply" /\ tcall[c].kind \in {"suspend", "quota"}
        /\ cache[tcall[c].on][tcall[c].id] \in Seq(Tenant)
    BY <1>1, <1>7 DEF ChangeTenant, TcallAt, TenantTypeOK
  <2>2. To(c, "over") \/ (tcall' = [tcall EXCEPT ![c].at = "save", ![c].copy = <<after>>] /\ after \in Tenant)
    BY <1>7, <2>1, ChangedRow DEF ChangeTenant
  <2>3. CASE To(c, "over")
    BY <1>1, <2>1, <2>3 DEF To, Moved, TcallAt, TcallFields, TenantSteps, Early
  <2>4. CASE tcall' = [tcall EXCEPT ![c].at = "save", ![c].copy = <<after>>] /\ after \in Tenant
    <3>1. <<after>> \in Row
      BY <2>4 DEF Row
    <3> HIDE DEF after
    <3> QED
      BY <1>1, <2>1, <2>4, <3>1 DEF Moved, TcallAt, TcallFields, TenantSteps, Early
  <2> QED
    BY <2>2, <2>3, <2>4
<1> QED
  BY <1>2, <1>3, <1>4, <1>5, <1>6, <1>7 DEF CallStep

LEMMA CallShape ==
  ASSUME TenantShape, NEW c \in TenantCall, CallStep(c)
  PROVE  TenantShape'
<1>1. TenantTypeOK /\ \A d \in TenantCall : TcallAt(d)
  BY DEF TenantShape
<1>2. Moved(c) /\ tcall[c].on \in TenantNode /\ tcall[c].id \in TenantId
      /\ tcall[c].copy \in Row /\ tcall[c].loaded \in [TenantId -> Row]
  BY <1>1, CallMoves DEF Moved, TcallAt
<1>3. \A d \in TenantCall : TcallAt(d)' /\ tcall'[d].at \in TenantSteps \cup {"new"}
  <2>1. TcallAt(c)' /\ \A d \in TenantCall \ {c} : tcall'[d] = tcall[d]
    BY <1>2 DEF Moved
  <2>2. \A d \in TenantCall : TcallAt(d)'
    BY <1>1, <2>1 DEF TcallAt
  <2> QED
    BY <2>2 DEF TcallAt
<1>4. tenantRow' \in [TenantId -> Row]
  <2>1. <<>> \in Row
    BY DEF Row
  <2> QED
    BY <1>1, <1>2, <2>1
    DEF CallStep, LoadTenants, InstallTenants, ChangeTenant, CreateTenant, DeleteTenant, ReadTenants,
        SaveTenant, PushTenant, EraseTenant, ReleaseUsers, GiveUp, TenantTypeOK
<1>5. cache' \in [TenantNode -> [TenantId -> Seq(Tenant)]]
  <2> DEFINE n == tcall[c].on
             t == tcall[c].id
  <2>1. cache \in [TenantNode -> [TenantId -> Seq(Tenant)]]
    BY <1>1 DEF TenantTypeOK
  <2>2. CASE InstallTenants(c)
    <3>1. tcall[c].loaded \in [TenantId -> Seq(Tenant)]
      BY <1>2, Rows
    <3> QED
      BY <2>1, <2>2, <3>1 DEF InstallTenants
  <2>3. CASE ChangeTenant(c)
    <3>1. cache[n][t] # <<>> =>
              <<Changed(Head(cache[n][t]), tcall[c].kind)>> \o Tail(cache[n][t]) \in Seq(Tenant)
      BY <1>2, <2>1, ChangedRow
    <3>2. cache' = cache \/ \E v \in Seq(Tenant) : cache' = [cache EXCEPT ![n] = [@ EXCEPT ![t] = v]]
      <4>1. CASE cache[n][t] = <<>>
        BY <2>3, <4>1 DEF ChangeTenant
      <4>2. CASE cache[n][t] # <<>>
        BY <2>3, <3>1, <4>2 DEF ChangeTenant
      <4> QED
        BY <4>1, <4>2
    <3>3. ASSUME NEW v \in Seq(Tenant), cache' = [cache EXCEPT ![n] = [@ EXCEPT ![t] = v]]
          PROVE  cache' \in [TenantNode -> [TenantId -> Seq(Tenant)]]
      <4>1. [cache[n] EXCEPT ![t] = v] \in [TenantId -> Seq(Tenant)]
        BY <1>2, <2>1
      <4>2. cache' = [cache EXCEPT ![n] = [cache[n] EXCEPT ![t] = v]]
        BY <3>3
      <4> QED
        BY <1>2, <2>1, <4>1, <4>2
    <3> QED
      BY <2>1, <3>2, <3>3
  <2>4. CASE DeleteTenant(c)
    <3>1. <<>> \in Seq(Tenant)
      BY EmptySeq
    <3> QED
      BY <2>1, <2>4, <3>1 DEF DeleteTenant
  <2>5. CASE PushTenant(c)
    <3>1. cache[n][t] \o tcall[c].copy \in Seq(Tenant)
      BY <1>2, <2>1, Rows, ConcatProperties
    <3> QED
      BY <2>1, <2>5, <3>1 DEF PushTenant
  <2> QED
    BY <2>1, <2>2, <2>3, <2>4, <2>5
    DEF CallStep, LoadTenants, CreateTenant, ReadTenants, SaveTenant, EraseTenant, ReleaseUsers, GiveUp
<1>6. hydrated' \subseteq TenantNode /\ member' \subseteq TenantId /\ closed' \subseteq TenantId
  BY <1>1, <1>2, Zenon
  DEF CallStep, LoadTenants, InstallTenants, ChangeTenant, CreateTenant, DeleteTenant, ReadTenants,
      SaveTenant, PushTenant, EraseTenant, ReleaseUsers, GiveUp, TenantTypeOK
<1>7. drift' \subseteq TenantNode \X TenantId
  <2>1. Unaware(c) \subseteq TenantNode \X TenantId
    BY <1>2 DEF Unaware
  <2>2. Unsure(tcall[c].on, c) \subseteq TenantNode \X TenantId
    BY <1>1, <1>2 DEF Unsure, Writing, On, TcallAt
  <2>3. drift' \in {drift, drift \cup Unaware(c), drift \cup Unsure(tcall[c].on, c),
                   drift \cup {<<tcall[c].on, tcall[c].id>>}}
    <3>1. CASE SaveTenant(c) \/ EraseTenant(c)
      BY <3>1 DEF SaveTenant, EraseTenant
    <3>2. CASE InstallTenants(c)
      BY <3>2 DEF InstallTenants
    <3>3. CASE GiveUp(c)
      BY <3>3 DEF GiveUp
    <3>4. CASE UNCHANGED drift
      BY <3>4
    <3> QED
      BY <3>1, <3>2, <3>3, <3>4
      DEF CallStep, LoadTenants, ChangeTenant, CreateTenant, DeleteTenant, ReadTenants, PushTenant, ReleaseUsers
  <2> QED
    BY <1>1, <1>2, <2>1, <2>2, <2>3 DEF TenantTypeOK
<1> QED
  BY <1>2, <1>3, <1>4, <1>5, <1>6, <1>7 DEF TenantShape, TenantTypeOK, Moved, TenantSteps

-----------------------------------------------------------------------------
\* What a step leaves of the table, of the caches and of what its call holds.
LEMMA RowsLeft ==
  ASSUME TenantShape, NEW c \in TenantCall, CallStep(c), NEW u \in TenantId
  PROVE  tenantRow'[u] = tenantRow[u] \/ (u = tcall[c].id /\ (SaveTenant(c) \/ tenantRow'[u] = <<>>))
<1>1. tenantRow \in [TenantId -> Row]
  BY DEF TenantShape, TenantTypeOK
<1>2. CASE SaveTenant(c) \/ EraseTenant(c)
  BY <1>1, <1>2 DEF SaveTenant, EraseTenant
<1>3. CASE UNCHANGED tenantRow
  BY <1>3
<1> QED
  BY <1>2, <1>3
  DEF CallStep, LoadTenants, InstallTenants, ChangeTenant, CreateTenant, DeleteTenant, ReadTenants,
      PushTenant, ReleaseUsers, GiveUp

LEMMA CachesLeft ==
  ASSUME TenantShape, NEW c \in TenantCall, CallStep(c), NEW n \in TenantNode, NEW u \in TenantId
  PROVE  \/ cache'[n][u] = cache[n][u] \/ cache'[n][u] = <<>> \/ cache'[n][u] = tcall[c].loaded[u]
         \/ n = tcall[c].on /\ u = tcall[c].id /\ (PushTenant(c) \/ cache[n][u] # <<>>)
<1>1. cache \in [TenantNode -> [TenantId -> Seq(Tenant)]] /\ tcall[c].on \in TenantNode
  BY CallMoves DEF TenantShape, TenantTypeOK, TcallAt, Moved
<1>2. CASE PushTenant(c)
  <2>1. PICK v : cache' = [cache EXCEPT ![tcall[c].on] = [@ EXCEPT ![tcall[c].id] = v]]
    BY <1>2 DEF PushTenant
  <2> QED
    BY <1>1, <1>2, <2>1
<1>3. CASE ChangeTenant(c)
  <2>1. CASE cache[tcall[c].on][tcall[c].id] = <<>>
    BY <1>3, <2>1 DEF ChangeTenant
  <2>2. CASE cache[tcall[c].on][tcall[c].id] # <<>>
    <3>1. PICK v : cache' = [cache EXCEPT ![tcall[c].on] = [@ EXCEPT ![tcall[c].id] = v]]
      BY <1>3, <2>2 DEF ChangeTenant
    <3> QED
      BY <1>1, <2>2, <3>1
  <2> QED
    BY <2>1, <2>2
<1>4. CASE InstallTenants(c)
  BY <1>1, <1>4 DEF InstallTenants
<1>5. CASE DeleteTenant(c)
  BY <1>1, <1>5 DEF DeleteTenant
<1>6. CASE UNCHANGED cache
  BY <1>6
<1> QED
  BY <1>2, <1>3, <1>4, <1>5, <1>6
  DEF CallStep, LoadTenants, CreateTenant, ReadTenants, SaveTenant, EraseTenant, ReleaseUsers, GiveUp

LEMMA LoadedLeft ==
  ASSUME TenantShape, NEW c \in TenantCall, CallStep(c)
  PROVE  tcall'[c].loaded = tcall[c].loaded \/ tcall'[c].loaded = tenantRow \/ tcall'[c].loaded = Nobody
<1>1. DOMAIN tcall = TenantCall /\ DOMAIN tcall[c] = TcallFields
  BY DEF TenantShape, TcallAt
<1>2. CASE \E s : To(c, s)
  BY <1>1, <1>2 DEF To, TcallFields
<1>3. CASE \E s : tcall' = [tcall EXCEPT ![c].at = s, ![c].loaded = tenantRow]
  BY <1>1, <1>3 DEF TcallFields
<1>4. CASE \E s : tcall' = [tcall EXCEPT ![c].at = s, ![c].loaded = Nobody]
  BY <1>1, <1>4 DEF TcallFields
<1>5. CASE \E s, v : tcall' = [tcall EXCEPT ![c].at = s, ![c].copy = v]
  BY <1>1, <1>5 DEF TcallFields
<1>6. CASE LoadTenants(c)
  BY <1>2, <1>3, <1>6 DEF LoadTenants, To
<1>7. CASE InstallTenants(c) \/ GiveUp(c)
  BY <1>4, <1>7 DEF InstallTenants, GiveUp
<1>8. CASE ChangeTenant(c)
  <2>1. CASE cache[tcall[c].on][tcall[c].id] = <<>>
    BY <1>2, <1>8, <2>1 DEF ChangeTenant
  <2>2. CASE cache[tcall[c].on][tcall[c].id] # <<>>
    <3> DEFINE v == <<Changed(Head(cache[tcall[c].on][tcall[c].id]), tcall[c].kind)>>
    <3>1. tcall' = [tcall EXCEPT ![c].at = "save", ![c].copy = v]
      BY <1>8, <2>2 DEF ChangeTenant
    <3> HIDE DEF v
    <3> QED
      BY <1>1, <3>1 DEF TcallFields
  <2> QED
    BY <2>1, <2>2
<1>9. CASE CreateTenant(c)
  BY <1>5, <1>9 DEF CreateTenant
<1> QED
  BY <1>2, <1>6, <1>7, <1>8, <1>9
  DEF CallStep, DeleteTenant, ReadTenants, SaveTenant, PushTenant, EraseTenant, ReleaseUsers

\* A tenant that is nowhere stays so, but for the write and the entry of its create.
LEMMA NoneStays ==
  ASSUME TenantShape, NEW c \in TenantCall, CallStep(c), NEW t \in TenantId, NoneOf(t),
         tcall[c].id = t => tcall[c].at \notin {"save", "push"}
  PROVE  /\ NoneOf(t)'
         /\ tcall[c].id = t /\ tcall'[c].at \in Writes => tcall[c].at \in Writes \/ tcall[c].kind = "create"
<1>1. DOMAIN tcall = TenantCall /\ TcallAt(c) /\ Moved(c)
  BY CallMoves DEF TenantShape
<1>2. tcall[c].on \in TenantNode /\ tcall[c].id \in TenantId
  BY <1>1 DEF Moved, TcallAt
<1>3. tenantRow[t] = <<>> /\ (\A n \in TenantNode : cache[n][t] = <<>>) /\ tcall[c].loaded[t] = <<>>
  BY DEF NoneOf
<1>4. tenantRow'[t] = <<>>
  <2>1. ~(t = tcall[c].id /\ SaveTenant(c))
    BY DEF SaveTenant
  <2> QED
    BY <1>3, <2>1, RowsLeft, Zenon
<1>5. ASSUME NEW n \in TenantNode PROVE cache'[n][t] = <<>>
  <2>1. ~(t = tcall[c].id /\ PushTenant(c))
    BY DEF PushTenant
  <2> QED
    BY <1>3, <2>1, CachesLeft, Zenon
<1>6. tcall'[c].loaded[t] = <<>>
  BY <1>3, LoadedLeft DEF Nobody
<1>7. ASSUME tcall[c].id = t, tcall'[c].at \in Writes, tcall[c].at \notin Writes
      PROVE  tcall[c].kind = "create"
  <2>1. cache[tcall[c].on][tcall[c].id] = <<>>
    BY <1>2, <1>3, <1>7
  <2> QED
    BY <1>1, <1>7, <2>1
    DEF CallStep, LoadTenants, InstallTenants, ChangeTenant, CreateTenant, DeleteTenant, ReadTenants,
        SaveTenant, PushTenant, EraseTenant, ReleaseUsers, GiveUp, To, TcallAt, TcallFields, Writes
<1>8. \A d \in TenantCall : tcall'[d].loaded[t] = <<>>
  BY <1>1, <1>6 DEF NoneOf, Moved
<1> QED
  BY <1>4, <1>5, <1>7, <1>8 DEF NoneOf

LEMMA CreatesMove ==
  ASSUME NEW c \in TenantCall, Moved(c), NEW d \in TenantCall, NEW t
  PROVE  Creates(d, t)' <=> Creates(d, t)
BY DEF Moved, Creates

LEMMA UnbornMove ==
  ASSUME NEW c \in TenantCall, Moved(c), NEW t, Unborn(t)'
  PROVE  Unborn(t)
BY CreatesMove DEF Moved, Unborn

LEMMA CallUnborn ==
  ASSUME TenantShape, NEW c \in TenantCall, CallStep(c), NEW t \in TenantId, UnbornAt(t)
  PROVE  UnbornAt(t)'
<1> SUFFICES ASSUME Unborn(t)' PROVE UnbornAt(t)'
  BY DEF UnbornAt
<1>1. Moved(c) /\ Unborn(t)
  BY CallMoves, UnbornMove
<1>2. NoneOf(t) /\ \A d \in TenantCall : tcall[d].at \in Writes /\ tcall[d].id = t => tcall[d].kind = "create"
  BY <1>1 DEF UnbornAt
<1>3. ASSUME tcall[c].id = t, tcall[c].at \in {"save", "push"} PROVE FALSE
  <2>1. Creates(c, t) /\ Creates(c, t)'
    BY <1>1, <1>2, <1>3, CreatesMove DEF Creates, Moved, Writes
  <2>2. tcall'[c].at \in Early
    BY <2>1 DEF Unborn
  <2>3. tcall[c].at = "save" \/ tcall[c].at = "push"
    BY <1>3
  <2>4. tcall'[c].at \in {"push", "over"}
    BY <1>1, <2>1, <2>3
    DEF CallStep, LoadTenants, InstallTenants, ChangeTenant, CreateTenant, DeleteTenant, ReadTenants,
        SaveTenant, PushTenant, EraseTenant, ReleaseUsers, GiveUp, To, TcallAt, TcallFields, TenantShape,
        Creates
  <2> QED
    BY <2>2, <2>4 DEF Early
<1>4. NoneOf(t)' /\ (tcall[c].id = t /\ tcall'[c].at \in Writes => tcall[c].at \in Writes \/ tcall[c].kind = "create")
  BY <1>2, <1>3, NoneStays
<1> QED
  BY <1>1, <1>2, <1>4 DEF UnbornAt, Moved

\* A loaded table is as the one a later write leaves, or its daemon is known to drift.
LEMMA CallLoaded ==
  ASSUME TenantShape, NEW c \in TenantCall, CallStep(c), NEW d \in TenantCall, LoadedAt(d)
  PROVE  LoadedAt(d)'
<1> SUFFICES ASSUME tcall'[d].at = "install", NEW t \in TenantId, <<tcall'[d].on, t>> \notin drift'
             PROVE  tcall'[d].loaded[t] = tenantRow'[t]
  BY DEF LoadedAt
<1>1. Moved(c) /\ TcallAt(d) /\ TcallAt(c) /\ DOMAIN tcall = TenantCall
  BY CallMoves DEF TenantShape
<1>2. CASE LoadTenants(c) /\ d = c
  BY <1>1, <1>2 DEF LoadTenants, TcallAt, TcallFields
<1>3. CASE ~(LoadTenants(c) /\ d = c)
  <2>1. d # c
    <3>1. \/ LoadTenants(c) \/ ChangeTenant(c) \/ GiveUp(c) \/ InstallTenants(c) \/ CreateTenant(c)
          \/ \E s \in {"over", "push", "erase", "users"} : To(c, s)
      BY DEF CallStep, DeleteTenant, ReadTenants, SaveTenant, PushTenant, EraseTenant, ReleaseUsers
    <3>2. LoadTenants(c) \/ tcall'[c].at # "install"
      BY <1>1, <3>1
      DEF InstallTenants, ChangeTenant, CreateTenant, GiveUp, To, TcallAt, TcallFields
    <3> QED
      BY <1>3, <3>2, Zenon
  <2>2. tcall'[d] = tcall[d] /\ d \in On(tcall[d].on) /\ tcall[d].on \in TenantNode
    BY <1>1, <2>1 DEF Moved, On, TcallAt
  <2>3. drift \subseteq drift'
    BY DEF CallStep, LoadTenants, InstallTenants, ChangeTenant, CreateTenant, DeleteTenant, ReadTenants,
           SaveTenant, PushTenant, EraseTenant, ReleaseUsers, GiveUp
  <2>4. tcall[d].loaded[t] = tenantRow[t]
    BY <2>2, <2>3 DEF LoadedAt
  <2>5. CASE SaveTenant(c) \/ EraseTenant(c)
    <3>1. Unaware(c) \subseteq drift'
      BY <2>5 DEF SaveTenant, EraseTenant
    <3>2. t # tcall[c].id
      BY <2>2, <3>1 DEF Unaware
    <3> QED
      BY <2>2, <2>4, <2>5, <3>2 DEF SaveTenant, EraseTenant, TenantShape, TenantTypeOK
  <2>6. CASE UNCHANGED tenantRow
    BY <2>2, <2>4, <2>6
  <2> QED
    BY <2>5, <2>6
    DEF CallStep, LoadTenants, InstallTenants, ChangeTenant, CreateTenant, DeleteTenant, ReadTenants,
        PushTenant, ReleaseUsers, GiveUp
<1> QED
  BY <1>2, <1>3

-----------------------------------------------------------------------------
\* Who writes a tenant on a daemon, before and after a step of one call.
LEMMA WritersMove ==
  ASSUME NEW c \in TenantCall, Moved(c), NEW n, NEW t
  PROVE  /\ \A d \in TenantCall \ {c} : d \in WritersOf(n, t)' <=> d \in WritersOf(n, t)
         /\ c \in WritersOf(n, t) <=> n = tcall[c].on /\ t = tcall[c].id /\ tcall[c].at \in Writes
         /\ c \in WritersOf(n, t)' <=> n = tcall[c].on /\ t = tcall[c].id /\ tcall'[c].at \in Writes
         /\ WritersOf(n, t) \subseteq TenantCall /\ WritersOf(n, t)' \subseteq TenantCall
BY DEF Moved, WritersOf, Writing, On, Writes

\* What a daemon has of a tenant agrees as it did when the step is about something else.
LEMMA AgreesStays ==
  ASSUME NEW c \in TenantCall, Moved(c), NEW n, NEW t, AgreesAt(n, t),
         cache'[n][t] = cache[n][t], tenantRow'[t] = tenantRow[t],
         n \in hydrated' => n \in hydrated, <<n, t>> \in drift => <<n, t>> \in drift',
         c \notin WritersOf(n, t), c \notin WritersOf(n, t)'
  PROVE  AgreesAt(n, t)'
<1>1. WritersOf(n, t)' = WritersOf(n, t) /\ \A d \in WritersOf(n, t) : d \in TenantCall /\ tcall'[d] = tcall[d]
  <2>1. \A d \in TenantCall : d \in WritersOf(n, t)' <=> d \in WritersOf(n, t)
    BY WritersMove
  <2>2. WritersOf(n, t) \subseteq TenantCall /\ WritersOf(n, t)' \subseteq TenantCall
    BY WritersMove
  <2>3. WritersOf(n, t)' = WritersOf(n, t)
    BY <2>1, <2>2, Zenon
  <2> QED
    BY <2>2, <2>3 DEF Moved
<1> QED
  BY <1>1 DEF AgreesAt, WritesAlone

\* A write by a call that is not alone with its tenant is known to drift.
LEMMA WriteHeard ==
  ASSUME NEW c \in TenantCall, Moved(c), TcallAt(c), SaveTenant(c) \/ EraseTenant(c),
         NEW n \in TenantNode, NEW t, AgreesAt(n, t), t = tcall[c].id,
         n \in hydrated, <<n, t>> \notin drift'
  PROVE  n = tcall[c].on /\ WritersOf(n, t) = {c} /\ WritesAlone(c, n, t)
<1>1. drift' = drift \cup Unaware(c)
  BY DEF SaveTenant, EraseTenant
<1>2. n = tcall[c].on /\ ~ \E d \in Writing(n) \ {c} : tcall[d].id = t
  BY <1>1 DEF Unaware
<1>3. c \in WritersOf(n, t)
  BY <1>2, WritersMove DEF SaveTenant, EraseTenant, Writes
<1>4. WritersOf(n, t) = {c}
  BY <1>2, <1>3 DEF WritersOf
<1> QED
  BY <1>1, <1>2, <1>3, <1>4 DEF AgreesAt

LEMMA CallAgrees ==
  ASSUME TenantInv, NEW c \in TenantCall, CallStep(c), NEW n \in TenantNode, NEW t \in TenantId
  PROVE  AgreesAt(n, t)'
<1>1. TenantShape /\ AgreesAt(n, t) /\ UnbornAt(t) /\ LoadedAt(c) /\ CreatedOnce
  BY DEF TenantInv
<1>2. Moved(c) /\ TcallAt(c) /\ DOMAIN tcall = TenantCall
  BY <1>1, CallMoves DEF TenantShape
<1>3. /\ tenantRow \in [TenantId -> Row] /\ cache \in [TenantNode -> [TenantId -> Seq(Tenant)]]
      /\ tcall[c].on \in TenantNode /\ tcall[c].id \in TenantId /\ tcall[c].copy \in Row
  BY <1>1, <1>2 DEF TenantShape, TenantTypeOK, Moved, TcallAt
<1> DEFINE here == n = tcall[c].on /\ t = tcall[c].id
<1> SUFFICES ASSUME n \in hydrated', <<n, t>> \notin drift' PROVE AgreesAt(n, t)'
  BY DEF AgreesAt
<1>4. CASE LoadTenants(c) \/ ReadTenants(c) \/ ReleaseUsers(c)
  <2>1. UNCHANGED <<tenantRow, cache, hydrated, drift>> /\ tcall[c].at \notin Writes /\ tcall'[c].at \notin Writes
    BY <1>2, <1>4 DEF LoadTenants, ReadTenants, ReleaseUsers, To, TcallAt, TcallFields, Writes
  <2> QED
    BY <1>1, <1>2, <2>1, AgreesStays, WritersMove
<1>5. CASE InstallTenants(c)
  <2>1. tcall[c].at \in {"install", "blank"} /\ tcall'[c].at = "apply"
        /\ UNCHANGED tenantRow /\ cache' = [cache EXCEPT ![tcall[c].on] = tcall[c].loaded]
        /\ hydrated' = hydrated \cup {tcall[c].on} /\ drift' = drift \cup Unsure(tcall[c].on, c)
    BY <1>2, <1>5 DEF InstallTenants, TcallAt, TcallFields
  <2>2. c \notin WritersOf(n, t) /\ c \notin WritersOf(n, t)'
    BY <1>2, <2>1, WritersMove DEF Writes
  <2>3. CASE n # tcall[c].on
    BY <1>1, <1>2, <1>3, <2>1, <2>2, <2>3, AgreesStays
  <2>4. CASE n = tcall[c].on
    <3>1. tcall[c].at # "blank" /\ \A d \in Writing(n) \ {c} : tcall[d].id # t
      BY <2>1, <2>4 DEF Unsure
    <3>2. WritersOf(n, t) = {}
      BY <2>2, <3>1 DEF WritersOf
    <3>3. WritersOf(n, t)' = {}
      BY <1>2, <2>2, <3>2, WritersMove
    <3>4. cache'[n][t] = tenantRow'[t]
      BY <1>1, <1>3, <2>1, <2>4, <3>1 DEF LoadedAt
    <3> QED
      BY <3>3, <3>4 DEF AgreesAt
  <2> QED
    BY <2>3, <2>4
<1>6. CASE ChangeTenant(c) \/ DeleteTenant(c)
  <2>1. UNCHANGED <<tenantRow, hydrated, drift>> /\ tcall[c].at = "apply"
    BY <1>6 DEF ChangeTenant, DeleteTenant
  <2>2. CASE ~here
    <3>1. cache'[n][t] = cache[n][t]
      <4>1. CASE ChangeTenant(c) /\ cache[tcall[c].on][tcall[c].id] # <<>>
        <5>1. PICK v : cache' = [cache EXCEPT ![tcall[c].on] = [@ EXCEPT ![tcall[c].id] = v]]
          BY <4>1 DEF ChangeTenant
        <5> QED
          BY <1>3, <2>2, <5>1
      <4>2. CASE ChangeTenant(c) /\ cache[tcall[c].on][tcall[c].id] = <<>>
        BY <4>2 DEF ChangeTenant
      <4>3. CASE DeleteTenant(c)
        BY <1>3, <2>2, <4>3 DEF DeleteTenant
      <4> QED
        BY <1>6, <4>1, <4>2, <4>3
    <3>2. c \notin WritersOf(n, t) /\ c \notin WritersOf(n, t)'
      BY <1>2, <2>2, WritersMove
    <3> QED
      BY <1>1, <1>2, <2>1, <3>1, <3>2, AgreesStays, Zenon
  <2>3. CASE here /\ cache[n][t] = <<>>
    <3>1. cache'[n][t] = cache[n][t] /\ tcall'[c].at = "over"
      BY <1>2, <1>3, <1>6, <2>3 DEF ChangeTenant, DeleteTenant, To, TcallAt, TcallFields
    <3> QED
      BY <1>1, <1>2, <2>1, <3>1, AgreesStays, WritersMove DEF Writes
  <2>4. CASE here /\ cache[n][t] # <<>>
    <3>1. ASSUME NEW d \in WritersOf(n, t) PROVE tcall[d].at # "push" /\ d # c /\ d \in TenantCall
      <4>1. tcall[d].at # "push"
        BY <1>1, <2>1, <2>4 DEF AgreesAt, WritesAlone
      <4> QED
        BY <1>2, <2>1, <4>1, WritersMove DEF Writes
    <3>2. c \in WritersOf(n, t)' /\ tcall'[c].at # "push" /\ tcall'[c].at \in Writes
      BY <1>2, <1>6, <2>4, WritersMove DEF ChangeTenant, DeleteTenant, To, TcallAt, TcallFields, Writes
    <3>3. \A d \in WritersOf(n, t)' : tcall'[d].at # "push"
      <4> SUFFICES ASSUME NEW d \in WritersOf(n, t)', d # c PROVE tcall'[d].at # "push"
        BY <3>2
      <4>1. d \in TenantCall /\ d \in WritersOf(n, t)
        BY <1>2, WritersMove
      <4> QED
        BY <1>2, <3>1, <4>1 DEF Moved
    <3>4. ASSUME WritersOf(n, t)' = {c} PROVE WritesAlone(c, n, t)'
      <4>1. WritersOf(n, t) = {}
        BY <1>2, <3>1, <3>4, WritersMove
      <4>2. cache[n][t] \in Row
        BY <1>1, <1>3, <2>1, <4>1 DEF AgreesAt
      <4>3. CASE ChangeTenant(c)
        <5>1. /\ cache'[n][t] = <<Changed(Head(cache[n][t]), tcall[c].kind)>> \o Tail(cache[n][t])
              /\ tcall'[c].copy = <<Changed(Head(cache[n][t]), tcall[c].kind)>>
              /\ tcall'[c].kind # "create" /\ tcall'[c].at = "save"
          <6> DEFINE v == Changed(Head(cache[n][t]), tcall[c].kind)
          <6>1. /\ cache' = [cache EXCEPT ![n][t] = <<v>> \o Tail(@)]
                /\ tcall' = [tcall EXCEPT ![c].at = "save", ![c].copy = <<v>>]
                /\ tcall[c].kind \in {"suspend", "quota"}
            BY <2>4, <4>3 DEF ChangeTenant
          <6> HIDE DEF v
          <6>2. cache'[n][t] = <<v>> \o Tail(cache[n][t])
            BY <1>3, <6>1
          <6>3. /\ tcall'[c].copy = <<v>> /\ tcall'[c].at = "save" /\ tcall'[c].kind = tcall[c].kind
            BY <1>2, <6>1 DEF TcallAt, TcallFields
          <6> QED
            BY <6>1, <6>2, <6>3 DEF v
        <5>2. cache'[n][t] = tcall'[c].copy
          BY <1>3, <2>4, <4>2, <5>1, ChangedRow
        <5> QED
          BY <5>1, <5>2 DEF WritesAlone
      <4>4. CASE DeleteTenant(c)
        <5>1. cache'[n][t] = <<>> /\ tcall'[c].at = "erase"
          BY <1>2, <1>3, <2>4, <4>4 DEF DeleteTenant, To, TcallAt, TcallFields
        <5> QED
          BY <5>1 DEF WritesAlone
      <4> QED
        BY <1>6, <4>3, <4>4
    <3> QED
      BY <3>2, <3>3, <3>4 DEF AgreesAt
  <2> QED
    BY <2>2, <2>3, <2>4, Zenon
<1>7. CASE CreateTenant(c)
  <2>1. /\ UNCHANGED <<tenantRow, cache, hydrated, drift>> /\ tcall[c].at = "apply"
        /\ tcall[c].kind = "create" /\ tcall'[c].at = "save"
    BY <1>2, <1>7 DEF CreateTenant, TcallAt, TcallFields
  <2>2. CASE ~here
    BY <1>1, <1>2, <2>1, <2>2, AgreesStays, WritersMove
  <2>3. CASE here
    <3>1. Creates(c, t) /\ Unborn(t)
      BY <1>1, <2>1, <2>3 DEF Creates, Unborn, CreatedOnce, Early
    <3>2. cache[n][t] = <<>>
      BY <1>1, <3>1 DEF UnbornAt, NoneOf
    <3>3. ASSUME NEW d \in WritersOf(n, t) PROVE FALSE
      <4>1. d \in TenantCall /\ tcall[d].at \in Writes /\ tcall[d].id = t
        BY DEF WritersOf, Writing, On, Writes
      <4>2. Creates(d, t)
        BY <1>1, <3>1, <4>1 DEF UnbornAt, Creates, Writes
      <4>3. d = c
        BY <1>1, <3>1, <4>1, <4>2 DEF CreatedOnce
      <4> QED
        BY <2>1, <4>1, <4>3 DEF Writes
    <3>4. WritersOf(n, t)' = {c}
      BY <1>2, <2>1, <2>3, <3>3, WritersMove DEF Writes
    <3>5. tcall'[c].kind = "create"
      BY <1>2, <2>1 DEF Moved
    <3> QED
      BY <2>1, <3>2, <3>4, <3>5 DEF AgreesAt, WritesAlone
  <2> QED
    BY <2>2, <2>3
<1>8. CASE SaveTenant(c) \/ EraseTenant(c)
  <2>1. UNCHANGED <<cache, hydrated>> /\ drift \subseteq drift'
        /\ \A u \in TenantId : u # tcall[c].id => tenantRow'[u] = tenantRow[u]
    BY <1>3, <1>8 DEF SaveTenant, EraseTenant
  <2>2. CASE t # tcall[c].id
    BY <1>1, <1>2, <2>1, <2>2, AgreesStays, WritersMove
  <2>3. CASE t = tcall[c].id
    <3>1. n = tcall[c].on /\ WritersOf(n, t) = {c} /\ WritesAlone(c, n, t)
      BY <1>1, <1>2, <1>8, <2>1, <2>3, WriteHeard
    <3>2. \A d \in WritersOf(n, t)' : d = c
      BY <1>2, <3>1, WritersMove
    <3>3. CASE SaveTenant(c) /\ tcall[c].kind = "create"
      <4>1. tcall'[c].at = "push" /\ tcall'[c].copy = tcall[c].copy /\ tenantRow'[t] = tcall[c].copy
        BY <1>2, <1>3, <2>3, <3>3 DEF SaveTenant, To, TcallAt, TcallFields
      <4>2. WritersOf(n, t)' = {c}
        BY <1>2, <2>3, <3>1, <3>2, <4>1, WritersMove DEF Writes
      <4>3. cache'[n][t] = <<>>
        BY <2>1, <3>1, <3>3 DEF WritesAlone, SaveTenant
      <4> QED
        BY <4>1, <4>2, <4>3 DEF AgreesAt, WritesAlone
    <3>4. CASE ~(SaveTenant(c) /\ tcall[c].kind = "create")
      <4>1. tcall'[c].at \notin Writes
        BY <1>2, <1>8, <3>4 DEF SaveTenant, EraseTenant, To, TcallAt, TcallFields, Writes
      <4>2. WritersOf(n, t)' = {}
        BY <1>2, <3>2, <4>1, WritersMove
      <4>3. cache[n][t] = tenantRow'[t]
        BY <1>3, <1>8, <2>3, <3>1, <3>4 DEF SaveTenant, EraseTenant, WritesAlone
      <4> QED
        BY <2>1, <4>2, <4>3 DEF AgreesAt
    <3> QED
      BY <3>3, <3>4
  <2> QED
    BY <2>2, <2>3
<1>9. CASE PushTenant(c)
  <2>1. /\ UNCHANGED <<tenantRow, hydrated, drift>> /\ tcall[c].at = "push" /\ tcall'[c].at = "over"
        /\ cache' = [cache EXCEPT ![tcall[c].on][tcall[c].id] = @ \o tcall[c].copy]
    BY <1>2, <1>9 DEF PushTenant, To, TcallAt, TcallFields
  <2>2. CASE ~here
    <3>1. cache'[n][t] = cache[n][t]
      BY <1>3, <2>1, <2>2
    <3> QED
      BY <1>1, <1>2, <2>1, <2>2, <3>1, AgreesStays, WritersMove
  <2>3. CASE here
    <3>1. c \in WritersOf(n, t)
      BY <1>2, <2>1, <2>3, WritersMove DEF Writes
    <3>2. WritersOf(n, t) = {c} /\ cache[n][t] = <<>> /\ tenantRow[t] = tcall[c].copy
      BY <1>1, <2>1, <3>1 DEF AgreesAt, WritesAlone
    <3>3. WritersOf(n, t)' = {}
      BY <1>2, <2>1, <3>2, WritersMove DEF Writes
    <3>4. <<>> \o tcall[c].copy = tcall[c].copy
      BY <1>3, Rows, ConcatEmptySeq
    <3>5. cache'[n][t] = tenantRow'[t]
      BY <1>3, <2>1, <2>3, <3>2, <3>4
    <3> QED
      BY <3>3, <3>5 DEF AgreesAt
  <2> QED
    BY <2>2, <2>3
<1>10. CASE GiveUp(c)
  <2>1. UNCHANGED <<tenantRow, cache, hydrated>> /\ drift \subseteq drift' /\ tcall'[c].at = "over"
        /\ (c \in Writing(tcall[c].on) => <<tcall[c].on, tcall[c].id>> \in drift')
    BY <1>2, <1>10 DEF GiveUp, TcallAt, TcallFields
  <2>2. c \notin WritersOf(n, t)
    <3> SUFFICES ASSUME c \in WritersOf(n, t) PROVE FALSE
      OBVIOUS
    <3>1. n = tcall[c].on /\ t = tcall[c].id
      BY <1>2, WritersMove
    <3>2. c \in Writing(tcall[c].on)
      BY <3>1 DEF WritersOf
    <3> QED
      BY <2>1, <3>1, <3>2
  <2> QED
    BY <1>1, <1>2, <2>1, <2>2, AgreesStays, WritersMove DEF Writes
<1> QED
  BY <1>4, <1>5, <1>6, <1>7, <1>8, <1>9, <1>10 DEF CallStep

\* Nothing is left to bring a tenant back that was closed.
LEMMA CallClosed ==
  ASSUME TenantInv, NEW c \in TenantCall, CallStep(c), NEW t \in TenantId
  PROVE  ClosedAt(t)'
<1> SUFFICES ASSUME t \in closed' PROVE ClosedAt(t)'
  BY DEF ClosedAt
<1>1. TenantShape /\ ClosedAt(t) /\ UnbornAt(t) /\ CreatedOnce
  BY DEF TenantInv
<1>2. Moved(c) /\ TcallAt(c) /\ DOMAIN tcall = TenantCall
  BY <1>1, CallMoves DEF TenantShape
<1>3. CASE t \in closed
  <2>1. NoneOf(t) /\ (tcall[c].id = t => tcall[c].at \notin {"save", "push"})
        /\ (Creates(c, t) => tcall[c].at \notin Early)
    BY <1>1, <1>3 DEF ClosedAt
  <2>2. NoneOf(t)' /\ (tcall[c].id = t /\ tcall'[c].at \in Writes =>
                            tcall[c].at \in Writes \/ tcall[c].kind = "create")
    BY <1>1, <2>1, NoneStays
  <2>3. ASSUME tcall[c].id = t PROVE tcall'[c].at \notin {"save", "push"}
    <3>1. tcall[c].at # "apply" \/ tcall[c].kind # "create"
      BY <1>2, <2>1, <2>3 DEF Creates, Early
    <3>2. tcall[c].at \notin {"save", "push"}
      BY <2>1, <2>3, Zenon
    <3>3. tcall'[c].at # "push"
      <4>1. ~SaveTenant(c)
        BY <3>2 DEF SaveTenant
      <4>2. CASE LoadTenants(c) \/ InstallTenants(c) \/ ChangeTenant(c) \/ CreateTenant(c) \/ GiveUp(c)
        BY <1>2, <4>2
        DEF LoadTenants, InstallTenants, ChangeTenant, CreateTenant, GiveUp, To, TcallAt, TcallFields
      <4>3. CASE \E s \in {"over", "erase", "users"} : To(c, s)
        BY <1>2, <4>3 DEF To, TcallAt, TcallFields
      <4> QED
        BY <4>1, <4>2, <4>3
        DEF CallStep, DeleteTenant, ReadTenants, PushTenant, EraseTenant, ReleaseUsers
    <3>4. tcall'[c].at # "save"
      <4>1. ASSUME ChangeTenant(c) \/ CreateTenant(c) PROVE tcall'[c].at # "save"
        BY <1>2, <2>2, <2>3, <3>1, <4>1 DEF ChangeTenant, CreateTenant, Writes
      <4>2. CASE LoadTenants(c) \/ InstallTenants(c) \/ GiveUp(c)
        BY <1>2, <4>2 DEF LoadTenants, InstallTenants, GiveUp, TcallAt, TcallFields
      <4>3. CASE \E s \in {"over", "push", "erase", "users"} : To(c, s)
        BY <1>2, <4>3 DEF To, TcallAt, TcallFields
      <4> QED
        BY <4>1, <4>2, <4>3
        DEF CallStep, DeleteTenant, ReadTenants, SaveTenant, PushTenant, EraseTenant, ReleaseUsers
    <3> QED
      BY <3>3, <3>4
  <2>4. \A d \in TenantCall : tcall'[d].id = t => tcall'[d].at \notin {"save", "push"}
    BY <1>1, <1>2, <1>3, <2>3 DEF ClosedAt, Moved
  <2>5. \A d \in TenantCall : Creates(d, t)' => tcall'[d].at \notin Early
    BY <1>1, <1>2, <1>3, CreatesMove DEF ClosedAt, Moved
  <2>6. \E d \in TenantCall : tcall'[d].at # "new" /\ tcall'[d].id = t
    BY <1>1, <1>2, <1>3 DEF ClosedAt, Moved
  <2> QED
    BY <2>2, <2>4, <2>5, <2>6 DEF ClosedAt
<1>4. CASE t \notin closed
  <2>1. EraseTenant(c) /\ LastCopy(c) /\ t = tcall[c].id
    BY <1>4
    DEF CallStep, LoadTenants, InstallTenants, ChangeTenant, CreateTenant, DeleteTenant, ReadTenants,
        SaveTenant, PushTenant, EraseTenant, ReleaseUsers, GiveUp
  <2>2. /\ tcall[c].at = "erase" /\ tcall[c].kind = "delete" /\ tcall[c].loaded = Nobody
        /\ tcall'[c].at = "users" /\ tcall'[c].loaded = Nobody /\ UNCHANGED cache
        /\ tenantRow' = [tenantRow EXCEPT ![t] = <<>>]
    BY <1>2, <2>1 DEF EraseTenant, To, TcallAt, TcallFields
  <2>3. NoneOf(t)'
    <3>1. tenantRow'[t] = <<>>
      BY <1>1, <2>2 DEF TenantShape, TenantTypeOK
    <3>2. \A n \in TenantNode : cache'[n][t] = <<>>
      BY <2>1, <2>2 DEF LastCopy
    <3>3. \A d \in TenantCall : tcall'[d].loaded[t] = <<>>
      BY <1>2, <2>1, <2>2 DEF LastCopy, Moved, Nobody
    <3> QED
      BY <3>1, <3>2, <3>3 DEF NoneOf
  <2>4. \A d \in TenantCall : tcall'[d].id = t => tcall'[d].at \notin {"save", "push"}
    BY <1>2, <2>1, <2>2 DEF LastCopy, Moved
  <2>5. ASSUME NEW d \in TenantCall, Creates(d, t)', tcall'[d].at \in Early PROVE FALSE
    <3>1. Creates(d, t) /\ tcall[d].at \in Early
      BY <1>2, <2>5, CreatesMove DEF Moved
    <3>2. Unborn(t)
      BY <1>1, <3>1 DEF Unborn, CreatedOnce
    <3> QED
      BY <1>1, <2>1, <2>2, <3>2 DEF UnbornAt, Writes
  <2>6. tcall'[c].at # "new" /\ tcall'[c].id = t
    BY <1>2, <2>1 DEF Moved
  <2> QED
    BY <2>3, <2>4, <2>5, <2>6 DEF ClosedAt
<1> QED
  BY <1>3, <1>4

LEMMA CallKeeps ==
  ASSUME TenantInv, NEW c \in TenantCall, CallStep(c)
  PROVE  TenantInv'
<1>1. TenantShape /\ CreatedOnce /\ (\A t \in TenantId : UnbornAt(t)) /\ \A d \in TenantCall : LoadedAt(d)
  BY DEF TenantInv
<1>2. Moved(c)
  BY <1>1, CallMoves
<1>3. TenantShape'
  BY <1>1, CallShape
<1>4. CreatedOnce'
  BY <1>1, <1>2, CreatesMove DEF CreatedOnce
<1>5. \A d \in TenantCall : LoadedAt(d)'
  BY <1>1, CallLoaded
<1>6. \A t \in TenantId : UnbornAt(t)' /\ ClosedAt(t)'
  BY <1>1, CallUnborn, CallClosed
<1>7. \A n \in TenantNode, t \in TenantId : AgreesAt(n, t)'
  BY CallAgrees
<1> QED
  BY <1>3, <1>4, <1>5, <1>6, <1>7 DEF TenantInv

-----------------------------------------------------------------------------
\* A call begins with an id nobody has created if it is to create one.
LEMMA AskKeeps ==
  ASSUME TenantInv, NEW c \in TenantCall, NEW n \in TenantNode, NEW t \in TenantId, NEW kind \in Kinds,
         AskTenant(c, n, kind, t)
  PROVE  TenantInv'
<1>1. TenantTypeOK /\ DOMAIN tcall = TenantCall /\ (\A d \in TenantCall : TcallAt(d)) /\ CreatedOnce
      /\ (\A d \in TenantCall : LoadedAt(d)) /\ (\A u \in TenantId : UnbornAt(u) /\ ClosedAt(u))
      /\ (\A m \in TenantNode, u \in TenantId : AgreesAt(m, u))
  BY DEF TenantInv, TenantShape
<1>2. UNCHANGED <<tenantRow, cache, hydrated, member, drift, closed>> /\ tcall[c] = NewCall
      /\ (kind = "create" => t \notin Settled /\ \A d \in TenantCall : tcall[d].id # t)
  BY DEF AskTenant
<1>3. PICK s \in {"apply", "load"} :
          tcall' = [tcall EXCEPT ![c] = [NewCall EXCEPT !.on = n, !.kind = kind, !.id = t, !.at = s]]
  BY DEF AskTenant
<1>4. /\ DOMAIN tcall' = TenantCall /\ \A d \in TenantCall \ {c} : tcall'[d] = tcall[d]
      /\ tcall[c].at = "new" /\ tcall[c].loaded = Nobody
  <2>1. DOMAIN tcall' = TenantCall /\ \A d \in TenantCall \ {c} : tcall'[d] = tcall[d]
    BY <1>1, <1>3
  <2>2. tcall[c].at = "new" /\ tcall[c].loaded = Nobody
    <3>1. NewCall.at = "new" /\ NewCall.loaded = Nobody
      BY DEF NewCall
    <3> QED
      BY <1>2, <3>1
  <2> QED
    BY <2>1, <2>2
<1>5. tcall'[c] = [at |-> s, on |-> n, kind |-> kind, id |-> t, copy |-> <<>>, loaded |-> Nobody]
  BY <1>1, <1>3 DEF NewCall
<1>6. TcallAt(c)' /\ tcall'[c].at = s /\ tcall'[c].on = n /\ tcall'[c].kind = kind /\ tcall'[c].id = t
      /\ tcall'[c].loaded = Nobody
  BY <1>5, Rows DEF TcallAt, TcallFields, TenantSteps, Row
<1>7. TenantShape'
  <2>1. \A d \in TenantCall : TcallAt(d)' /\ tcall'[d].at \in TenantSteps \cup {"new"}
    BY <1>1, <1>4, <1>6 DEF TcallAt
  <2> QED
    BY <1>1, <1>2, <1>4, <2>1 DEF TenantShape, TenantTypeOK, TenantSteps
<1>8. \A d \in TenantCall, u \in TenantId : Creates(d, u)' <=> Creates(d, u) \/ (d = c /\ u = t /\ kind = "create")
  BY <1>4, <1>6 DEF Creates
<1>9. CreatedOnce'
  <2>1. kind = "create" => t \notin Settled /\ \A d \in TenantCall : ~Creates(d, t)
    BY <1>2 DEF Creates
  <2> QED
    BY <1>1, <1>8, <2>1 DEF CreatedOnce
<1>10. \A d \in TenantCall : LoadedAt(d)'
  BY <1>1, <1>2, <1>4, <1>6 DEF LoadedAt
<1>11. \A u \in TenantId : NoneOf(u) => NoneOf(u)'
  BY <1>2, <1>4, <1>6 DEF NoneOf, Nobody
<1>12. ASSUME NEW u \in TenantId, Unborn(u)' PROVE UnbornAt(u)'
  <2>1. Unborn(u)
    BY <1>4, <1>8, <1>12 DEF Unborn, Creates
  <2>2. NoneOf(u) /\ \A d \in TenantCall : tcall[d].at \in Writes /\ tcall[d].id = u => tcall[d].kind = "create"
    BY <1>1, <2>1 DEF UnbornAt
  <2>3. tcall'[c].at \notin Writes
    BY <1>6 DEF Writes
  <2> QED
    BY <1>4, <1>11, <2>2, <2>3 DEF UnbornAt
<1>13. ASSUME NEW u \in TenantId, u \in closed' PROVE ClosedAt(u)'
  <2>1. /\ NoneOf(u) /\ \A d \in TenantCall : tcall[d].id = u => tcall[d].at \notin {"save", "push"}
        /\ \A d \in TenantCall : Creates(d, u) => tcall[d].at \notin Early
    BY <1>1, <1>2, <1>13 DEF ClosedAt
  <2>2. PICK e \in TenantCall : tcall[e].at # "new" /\ tcall[e].id = u
    BY <1>1, <1>2, <1>13 DEF ClosedAt
  <2>3. e # c /\ tcall'[e] = tcall[e] /\ ~(u = t /\ kind = "create")
    BY <1>2, <1>4, <2>2
  <2>4. \A d \in TenantCall : Creates(d, u)' => tcall'[d].at \notin Early
    BY <1>4, <1>8, <2>1, <2>3 DEF Creates
  <2>5. \A d \in TenantCall : tcall'[d].id = u => tcall'[d].at \notin {"save", "push"}
    BY <1>4, <1>6, <2>1
  <2> QED
    BY <1>11, <2>1, <2>2, <2>3, <2>4, <2>5 DEF ClosedAt
<1>14. ASSUME NEW m \in TenantNode, NEW u \in TenantId PROVE AgreesAt(m, u)'
  <2>1. WritersOf(m, u) \subseteq TenantCall \ {c} /\ WritersOf(m, u)' \subseteq TenantCall \ {c}
    BY <1>4, <1>6 DEF WritersOf, Writing, On
  <2>2. \A d \in TenantCall \ {c} : d \in WritersOf(m, u)' <=> d \in WritersOf(m, u)
    BY <1>4 DEF WritersOf, Writing, On
  <2>3. WritersOf(m, u)' = WritersOf(m, u)
    BY <2>1, <2>2, Zenon
  <2>4. \A d \in WritersOf(m, u) : tcall'[d] = tcall[d]
    BY <1>4, <2>1
  <2>5. AgreesAt(m, u)
    BY <1>1
  <2> QED
    BY <1>2, <2>3, <2>4, <2>5 DEF AgreesAt, WritesAlone
<1> QED
  BY <1>7, <1>9, <1>10, <1>12, <1>13, <1>14 DEF TenantInv, UnbornAt, ClosedAt

\* A daemon that restarts forgets its cache and its calls.
LEMMA RestartKeeps ==
  ASSUME TenantInv, NEW n \in TenantNode, TenantRestart(n)
  PROVE  TenantInv'
<1>1. TenantTypeOK /\ DOMAIN tcall = TenantCall /\ (\A d \in TenantCall : TcallAt(d)) /\ CreatedOnce
      /\ (\A d \in TenantCall : LoadedAt(d)) /\ (\A u \in TenantId : UnbornAt(u) /\ ClosedAt(u))
      /\ (\A m \in TenantNode, u \in TenantId : AgreesAt(m, u))
  BY DEF TenantInv, TenantShape
<1>2. /\ UNCHANGED <<tenantRow, member, closed>> /\ hydrated' = hydrated \ {n}
      /\ cache' = [cache EXCEPT ![n] = Nobody] /\ drift' = {d \in drift : d[1] # n}
      /\ DOMAIN tcall' = TenantCall
  BY DEF TenantRestart
<1>3. ASSUME NEW d \in TenantCall
      PROVE  \/ d \notin On(n) /\ tcall'[d] = tcall[d]
             \/ /\ d \in On(n) /\ tcall[d].at # "new" /\ TcallAt(d)' /\ tcall'[d].at = "over"
                /\ tcall'[d].on = tcall[d].on /\ tcall'[d].kind = tcall[d].kind /\ tcall'[d].id = tcall[d].id
                /\ tcall'[d].loaded = Nobody
  <2>1. CASE d \notin On(n)
    BY <2>1 DEF TenantRestart
  <2>2. CASE d \in On(n)
    <3>1. tcall'[d] = [tcall[d] EXCEPT !.at = "over", !.loaded = Nobody]
      BY <2>2 DEF TenantRestart
    <3>2. TcallAt(d) /\ tcall[d].at # "new"
      BY <1>1, <2>2 DEF On
    <3> QED
      BY <2>2, <3>1, <3>2, Rows DEF TcallAt, TcallFields, TenantSteps
  <2> QED
    BY <2>1, <2>2
<1>4. TenantShape'
  <2>1. \A d \in TenantCall : TcallAt(d)' /\ tcall'[d].at \in TenantSteps \cup {"new"}
    BY <1>1, <1>3 DEF TcallAt
  <2>2. Nobody \in [TenantId -> Seq(Tenant)]
    BY Rows
  <2>3. cache' \in [TenantNode -> [TenantId -> Seq(Tenant)]]
    BY <1>1, <1>2, <2>2 DEF TenantTypeOK
  <2> QED
    BY <1>1, <1>2, <2>1, <2>3 DEF TenantShape, TenantTypeOK, TenantSteps
<1>5. \A d \in TenantCall, u \in TenantId : Creates(d, u)' <=> Creates(d, u)
  BY <1>3 DEF Creates
<1>6. CreatedOnce'
  BY <1>1, <1>5 DEF CreatedOnce
<1>7. ASSUME NEW d \in TenantCall PROVE LoadedAt(d)'
  <2> SUFFICES ASSUME tcall'[d].at = "install", NEW u \in TenantId, <<tcall'[d].on, u>> \notin drift'
               PROVE  tcall'[d].loaded[u] = tenantRow'[u]
    BY DEF LoadedAt
  <2>1. tcall'[d] = tcall[d] /\ tcall[d].on # n
    BY <1>3 DEF On
  <2>2. <<tcall[d].on, u>> \notin drift
    BY <1>2, <2>1
  <2> QED
    BY <1>1, <1>2, <2>1, <2>2 DEF LoadedAt
<1>8. ASSUME NEW u \in TenantId, NoneOf(u) PROVE NoneOf(u)'
  <2>1. tenantRow'[u] = <<>>
    BY <1>2, <1>8 DEF NoneOf
  <2>2. \A m \in TenantNode : cache'[m][u] = <<>>
    BY <1>1, <1>2, <1>8 DEF NoneOf, Nobody, TenantTypeOK
  <2>3. \A d \in TenantCall : tcall'[d].loaded[u] = <<>>
    BY <1>3, <1>8 DEF NoneOf, Nobody
  <2> QED
    BY <2>1, <2>2, <2>3 DEF NoneOf
<1>9. ASSUME NEW u \in TenantId, Unborn(u)' PROVE UnbornAt(u)'
  <2>1. Unborn(u)
    BY <1>3, <1>5, <1>9 DEF Unborn, Early
  <2>2. NoneOf(u) /\ \A d \in TenantCall : tcall[d].at \in Writes /\ tcall[d].id = u => tcall[d].kind = "create"
    BY <1>1, <2>1 DEF UnbornAt
  <2>3. \A d \in TenantCall : tcall'[d].at \in Writes => tcall'[d] = tcall[d]
    BY <1>3 DEF Writes
  <2> QED
    BY <1>8, <2>2, <2>3 DEF UnbornAt
<1>10. ASSUME NEW u \in TenantId, u \in closed' PROVE ClosedAt(u)'
  <2>1. /\ NoneOf(u) /\ \A d \in TenantCall : tcall[d].id = u => tcall[d].at \notin {"save", "push"}
        /\ \A d \in TenantCall : Creates(d, u) => tcall[d].at \notin Early
        /\ \E d \in TenantCall : tcall[d].at # "new" /\ tcall[d].id = u
    BY <1>1, <1>2, <1>10 DEF ClosedAt
  <2>2. \A d \in TenantCall : tcall'[d].id = u => tcall'[d].at \notin {"save", "push"}
    BY <1>3, <2>1
  <2>3. \A d \in TenantCall : Creates(d, u)' => tcall'[d].at \notin Early
    BY <1>3, <1>5, <2>1 DEF Early
  <2>4. \E d \in TenantCall : tcall'[d].at # "new" /\ tcall'[d].id = u
    BY <1>3, <2>1
  <2> QED
    BY <1>8, <2>1, <2>2, <2>3, <2>4 DEF ClosedAt
<1>11. ASSUME NEW m \in TenantNode, NEW u \in TenantId PROVE AgreesAt(m, u)'
  <2> SUFFICES ASSUME m \in hydrated', <<m, u>> \notin drift' PROVE AgreesAt(m, u)'
    BY DEF AgreesAt
  <2>1. m # n /\ m \in hydrated /\ <<m, u>> \notin drift
    BY <1>2
  <2>2. \A d \in TenantCall : d \in WritersOf(m, u)' <=> d \in WritersOf(m, u)
    BY <1>3, <2>1 DEF WritersOf, Writing, On
  <2>3. WritersOf(m, u) \subseteq TenantCall /\ WritersOf(m, u)' \subseteq TenantCall
    BY DEF WritersOf, Writing, On
  <2>4. WritersOf(m, u)' = WritersOf(m, u)
    BY <2>2, <2>3, Zenon
  <2>5. \A d \in WritersOf(m, u) : tcall'[d] = tcall[d]
    BY <1>3, <2>1, <2>3 DEF WritersOf, Writing, On
  <2>6. cache'[m] = cache[m]
    BY <1>1, <1>2, <2>1 DEF TenantTypeOK
  <2> QED
    BY <1>1, <1>2, <2>1, <2>4, <2>5, <2>6 DEF AgreesAt, WritesAlone
<1> QED
  BY <1>4, <1>6, <1>7, <1>9, <1>10, <1>11 DEF TenantInv, UnbornAt, ClosedAt

-----------------------------------------------------------------------------
LEMMA TenantsInitially == TenantInit => TenantInv
<1> SUFFICES ASSUME TenantInit PROVE TenantInv
  OBVIOUS
<1>1. \A c \in TenantCall : tcall[c].at = "new" /\ tcall[c].loaded = Nobody /\ TcallAt(c)
  BY Rows DEF TenantInit, NewCall, TcallAt, TcallFields, Row
<1>2. TenantShape
  <2>1. <<>> \in Row /\ <<Created>> \in Row /\ <<>> \in Seq(Tenant)
    BY Rows, EmptySeq DEF Row
  <2>2. Nobody \in [TenantId -> Seq(Tenant)]
    BY <2>1 DEF Nobody
  <2>3. tenantRow \in [TenantId -> Row]
    BY <2>1 DEF TenantInit
  <2>4. cache \in [TenantNode -> [TenantId -> Seq(Tenant)]]
    BY <2>2 DEF TenantInit
  <2> QED
    BY <1>1, <2>3, <2>4, TenantAssumption DEF TenantShape, TenantTypeOK, TenantInit
<1>3. CreatedOnce /\ \A c \in TenantCall : LoadedAt(c)
  BY <1>1 DEF CreatedOnce, Creates, LoadedAt
<1>4. \A t \in TenantId : UnbornAt(t) /\ ClosedAt(t)
  <2>1. \A t \in TenantId : t \notin Settled => NoneOf(t)
    BY <1>1 DEF TenantInit, NoneOf, Nobody
  <2> QED
    BY <1>1, <2>1 DEF UnbornAt, Unborn, ClosedAt, TenantInit, Writes
<1>5. \A n \in TenantNode, t \in TenantId : AgreesAt(n, t)
  BY DEF TenantInit, AgreesAt
<1> QED
  BY <1>2, <1>3, <1>4, <1>5 DEF TenantInv

LEMMA TenantStep == TenantInv /\ [TenantNext]_tenantVars => TenantInv'
<1> SUFFICES ASSUME TenantInv, [TenantNext]_tenantVars PROVE TenantInv'
  OBVIOUS
<1>1. ASSUME NEW c \in TenantCall, NEW n \in TenantNode, NEW t \in TenantId, NEW kind \in Kinds,
             AskTenant(c, n, kind, t)
      PROVE  TenantInv'
  BY <1>1, AskKeeps
<1>2. ASSUME NEW c \in TenantCall, CallStep(c) PROVE TenantInv'
  BY <1>2, CallKeeps
<1>3. ASSUME NEW n \in TenantNode, TenantRestart(n) PROVE TenantInv'
  BY <1>3, RestartKeeps
<1>4. CASE UNCHANGED tenantVars
  BY <1>4
  DEF tenantVars, TenantInv, TenantShape, TenantTypeOK, TcallAt, CreatedOnce, Creates, LoadedAt, UnbornAt,
      Unborn, ClosedAt, NoneOf, AgreesAt, WritersOf, WritesAlone, Writing, On
<1> QED
  BY <1>1, <1>2, <1>3, <1>4 DEF TenantNext, CallStep

(* The inductive invariant of the caches, the table and the calls between them. *)
THEOREM TenantInvariant == TenantSpec => []TenantInv
<1> QED
  BY TenantsInitially, TenantStep, PTL DEF TenantSpec

(* What a daemon says of a tenant is what the others will say after their next start, unless a write
   was cut off or overlapped another, and a closed tenant does not come back, for any number of
   daemons, tenants and calls. *)
THEOREM TenantsStaySound == TenantSpec => []TenantsSound
<1>1. TenantInv => TenantsSound
  <2> SUFFICES ASSUME TenantInv PROVE TenantsSound
    OBVIOUS
  <2>1. CacheAgrees
    <3> SUFFICES ASSUME NEW n \in hydrated, NEW t \in TenantId, <<n, t>> \notin drift,
                        \A c \in Writing(n) : tcall[c].id # t
                 PROVE  cache[n][t] = tenantRow[t]
      BY DEF CacheAgrees
    <3>1. n \in TenantNode
      BY DEF TenantInv, TenantShape, TenantTypeOK
    <3>2. WritersOf(n, t) = {}
      BY DEF WritersOf
    <3> QED
      BY <3>1, <3>2 DEF TenantInv, AgreesAt
  <2>2. ClosedStays
    BY DEF TenantInv, TenantShape, TenantTypeOK, ClosedAt, NoneOf, ClosedStays
  <2> QED
    BY <2>1, <2>2 DEF TenantsSound
<1> QED
  BY <1>1, TenantInvariant, PTL

=============================================================================
