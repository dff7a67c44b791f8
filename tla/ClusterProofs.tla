--------------------------- MODULE ClusterProofs ---------------------------
(***************************************************************************)
(* Leadership is safe for any number of nodes, any TTL, any skew between   *)
(* their clocks and any delay inside a heartbeat.                          *)
(*                                                                         *)
(* FreshLeaderOwnsLock alone is not inductive: a node sets its flag from   *)
(* the result of a round that may be long over, so the result in hand has  *)
(* to be tied to the lock row in the same way as the flag, and the row's   *)
(* heartbeat must be at least the stamp the claim rests on.                *)
(***************************************************************************)
EXTENDS Cluster, TLAPS

\* The node owns the row, and the row's heartbeat is no older than t.
Holds(n, t) == owner = n /\ beat >= t

\* No stamp is from the future of the node that read it, and a round's stamp is
\* no older than the one before.
StampsOrdered ==
    \A n \in Node : /\ stamp[n] <= Clock(n) /\ heard[n] <= Clock(n)
                    /\ round[n] # "idle" => heard[n] <= stamp[n]

\* A daemon that is down has completed no round.
DownUnheard == \A n \in Node \ up : heard[n] = -1

\* The flag, and the result that will be written to it, rest on the lock row for
\* as long as the stamp they come from is fresh.
FlagHeld == \A n \in up : isLeader[n] /\ Fresh(heard[n]) => Holds(n, heard[n])
ResultHeld == \A n \in up : round[n] = "won" /\ Fresh(stamp[n]) => Holds(n, stamp[n])

LockInv == TypeOK /\ StampsOrdered /\ DownUnheard /\ FlagHeld /\ ResultHeld

-----------------------------------------------------------------------------
(***************************************************************************)
(* Type correctness.                                                       *)
(***************************************************************************)

LEMMA ClockType ==
    ASSUME TypeOK, NEW n \in Node
    PROVE  Clock(n) \in Nat
  BY SkewAssumption DEF TypeOK, Clock

LEMMA TypeInit == Init => TypeOK
  BY NodeAssumption, SkewAssumption DEF Init, TypeOK

LEMMA TypeNext == TypeOK /\ [Next]_vars => TypeOK'
  <1> SUFFICES ASSUME TypeOK, [Next]_vars PROVE TypeOK'
    OBVIOUS
  <1> USE DEF TypeOK
  <1>1. CASE Tick
    BY <1>1 DEF Tick, lockVars, leadVars, queueVars
  <1>2. ASSUME NEW n \in Node, Boot(n) PROVE TypeOK'
    BY <1>2 DEF Boot, lockVars, queueVars
  <1>3. ASSUME NEW n \in Node, Crash(n) PROVE TypeOK'
    BY <1>3 DEF Crash
  <1>4. ASSUME NEW n \in Node, ReadClock(n) PROVE TypeOK'
    <2>1. Clock(n) \in Nat
      BY ClockType
    <2> QED
      BY <1>4, <2>1 DEF ReadClock, lockVars, queueVars
  <1>5. ASSUME NEW n \in Node, Upsert(n) PROVE TypeOK'
    <2>1. n \in up
      BY <1>5 DEF Upsert
    <2> QED
      BY <1>5, <2>1 DEF Upsert, lockVars, queueVars
  <1>6. ASSUME NEW n \in Node, SetFlag(n) PROVE TypeOK'
    <2>1. n \in up
      BY <1>6 DEF SetFlag
    <2>2. isLeader' \in [Node -> BOOLEAN] /\ \A m \in Node \ up : ~isLeader'[m]
      BY <1>6, <2>1 DEF SetFlag
    <2> QED
      BY <1>6, <2>1, <2>2 DEF SetFlag, lockVars, queueVars
  <1>7. ASSUME NEW n \in Node, BeginDrain(n) \/ SelectDue(n) PROVE TypeOK'
    <2>1. CASE BeginDrain(n)
      BY <2>1 DEF BeginDrain, lockVars, leadVars
    <2>2. CASE SelectDue(n)
      BY <2>2 DEF SelectDue, lockVars, leadVars
    <2> QED
      BY <1>7, <2>1, <2>2
  <1>8. ASSUME NEW n \in Node, NEW e \in Entry,
               Claim(n, e) \/ StartEntry(n, e) \/ FinishEntry(n, e)
        PROVE  TypeOK'
    <2>1. CASE Claim(n, e)
      <3>1. status' \in [Entry -> {"none", "queued", "running", "done", "failed"}]
        BY <2>1 DEF Claim, NotSaved
      <3>2. unsaved' \subseteq Entry
        BY <2>1 DEF Claim, NotSaved
      <3> QED
        BY <2>1, <3>1, <3>2 DEF Claim, lockVars, leadVars
    <2>2. CASE StartEntry(n, e)
      BY <2>2 DEF StartEntry, lockVars, leadVars
    <2>3. CASE FinishEntry(n, e)
      <3>1. status' \in [Entry -> {"none", "queued", "running", "done", "failed"}]
        BY <2>3 DEF FinishEntry, NotSaved
      <3>2. unsaved' \subseteq Entry
        BY <2>3 DEF FinishEntry, NotSaved
      <3> QED
        BY <2>3, <3>1, <3>2 DEF FinishEntry, lockVars, leadVars
    <2> QED
      BY <1>8, <2>1, <2>2, <2>3
  <1>9. ASSUME NEW e \in Entry, Enqueue(e) PROVE TypeOK'
    BY <1>9 DEF Enqueue, lockVars, leadVars
  <1>10. CASE UNCHANGED vars
    BY <1>10 DEF vars, lockVars, leadVars, queueVars
  <1> QED
    BY <1>1, <1>2, <1>3, <1>4, <1>5, <1>6, <1>7, <1>8, <1>9, <1>10 DEF Next, NodeStep

\* Every reachable state is well typed.
THEOREM TypeCorrect == Spec => []TypeOK
  <1>1. Init => TypeOK
    BY TypeInit
  <1>2. TypeOK /\ [Next]_vars => TypeOK'
    BY TypeNext
  <1> QED
    BY <1>1, <1>2, PTL DEF Spec
-----------------------------------------------------------------------------
(***************************************************************************)
(* The invariant.                                                          *)
(***************************************************************************)

LEMMA LockInit == Init => LockInv
  <1> SUFFICES ASSUME Init PROVE LockInv
    OBVIOUS
  <1>1. TypeOK
    BY TypeInit
  <1>2. StampsOrdered
    BY SkewAssumption DEF Init, StampsOrdered, Clock
  <1>3. DownUnheard /\ FlagHeld /\ ResultHeld
    BY DEF Init, DownUnheard, FlagHeld, ResultHeld
  <1> QED
    BY <1>1, <1>2, <1>3 DEF LockInv

\* The range of the times the invariant compares.
LEMMA Times ==
    ASSUME LockInv, NEW n \in Node
    PROVE  /\ stamp[n] \in Nat /\ heard[n] \in Int /\ Clock(n) \in Nat
           /\ stamp[n] <= Clock(n) /\ heard[n] <= Clock(n)
           /\ round[n] # "idle" => heard[n] <= stamp[n]
  <1>1. TypeOK /\ StampsOrdered
    BY DEF LockInv
  <1>2. stamp[n] \in Nat /\ heard[n] \in Nat \cup {-1}
    BY <1>1 DEF TypeOK
  <1>3. Clock(n) \in Nat
    BY <1>1, ClockType
  <1>4. stamp[n] <= Clock(n) /\ heard[n] <= Clock(n)
    BY <1>1 DEF StampsOrdered
  <1>5. round[n] # "idle" => heard[n] <= stamp[n]
    BY <1>1 DEF StampsOrdered
  <1> QED
    BY <1>2, <1>3, <1>4, <1>5

LEMMA SameClock ==
    ASSUME now' = now
    PROVE  /\ \A m \in Node : Clock(m)' = Clock(m)
           /\ \A t : Fresh(t)' <=> Fresh(t)
  BY DEF Clock, Fresh

\* A step of the queue, and a stuttering step, disturb nothing of it.
LEMMA LockQuiet ==
    ASSUME LockInv, TypeOK', UNCHANGED <<now, up, lockVars, leadVars>>
    PROVE  LockInv'
  BY DEF LockInv, StampsOrdered, DownUnheard, FlagHeld, ResultHeld, Fresh, Holds,
         Clock, lockVars, leadVars

\* Time only makes stamps older.
LEMMA LockTick ==
    ASSUME LockInv, TypeOK', Tick
    PROVE  LockInv'
  <1>1. \A n \in Node : Clock(n) \in Nat /\ Clock(n)' = Clock(n) + 1
    BY Times, SkewAssumption DEF LockInv, TypeOK, Tick, Clock
  <1>0. ASSUME NEW n \in Node
        PROVE  /\ stamp[n] \in Nat /\ heard[n] \in Int
               /\ stamp[n] <= Clock(n) /\ heard[n] <= Clock(n)
    BY Times
  <1> USE DEF LockInv, TypeOK, Tick, lockVars, leadVars
  <1>2. ASSUME NEW t \in Int, Fresh(t)' PROVE Fresh(t)
    BY <1>1, <1>2, TimeAssumption DEF Fresh
  <1>3. StampsOrdered'
    BY <1>0, <1>1 DEF StampsOrdered
  <1>4. DownUnheard'
    BY DEF DownUnheard
  <1>5. FlagHeld'
    BY <1>2 DEF FlagHeld, Holds
  <1>6. ResultHeld'
    BY <1>2 DEF ResultHeld, Holds
  <1> QED
    BY <1>3, <1>4, <1>5, <1>6

\* A daemon that boots thinks it leads, on no round at all.
LEMMA LockBoot ==
    ASSUME LockInv, TypeOK', NEW n \in Node, Boot(n)
    PROVE  LockInv'
  <1> USE DEF LockInv, TypeOK, Boot, lockVars
  <1>1. StampsOrdered' /\ DownUnheard'
    BY DEF StampsOrdered, DownUnheard, Clock
  <1>2. ~Fresh(heard[n])
    BY DEF DownUnheard, Fresh
  <1>3. FlagHeld'
    BY <1>2 DEF FlagHeld, Fresh, Holds, Clock
  <1>4. ResultHeld'
    BY DEF ResultHeld, Fresh, Holds, Clock
  <1> QED
    BY <1>1, <1>3, <1>4

\* A daemon that dies gives up only what it owned itself.
LEMMA LockCrash ==
    ASSUME LockInv, TypeOK', NEW n \in Node, Crash(n)
    PROVE  LockInv'
  <1>0. now' = now /\ \A m \in Node : Clock(m) \in Nat
    BY Times DEF Crash
  <1> USE DEF LockInv, TypeOK, Crash
  <1>1. StampsOrdered'
    BY <1>0, SameClock DEF StampsOrdered
  <1>2. DownUnheard'
    BY DEF DownUnheard
  <1>3. FlagHeld' /\ ResultHeld'
    BY DEF FlagHeld, ResultHeld, Fresh, Holds, Clock
  <1> QED
    BY <1>1, <1>2, <1>3

LEMMA LockReadClock ==
    ASSUME LockInv, TypeOK', NEW n \in Node, ReadClock(n)
    PROVE  LockInv'
  <1>0. now' = now /\ \A m \in Node : Clock(m) \in Nat
    BY Times DEF ReadClock
  <1>1. \A m \in Node : Clock(m) \in Nat /\ Clock(m)' = Clock(m)
    BY <1>0, SameClock
  <1> USE DEF LockInv, TypeOK, ReadClock, lockVars
  <1>2. StampsOrdered'
    BY <1>1 DEF StampsOrdered
  <1>3. DownUnheard'
    BY DEF DownUnheard
  <1>4. FlagHeld' /\ ResultHeld'
    BY DEF FlagHeld, ResultHeld, Fresh, Holds, Clock
  <1> QED
    BY <1>2, <1>3, <1>4

\* No node can take the row from another whose stamp is fresh: for its own clock
\* the row has not expired, and the stamp it holds is no later than its clock.
LEMMA NoTakeover ==
    ASSUME LockInv, NEW m \in Node, NEW n \in Node, m # n, MayTake(m),
           NEW t \in Int, Fresh(t), Holds(n, t)
    PROVE  FALSE
  <1>1. owner = n /\ beat >= t /\ beat \in Nat
    BY DEF Holds, LockInv, TypeOK
  <1>2. beat < stamp[m] - TTL
    BY <1>1, NodeAssumption DEF MayTake
  <1>3. stamp[m] <= Clock(m) /\ Clock(m) - t <= TTL
    BY Times DEF Fresh
  <1>4. stamp[m] \in Nat /\ Clock(m) \in Nat
    BY Times
  <1> QED
    BY <1>1, <1>2, <1>3, <1>4, TimeAssumption

LEMMA LockUpsert ==
    ASSUME LockInv, TypeOK', NEW n \in Node, Upsert(n)
    PROVE  LockInv'
  <1>1. UNCHANGED <<now, up, isLeader, stamp, heard>>
    BY DEF Upsert
  <1>2. /\ \A m \in Node \ {n} : round'[m] = round[m]
        /\ round[n] = "read" /\ round'[n] \in {"won", "lost"}
    BY DEF Upsert, LockInv, TypeOK
  <1>3. \A m \in Node : Clock(m)' = Clock(m)
    BY <1>1 DEF Clock
  <1>4. \A t : Fresh(t)' <=> Fresh(t)
    BY <1>3 DEF Fresh
  <1>5. StampsOrdered' /\ DownUnheard'
    BY <1>1, <1>2, <1>3 DEF LockInv, StampsOrdered, DownUnheard
  <1>6. CASE UNCHANGED lockVars /\ round'[n] = "lost"
    <2>1. FlagHeld'
      BY <1>1, <1>4, <1>6 DEF LockInv, FlagHeld, Holds, lockVars
    <2>2. ResultHeld'
      BY <1>1, <1>2, <1>4, <1>6 DEF LockInv, TypeOK, ResultHeld, Holds, lockVars
    <2> QED
      BY <1>5, <2>1, <2>2 DEF LockInv
  <1>7. CASE MayTake(n) /\ owner' = n /\ beat' = stamp[n]
    <2>1. ASSUME NEW m \in up, m # n, NEW t \in Int, Fresh(t) PROVE ~Holds(m, t)
      BY <1>7, <2>1, NoTakeover DEF LockInv, TypeOK
    <2>2. heard[n] <= stamp[n] /\ stamp[n] \in Nat
      BY <1>2, Times
    <2>3. owner' = n /\ beat' >= stamp'[n]
      BY <1>1, <1>7, <2>2
    <2>4. FlagHeld'
      <3> SUFFICES ASSUME NEW m \in up, isLeader[m], Fresh(heard[m])
                   PROVE  Holds(m, heard[m])'
        BY <1>1, <1>4 DEF FlagHeld
      <3>1. Holds(m, heard[m]) /\ heard[m] \in Int
        BY DEF LockInv, TypeOK, FlagHeld
      <3>2. m = n
        BY <2>1, <3>1
      <3> QED
        BY <1>1, <1>7, <2>2, <2>3, <3>1, <3>2 DEF Holds, LockInv, TypeOK
    <2>5. ResultHeld'
      <3> SUFFICES ASSUME NEW m \in up, round'[m] = "won", Fresh(stamp[m])
                   PROVE  Holds(m, stamp[m])'
        BY <1>1, <1>4 DEF ResultHeld
      <3>1. CASE m = n
        BY <2>3, <3>1 DEF Holds
      <3>2. CASE m # n
        BY <1>2, <2>1, <3>2 DEF LockInv, TypeOK, ResultHeld
      <3> QED
        BY <3>1, <3>2
    <2> QED
      BY <1>5, <2>4, <2>5 DEF LockInv
  <1> QED
    BY <1>2, <1>6, <1>7 DEF Upsert, LockInv, TypeOK

\* The flag takes over what the result rested on.
LEMMA LockSetFlag ==
    ASSUME LockInv, TypeOK', NEW n \in Node, SetFlag(n)
    PROVE  LockInv'
  <1>0. now' = now /\ \A m \in Node : Clock(m) \in Nat
    BY Times DEF SetFlag
  <1>1. \A m \in Node : Clock(m) \in Nat /\ Clock(m)' = Clock(m)
    BY <1>0, SameClock
  <1> USE DEF LockInv, TypeOK, SetFlag, lockVars
  <1>2. \A t : Fresh(t)' <=> Fresh(t)
    BY <1>1 DEF Fresh
  <1>3. StampsOrdered'
    BY <1>1 DEF StampsOrdered
  <1>4. DownUnheard'
    BY DEF DownUnheard
  <1>5. FlagHeld'
    BY <1>2 DEF FlagHeld, ResultHeld, Holds
  <1>6. ResultHeld'
    BY <1>2 DEF ResultHeld, Holds
  <1> QED
    BY <1>3, <1>4, <1>5, <1>6

LEMMA LockNext == LockInv /\ [Next]_vars => LockInv'
  <1> SUFFICES ASSUME LockInv, [Next]_vars PROVE LockInv'
    OBVIOUS
  <1>1. TypeOK'
    BY TypeNext DEF LockInv
  <1>2. ASSUME NEW n \in Node, NodeStep(n) PROVE LockInv'
    <2>1. CASE Boot(n) \/ Crash(n)
      BY <1>1, <2>1, LockBoot, LockCrash
    <2>2. CASE ReadClock(n) \/ Upsert(n) \/ SetFlag(n)
      BY <1>1, <2>2, LockReadClock, LockUpsert, LockSetFlag
    <2>3. CASE BeginDrain(n) \/ SelectDue(n)
      BY <1>1, <2>3, LockQuiet DEF BeginDrain, SelectDue
    <2>4. ASSUME NEW e \in Entry, Claim(n, e) \/ StartEntry(n, e) \/ FinishEntry(n, e)
          PROVE  LockInv'
      BY <1>1, <2>4, LockQuiet DEF Claim, StartEntry, FinishEntry
    <2> QED
      BY <1>2, <2>1, <2>2, <2>3, <2>4 DEF NodeStep
  <1>3. ASSUME NEW e \in Entry, Enqueue(e) PROVE LockInv'
    BY <1>1, <1>3, LockQuiet DEF Enqueue
  <1>4. CASE Tick
    BY <1>1, <1>4, LockTick
  <1>5. CASE UNCHANGED vars
    BY <1>1, <1>5, LockQuiet DEF vars
  <1> QED
    BY <1>2, <1>3, <1>4, <1>5 DEF Next

-----------------------------------------------------------------------------
THEOREM LockInvariant == Spec => []LockInv
  BY LockInit, LockNext, PTL DEF Spec

\* A node that leads on a fresh round owns the lock row.
THEOREM LeaderOwnsLock == Spec => []FreshLeaderOwnsLock
  <1>1. LockInv => FreshLeaderOwnsLock
    BY DEF LockInv, FlagHeld, Holds, FreshLeaderOwnsLock
  <1> QED
    BY <1>1, LockInvariant, PTL

\* Of two nodes that think they lead, one goes by a round that is out of date.
THEOREM SplitBrain == Spec => []SplitBrainBounded
  <1>1. FreshLeaderOwnsLock => SplitBrainBounded
    BY DEF FreshLeaderOwnsLock, SplitBrainBounded
  <1> QED
    BY <1>1, LeaderOwnsLock, PTL
-----------------------------------------------------------------------------
(***************************************************************************)
(* The queue.  EntriesSound is not inductive: starts[e] <= 1 says nothing  *)
(* of who may start e next.  For an entry without a reason on record, the  *)
(* status tells which lists of the drains it can be in, and one drain at   *)
(* most has it selected.                                                   *)
(***************************************************************************)
Calm(e) == e \notin rivals \cup unsaved

\* Where an entry without a reason on record can be.
ListedAs(e) ==
    \A n \in Node :
        /\ e \in toClaim[n] => status[e] = "queued"
        /\ e \in toStart[n] => status[e] = "running" /\ starts[e] = 0
        /\ e \in toFinish[n] => status[e] \notin {"none", "queued"} /\ starts[e] = 1
SelectedOnce(e) == \A m, n \in Node : e \in Selected(m) /\ e \in Selected(n) => m = n
StartedOnce(e) == starts[e] <= 1 /\ (status[e] \in {"none", "queued"} => starts[e] = 0)

\* A drain is at one entry at a time, and a daemon that is down has no drain.
OneAtATime == \A n \in Node : \A e, f \in toFinish[n] : e = f
DownEmpty ==
    \A n \in Node \ up : /\ n \notin draining
                         /\ toClaim[n] = {} /\ toStart[n] = {} /\ toFinish[n] = {}

\* Who has a running entry, or had it.
HeldOrDropped ==
    \A e \in Entry : status[e] = "running" =>
        \/ \E n \in up : e \in toStart[n] \cup toFinish[n]
        \/ e \in dropped \cup unsaved

CalmSound == \A e \in Entry : Calm(e) => ListedAs(e) /\ SelectedOnce(e) /\ StartedOnce(e)

QueueInv == TypeOK /\ CalmSound /\ OneAtATime /\ DownEmpty /\ HeldOrDropped

LEMMA QueueInit == Init => QueueInv
  <1> SUFFICES ASSUME Init PROVE QueueInv
    OBVIOUS
  <1>1. TypeOK
    BY TypeInit
  <1>2. CalmSound
    BY DEF Init, CalmSound, ListedAs, SelectedOnce, StartedOnce, Selected
  <1>3. OneAtATime /\ DownEmpty /\ HeldOrDropped
    BY DEF Init, OneAtATime, DownEmpty, HeldOrDropped
  <1> QED
    BY <1>1, <1>2, <1>3 DEF QueueInv

\* A step that leaves the queue alone, and takes no daemon away.
LEMMA QueueQuiet ==
    ASSUME QueueInv, TypeOK', UNCHANGED queueVars, up \subseteq up' PROVE QueueInv'
  <1>1. /\ UNCHANGED <<status, draining, toClaim, toStart, toFinish>>
        /\ UNCHANGED <<starts, rivals, dropped, unsaved>>
    BY DEF queueVars
  <1>2. CalmSound'
    BY <1>1 DEF QueueInv, CalmSound, Calm, ListedAs, SelectedOnce, StartedOnce, Selected
  <1>3. OneAtATime' /\ DownEmpty' /\ HeldOrDropped'
    BY <1>1 DEF QueueInv, OneAtATime, DownEmpty, HeldOrDropped
  <1> QED
    BY <1>2, <1>3 DEF QueueInv

\* What a daemon had claimed when it died is on record.
LEMMA QueueCrash ==
    ASSUME QueueInv, TypeOK', NEW n \in Node, Crash(n) PROVE QueueInv'
  <1>1. /\ UNCHANGED <<status, starts, rivals, unsaved>> /\ up' = up \ {n}
        /\ draining' = draining \ {n} /\ dropped' = dropped \cup toStart[n] \cup toFinish[n]
        /\ \A m \in Node : /\ toClaim'[m] = IF m = n THEN {} ELSE toClaim[m]
                           /\ toStart'[m] = IF m = n THEN {} ELSE toStart[m]
                           /\ toFinish'[m] = IF m = n THEN {} ELSE toFinish[m]
    BY DEF Crash, QueueInv, TypeOK
  <1>2. CalmSound'
    <2> SUFFICES ASSUME NEW e \in Entry, Calm(e)
                 PROVE  ListedAs(e)' /\ SelectedOnce(e)' /\ StartedOnce(e)'
      BY <1>1 DEF CalmSound, Calm
    <2>1. ListedAs(e) /\ SelectedOnce(e) /\ StartedOnce(e)
      BY DEF QueueInv, CalmSound
    <2>2. ListedAs(e)' /\ StartedOnce(e)'
      BY <1>1, <2>1 DEF ListedAs, StartedOnce
    <2>3. SelectedOnce(e)'
      BY <1>1, <2>1 DEF SelectedOnce, Selected
    <2> QED
      BY <2>2, <2>3
  <1>3. OneAtATime' /\ DownEmpty'
    BY <1>1 DEF QueueInv, OneAtATime, DownEmpty
  <1>4. HeldOrDropped'
    BY <1>1 DEF QueueInv, TypeOK, HeldOrDropped
  <1> QED
    BY <1>2, <1>3, <1>4 DEF QueueInv

LEMMA QueueEnqueue ==
    ASSUME QueueInv, TypeOK', NEW f \in Entry, Enqueue(f) PROVE QueueInv'
  <1>1. /\ UNCHANGED <<up, draining, toClaim, toStart, toFinish, starts, rivals, dropped, unsaved>>
        /\ status[f] = "none"
        /\ \A e \in Entry : status'[e] = IF e = f THEN "queued" ELSE status[e]
    BY DEF Enqueue, QueueInv, TypeOK
  <1>2. CalmSound'
    <2> SUFFICES ASSUME NEW e \in Entry, Calm(e)
                 PROVE  ListedAs(e)' /\ SelectedOnce(e)' /\ StartedOnce(e)'
      BY <1>1 DEF CalmSound, Calm
    <2>1. ListedAs(e) /\ SelectedOnce(e) /\ StartedOnce(e)
      BY DEF QueueInv, CalmSound
    <2> QED
      BY <1>1, <2>1 DEF ListedAs, StartedOnce, SelectedOnce, Selected
  <1>3. OneAtATime' /\ DownEmpty'
    BY <1>1 DEF QueueInv, OneAtATime, DownEmpty
  <1>4. HeldOrDropped'
    BY <1>1 DEF QueueInv, HeldOrDropped
  <1> QED
    BY <1>2, <1>3, <1>4 DEF QueueInv

LEMMA QueueBegin ==
    ASSUME QueueInv, TypeOK', NEW n \in Node, BeginDrain(n) PROVE QueueInv'
  <1>1. /\ UNCHANGED <<up, status, toClaim, toStart, toFinish, starts, rivals, dropped, unsaved>>
        /\ draining' = draining \cup {n} /\ n \in up
    BY DEF BeginDrain
  <1>2. CalmSound'
    BY <1>1 DEF QueueInv, CalmSound, Calm, ListedAs, SelectedOnce, StartedOnce, Selected
  <1>3. OneAtATime' /\ DownEmpty' /\ HeldOrDropped'
    BY <1>1 DEF QueueInv, OneAtATime, DownEmpty, HeldOrDropped
  <1> QED
    BY <1>2, <1>3 DEF QueueInv

\* What a drain selects is queued, and a rival is on record if another drain has it selected.
LEMMA QueueSelect ==
    ASSUME QueueInv, TypeOK', NEW n \in Node, SelectDue(n) PROVE QueueInv'
  <1>1. PICK due \in SUBSET {e \in Entry : status[e] = "queued"} :
            /\ toClaim' = [toClaim EXCEPT ![n] = due]
            /\ rivals' = rivals \cup (due \cap UNION {Selected(m) : m \in Node})
    BY DEF SelectDue
  <1>2. /\ UNCHANGED <<up, status, toStart, toFinish, starts, dropped, unsaved>>
        /\ draining' = draining \ {n} /\ n \in draining
    BY DEF SelectDue
  <1>3. \A m \in Node : toClaim'[m] = IF m = n THEN due ELSE toClaim[m]
    BY <1>1 DEF QueueInv, TypeOK
  <1>4. CalmSound'
    <2> SUFFICES ASSUME NEW e \in Entry, Calm(e)'
                 PROVE  ListedAs(e)' /\ SelectedOnce(e)' /\ StartedOnce(e)'
      BY DEF CalmSound
    <2>1. Calm(e) /\ (e \in due => \A m \in Node : e \notin Selected(m))
      BY <1>1, <1>2 DEF Calm
    <2>2. ListedAs(e) /\ SelectedOnce(e) /\ StartedOnce(e)
      BY <2>1 DEF QueueInv, CalmSound
    <2>3. ListedAs(e)' /\ StartedOnce(e)'
      BY <1>2, <1>3, <2>2 DEF ListedAs, StartedOnce
    <2>4. SelectedOnce(e)'
      BY <1>2, <1>3, <2>1, <2>2 DEF SelectedOnce, Selected
    <2> QED
      BY <2>3, <2>4
  <1>5. OneAtATime' /\ DownEmpty' /\ HeldOrDropped'
    BY <1>2, <1>3 DEF QueueInv, OneAtATime, DownEmpty, HeldOrDropped
  <1> QED
    BY <1>4, <1>5 DEF QueueInv

\* A claim takes a calm entry from queued to running, in the hands of one drain.
LEMMA QueueClaim ==
    ASSUME QueueInv, TypeOK', NEW n \in Node, NEW f \in Entry, Claim(n, f) PROVE QueueInv'
  <1>1. /\ UNCHANGED <<up, draining, toFinish, starts, rivals, dropped>> /\ f \in toClaim[n]
        /\ \A m \in Node : /\ toClaim'[m] = IF m = n THEN toClaim[m] \ {f} ELSE toClaim[m]
                           /\ toStart'[m] = IF m = n THEN toStart[m] \cup {f} ELSE toStart[m]
    BY DEF Claim, QueueInv, TypeOK
  <1>2. \/ /\ unsaved' = unsaved
           /\ \A e \in Entry : status'[e] = IF e = f /\ status[e] = "queued" THEN "running" ELSE status[e]
        \/ unsaved' = unsaved \cup {f} /\ status' = status
    BY DEF Claim, NotSaved, QueueInv, TypeOK
  <1>3. n \in up
    BY <1>1 DEF QueueInv, DownEmpty
  <1>4. CalmSound'
    <2> SUFFICES ASSUME NEW e \in Entry, Calm(e)'
                 PROVE  ListedAs(e)' /\ SelectedOnce(e)' /\ StartedOnce(e)'
      BY DEF CalmSound
    <2>1. Calm(e) /\ (e = f => unsaved' = unsaved)
      BY <1>1, <1>2 DEF Calm
    <2>2. ListedAs(e) /\ SelectedOnce(e) /\ StartedOnce(e)
      BY <2>1 DEF QueueInv, CalmSound
    <2>3. \A m \in Node : e \in Selected(m)' => e \in Selected(m)
      BY <1>1 DEF Selected
    <2>4. CASE e # f
      BY <1>1, <1>2, <2>2, <2>3, <2>4 DEF ListedAs, StartedOnce, SelectedOnce
    <2>5. CASE e = f
      <3>1. status[f] = "queued" /\ starts[f] = 0 /\ \A m \in Node : f \notin toFinish[m] \cup toStart[m]
        BY <1>1, <2>2, <2>5 DEF ListedAs, StartedOnce
      <3>2. status'[f] = "running" /\ starts'[f] = 0
        BY <1>1, <1>2, <2>1, <2>5, <3>1 DEF QueueInv, TypeOK, Calm
      <3>3. \A m \in Node : m # n => f \notin toClaim[m]
        BY <1>1, <2>2, <2>5 DEF SelectedOnce, Selected
      <3>4. \A m \in Node : f \notin toClaim'[m] /\ f \notin toFinish'[m]
        BY <1>1, <3>1, <3>3
      <3>6. ListedAs(f)' /\ StartedOnce(f)'
        BY <3>2, <3>4 DEF ListedAs, StartedOnce
      <3>5. SelectedOnce(f)'
        BY <2>2, <2>3, <2>5 DEF SelectedOnce
      <3> QED
        BY <2>5, <3>5, <3>6
    <2> QED
      BY <2>4, <2>5
  <1>5. OneAtATime' /\ DownEmpty'
    BY <1>1, <1>3 DEF QueueInv, OneAtATime, DownEmpty
  <1>6. HeldOrDropped'
    BY <1>1, <1>2, <1>3 DEF QueueInv, TypeOK, HeldOrDropped
  <1> QED
    BY <1>4, <1>5, <1>6 DEF QueueInv

\* A calm entry is started by the one drain that has it, for the first time.
LEMMA QueueStart ==
    ASSUME QueueInv, TypeOK', NEW n \in Node, NEW f \in Entry, StartEntry(n, f) PROVE QueueInv'
  <1>1. /\ UNCHANGED <<up, draining, toClaim, status, rivals, dropped, unsaved>>
        /\ f \in toStart[n] /\ toClaim[n] = {} /\ toFinish[n] = {}
        /\ \A m \in Node : /\ toStart'[m] = IF m = n THEN toStart[m] \ {f} ELSE toStart[m]
                           /\ toFinish'[m] = IF m = n THEN {f} ELSE toFinish[m]
        /\ \A e \in Entry : starts'[e] = IF e = f THEN starts[e] + 1 ELSE starts[e]
    BY DEF StartEntry, QueueInv, TypeOK
  <1>2. n \in up
    BY <1>1 DEF QueueInv, DownEmpty
  <1>a. \A m \in Node, e \in Entry :
            /\ e \in toStart'[m] <=> e \in toStart[m] /\ ~(m = n /\ e = f)
            /\ e \in toFinish'[m] <=> (m = n /\ e = f) \/ e \in toFinish[m]
    BY <1>1
  <1>b. UNCHANGED <<up, draining, toClaim, status, dropped, unsaved>>
    BY <1>1
  <1>3. CalmSound'
    <2> SUFFICES ASSUME NEW e \in Entry, Calm(e)
                 PROVE  ListedAs(e)' /\ SelectedOnce(e)' /\ StartedOnce(e)'
      BY <1>1 DEF CalmSound, Calm
    <2>1. ListedAs(e) /\ SelectedOnce(e) /\ StartedOnce(e)
      BY DEF QueueInv, CalmSound
    <2>2. SelectedOnce(e)'
      BY <1>1, <2>1 DEF SelectedOnce, Selected
    <2>3. CASE e # f
      BY <1>1, <1>a, <2>1, <2>2, <2>3 DEF ListedAs, StartedOnce
    <2>4. CASE e = f
      <3>1. status[f] = "running" /\ starts'[f] = 1
        BY <1>1, <2>1, <2>4 DEF ListedAs
      <3>2. \A m \in Node : f \notin toClaim[m] /\ (m # n => f \notin toStart[m])
        BY <1>1, <2>1, <2>4, <3>1 DEF ListedAs, SelectedOnce, Selected
      <3> QED
        BY <1>a, <1>b, <2>2, <2>4, <3>1, <3>2 DEF ListedAs, StartedOnce
    <2> QED
      BY <2>3, <2>4
  <1>4. OneAtATime' /\ DownEmpty'
    <2>1. OneAtATime'
      BY <1>1 DEF QueueInv, OneAtATime
    <2>2. \A m \in Node \ up : toStart'[m] = toStart[m] /\ toFinish'[m] = toFinish[m]
      BY <1>1, <1>2
    <2> QED
      BY <1>b, <2>1, <2>2 DEF QueueInv, DownEmpty
  <1>5. HeldOrDropped'
    BY <1>a, <1>b, <1>2 DEF QueueInv, TypeOK, HeldOrDropped
  <1> QED
    BY <1>3, <1>4, <1>5 DEF QueueInv

\* An entry that is finished was the only one its drain was at.
LEMMA QueueFinish ==
    ASSUME QueueInv, TypeOK', NEW n \in Node, NEW f \in Entry, FinishEntry(n, f) PROVE QueueInv'
  <1>1. /\ UNCHANGED <<up, draining, toClaim, toStart, starts, rivals, dropped>> /\ f \in toFinish[n]
        /\ \A m \in Node : toFinish'[m] = IF m = n THEN {} ELSE toFinish[m]
    BY DEF FinishEntry, QueueInv, TypeOK
  <1>2. \/ /\ unsaved' = unsaved /\ status'[f] \in {"done", "failed"}
           /\ \A e \in Entry : e # f => status'[e] = status[e]
        \/ unsaved' = unsaved \cup {f} /\ status' = status
    BY DEF FinishEntry, NotSaved, QueueInv, TypeOK
  <1>3. n \in up /\ \A e \in toFinish[n] : e = f
    BY <1>1 DEF QueueInv, DownEmpty, OneAtATime
  <1>4. CalmSound'
    <2> SUFFICES ASSUME NEW e \in Entry, Calm(e)'
                 PROVE  ListedAs(e)' /\ SelectedOnce(e)' /\ StartedOnce(e)'
      BY DEF CalmSound
    <2>1. Calm(e) /\ (e = f => unsaved' = unsaved)
      BY <1>1, <1>2 DEF Calm
    <2>2. ListedAs(e) /\ SelectedOnce(e) /\ StartedOnce(e)
      BY <2>1 DEF QueueInv, CalmSound
    <2>3. SelectedOnce(e)'
      BY <1>1, <2>2 DEF SelectedOnce, Selected
    <2>4. CASE e # f
      BY <1>1, <1>2, <2>2, <2>3, <2>4 DEF ListedAs, StartedOnce
    <2>5. CASE e = f
      <3>1. status[f] \notin {"none", "queued"} /\ starts[f] = 1
        BY <1>1, <2>2, <2>5 DEF ListedAs
      <3>2. \A m \in Node : f \notin toClaim[m] /\ f \notin toStart[m]
        BY <2>2, <2>5, <3>1 DEF ListedAs
      <3>3. status'[f] \in {"done", "failed"}
        BY <1>2, <2>1, <2>5 DEF Calm
      <3> QED
        BY <1>1, <2>3, <2>5, <3>1, <3>2, <3>3 DEF ListedAs, StartedOnce
    <2> QED
      BY <2>4, <2>5
  <1>5. OneAtATime' /\ DownEmpty'
    BY <1>1, <1>3 DEF QueueInv, OneAtATime, DownEmpty
  <1>6. HeldOrDropped'
    BY <1>1, <1>2, <1>3 DEF QueueInv, TypeOK, HeldOrDropped
  <1> QED
    BY <1>4, <1>5, <1>6 DEF QueueInv

LEMMA QueueNext == QueueInv /\ [Next]_vars => QueueInv'
  <1> SUFFICES ASSUME QueueInv, [Next]_vars PROVE QueueInv'
    OBVIOUS
  <1>1. TypeOK'
    BY TypeNext DEF QueueInv
  <1>2. ASSUME NEW n \in Node, NodeStep(n) PROVE QueueInv'
    <2>1. CASE Boot(n)
      BY <1>1, <2>1, QueueQuiet DEF Boot
    <2>2. CASE ReadClock(n) \/ Upsert(n) \/ SetFlag(n)
      BY <1>1, <2>2, QueueQuiet DEF ReadClock, Upsert, SetFlag
    <2>3. CASE Crash(n) \/ BeginDrain(n) \/ SelectDue(n)
      BY <1>1, <2>3, QueueCrash, QueueBegin, QueueSelect
    <2>4. ASSUME NEW e \in Entry, Claim(n, e) \/ StartEntry(n, e) \/ FinishEntry(n, e)
          PROVE  QueueInv'
      BY <1>1, <2>4, QueueClaim, QueueStart, QueueFinish
    <2> QED
      BY <1>2, <2>1, <2>2, <2>3, <2>4 DEF NodeStep
  <1>3. ASSUME NEW e \in Entry, Enqueue(e) PROVE QueueInv'
    BY <1>1, <1>3, QueueEnqueue
  <1>4. CASE Tick \/ UNCHANGED vars
    BY <1>1, <1>4, QueueQuiet DEF Tick, vars
  <1> QED
    BY <1>2, <1>3, <1>4 DEF Next

\* What the status of an entry says of the drains, for any number of them.
THEOREM QueueInvariant == Spec => []QueueInv
  BY QueueInit, QueueNext, PTL DEF Spec

\* No entry is started twice, and none is left behind as running, without a reason on record.
THEOREM EntriesHandled == Spec => []EntriesSound
  <1>1. QueueInv => EntryStartedOnce
    BY DEF QueueInv, CalmSound, Calm, StartedOnce, EntryStartedOnce
  <1>2. QueueInv => RunningEntryHeld
    BY DEF QueueInv, TypeOK, HeldOrDropped, RunningEntryHeld, Selected
  <1> QED
    BY <1>1, <1>2, QueueInvariant, PTL DEF EntriesSound

\* A finished entry stays finished.
THEOREM StaysFinished == Spec => FinishedStays
  <1> DEFINE Stays == \A e \in Entry : status[e] \in {"done", "failed"} => status'[e] \in {"done", "failed"}
  <1>1. TypeOK /\ [Next]_vars => [Stays]_vars
    <2> SUFFICES ASSUME TypeOK, Next PROVE Stays
      OBVIOUS
    <2> SUFFICES ASSUME NEW e \in Entry, status[e] \in {"done", "failed"}
                 PROVE  status'[e] \in {"done", "failed"}
      OBVIOUS
    <2>1. CASE UNCHANGED status
      BY <2>1
    <2>2. ASSUME NEW f \in Entry, Enqueue(f) PROVE status'[e] \in {"done", "failed"}
      BY <2>2 DEF TypeOK, Enqueue
    <2>3. ASSUME NEW n \in Node, NEW f \in Entry, Claim(n, f) \/ FinishEntry(n, f)
          PROVE  status'[e] \in {"done", "failed"}
      BY <2>3 DEF TypeOK, Claim, FinishEntry, NotSaved
    <2>4. \/ UNCHANGED status
          \/ \E f \in Entry : Enqueue(f)
          \/ \E n \in Node, f \in Entry : Claim(n, f) \/ FinishEntry(n, f)
      BY DEF Next, NodeStep, Tick, Boot, Crash, ReadClock, Upsert, SetFlag, BeginDrain, SelectDue,
             StartEntry, queueVars
    <2> QED
      BY <2>1, <2>2, <2>3, <2>4
  <1> QED
    BY <1>1, TypeCorrect, PTL DEF Spec, FinishedStays
=============================================================================
