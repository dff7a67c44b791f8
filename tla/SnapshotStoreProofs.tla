------------------------ MODULE SnapshotStoreProofs ------------------------
(***************************************************************************)
(* The snapshot store publishes whole snapshots, for any number of runs,   *)
(* REST callers, jobs, repositories and blocks, any retention setting and  *)
(* any interleaving, error or crash.                                       *)
(*                                                                         *)
(* RowHasManifest alone is not inductive.  A deletion removes the manifest *)
(* and the index row of its target after the snapshot's row, so the target *)
(* must not be listed by then and must not be listed again: it is a run    *)
(* that is past collecting.  And a run inserts its row on the strength of  *)
(* what it wrote two steps before.                                         *)
(***************************************************************************)
EXTENDS SnapshotStore, FiniteSets, FiniteSetTheorems, SequenceTheorems, TLAPS

\* A run has blocks left while it works on one, and a REST caller is never in
\* the middle of a backup.
StepsOK ==
    /\ \A r \in Run : pc[r] \in {"chunk", "write", "record"} => todo[r] # <<>>
    /\ \A c \in Client : pc[c] \in {"idle", "wait"} \cup Deleting

TypeInv == TypeOK /\ StepsOK

-----------------------------------------------------------------------------
(***************************************************************************)
(* Sequences of blocks.                                                    *)
(***************************************************************************)

LEMMA HeadTail ==
    ASSUME NEW t \in Seq(Block), t # <<>>
    PROVE  Head(t) \in Block /\ Tail(t) \in Seq(Block)
  BY HeadTailProperties

LEMMA MoveHead ==
    ASSUME NEW s \in Seq(Block), NEW t \in Seq(Block), t # <<>>
    PROVE  /\ Append(s, Head(t)) \in Seq(Block)
           /\ Append(s, Head(t)) \o Tail(t) = s \o t
  <1>1. Head(t) \in Block /\ Tail(t) \in Seq(Block)
    BY HeadTail
  <1>2. <<Head(t)>> \in Seq(Block) /\ <<Head(t)>> \o Tail(t) = t
    BY <1>1
  <1>3. Append(s, Head(t)) = s \o <<Head(t)>>
    BY <1>1, AppendIsConcat
  <1>4. (s \o <<Head(t)>>) \o Tail(t) = s \o (<<Head(t)>> \o Tail(t))
    BY <1>1, <1>2, ConcatAssociative
  <1> QED
    BY <1>1, <1>2, <1>3, <1>4

LEMMA BlocksType ==
    ASSUME TypeOK, NEW r \in Run
    PROVE  Blocks(r) \subseteq Block
  BY DEF TypeOK, RunType, Blocks

LEMMA LeftBehindType ==
    ASSUME TypeInv, NEW a \in Actor
    PROVE  LeftBehind(a) \subseteq Block
  <1>1. CASE a \in Run
    <2>1. Blocks(a) \subseteq Block
      BY <1>1, BlocksType DEF TypeInv
    <2>2. BlocksIn(orphans[a]) \subseteq Block
      BY DEF TypeInv, TypeOK, TaskType, BlocksIn
    <2> QED
      BY <2>1, <2>2 DEF LeftBehind
  <1>2. CASE a \in Client
    <2>1. pc[a] \in {"idle", "wait"} \cup Deleting
      BY <1>2 DEF TypeInv, StepsOK
    <2>2. BlocksIn(orphans[a]) \subseteq Block
      BY DEF TypeInv, TypeOK, TaskType, BlocksIn
    <2> QED
      BY <2>1, <2>2 DEF LeftBehind, Deleting
  <1> QED
    BY <1>1, <1>2 DEF Actor

LEMMA ManifestType ==
    ASSUME TypeOK, NEW s \in Run \cup {0}
    PROVE  ManifestRefs(s) \in Seq(Block)
  BY DEF TypeOK, StoreType, RunType, ManifestRefs

-----------------------------------------------------------------------------
(***************************************************************************)
(* Type correctness.                                                       *)
(***************************************************************************)

LEMMA TypeInit == Init => TypeInv
  <1> SUFFICES ASSUME Init PROVE TypeInv
    OBVIOUS
  <1> USE RunAssumption, ClientAssumption DEF Init
  <1>1. StoreType /\ HistoryType
    BY DEF StoreType, HistoryType
  <1>2. RunType
    BY DEF RunType
  <1>3. TaskType
    BY DEF TaskType, Actor, PC
  <1>4. StepsOK
    BY DEF StepsOK, Actor
  <1> QED
    BY <1>1, <1>2, <1>3, <1>4 DEF TypeInv, TypeOK

\* The states a task can be in.
LEMMA PCs ==
    /\ Collecting \cup Deleting \subseteq PC
    /\ {"new", "used", "retain", "prune", "done", "idle", "wait"} \subseteq PC
    /\ {"chunk", "write", "record", "save", "index", "row"} = Collecting
    /\ {"gcrow", "gcrefs", "gcindex", "gcphys"} = Deleting
  BY DEF PC, Collecting, Deleting

\* Runs and REST callers are different tasks.
LEMMA Actors == Actor = Run \cup Client /\ Run \cap Client = {} /\ 0 \notin Run
  BY RunAssumption, ClientAssumption DEF Actor

\* A step that moves one task to p with the blocks t left.
LEMMA TaskStep ==
    ASSUME TypeInv, NEW a \in Actor, NEW p \in PC, NEW t \in Seq(Block),
           pc' = [pc EXCEPT ![a] = p], todo' = [todo EXCEPT ![a] = t],
           p \in {"chunk", "write", "record"} => t # <<>>,
           a \in Client => p \in {"idle", "wait"} \cup Deleting
    PROVE  /\ pc' \in [Actor -> PC] /\ todo' \in [Actor -> Seq(Block)]
           /\ StepsOK'
  <1> USE Actors DEF TypeInv, TypeOK, TaskType
  <1>1. pc' \in [Actor -> PC] /\ todo' \in [Actor -> Seq(Block)]
    OBVIOUS
  <1>2. StepsOK'
    BY DEF StepsOK
  <1> QED
    BY <1>1, <1>2

LEMMA AddNat ==
    ASSUME NEW f \in [Repo -> Nat], NEW p, NEW k \in Nat
    PROVE  [f EXCEPT ![p] = @ + k] \in [Repo -> Nat]
  <1>1. \A q \in Repo : f[q] + k \in Nat
    OBVIOUS
  <1> QED
    BY <1>1

LEMMA NextChunkLeft ==
    ASSUME NEW r \in Run
    PROVE  /\ NextChunk(r) \in {"save", "chunk"}
           /\ NextChunk(r) = "chunk" => Tail(todo[r]) # <<>>
  BY DEF NextChunk

LEMMA TypeRun ==
    ASSUME TypeInv, NEW r \in Run, RunStep(r)
    PROVE  TypeInv'
  <1> USE PCs, Actors DEF TypeInv, TypeOK
  <1>0. pc[r] \in {"chunk", "write", "record"} =>
            Head(todo[r]) \in Block /\ Tail(todo[r]) \in Seq(Block)
    BY HeadTail DEF StepsOK, TaskType
  <1>b. pc[r] = "chunk" => Append(content[r], Head(todo[r])) \in Seq(Block)
    BY MoveHead DEF StepsOK, TaskType, RunType
  <1>1. ASSUME NEW j \in Job, NEW src \in Source, StartRun(r, j, src) PROVE TypeInv'
    <2> USE <1>1, SourceAssumption DEF StartRun
    <2>1. StoreType' /\ HistoryType'
      BY DEF StoreType, HistoryType, TaskType, RunType, indexVars, dbVars, history
    <2>2. RunType'
      BY DEF RunType, TaskType, runVars
    <2>3. TaskType'
      BY DEF TaskType, RunType, StoreType, taskVars
    <2>4. StepsOK'
      BY DEF StepsOK, TaskType, taskVars
    <2> QED
      BY <2>1, <2>2, <2>3, <2>4
  <1>2. CASE LookUp(r)
    <2> USE <1>2, <1>0, <1>b DEF LookUp
    <2>1. StoreType' /\ HistoryType'
      BY DEF StoreType, HistoryType, indexVars, dbVars
    <2>2. RunType'
      BY DEF RunType
    <2>3. \E p \in PC, t \in Seq(Block) :
              /\ pc' = [pc EXCEPT ![r] = p] /\ todo' = [todo EXCEPT ![r] = t]
              /\ p \in {"chunk", "write", "record"} => t # <<>>
      <3>1. CASE refs[Head(todo[r])] > 0
        <4>1. NextChunk(r) \in PC /\ Tail(todo[r]) \in Seq(Block)
          BY NextChunkLeft
        <4>2. NextChunk(r) \in {"chunk", "write", "record"} => Tail(todo[r]) # <<>>
          BY NextChunkLeft
        <4> QED
          BY <3>1, <4>1, <4>2
      <3>2. CASE ~(refs[Head(todo[r])] > 0)
        <4>1. pc' = [pc EXCEPT ![r] = "write"] /\ todo' = [todo EXCEPT ![r] = todo[r]]
          BY <3>2 DEF TaskType
        <4>2. todo[r] # <<>> /\ todo[r] \in Seq(Block)
          BY DEF StepsOK, TaskType
        <4> QED
          BY <4>1, <4>2
      <3> QED
        BY <3>1, <3>2
    <2>4. StepsOK' /\ pc' \in [Actor -> PC] /\ todo' \in [Actor -> Seq(Block)]
      BY <2>3, TaskStep
    <2>5. TaskType'
      BY <2>4 DEF TaskType
    <2> QED
      BY <2>1, <2>2, <2>4, <2>5
  <1>3. CASE WriteBlock(r)
    <2> USE <1>3, <1>0 DEF WriteBlock
    <2>1. StoreType' /\ HistoryType'
      BY DEF StoreType, HistoryType, TaskType, RunType, indexVars, dbVars, history
    <2>2. RunType'
      BY DEF RunType, TaskType, runVars
    <2>3. TaskType'
      BY DEF TaskType, RunType, StoreType, taskVars
    <2>4. StepsOK'
      BY DEF StepsOK, TaskType, taskVars
    <2> QED
      BY <2>1, <2>2, <2>3, <2>4
  <1>4. CASE RecordBlock(r)
    <2> USE <1>4, <1>0 DEF RecordBlock
    <2>1. refs' \in [Block -> Nat]
      BY DEF StoreType
    <2>2. StoreType' /\ HistoryType'
      BY <2>1 DEF StoreType, HistoryType, dbVars, history
    <2>3. RunType'
      BY DEF RunType, runVars
    <2>4. NextChunk(r) \in PC
      BY NextChunkLeft
    <2>5. StepsOK' /\ pc' \in [Actor -> PC] /\ todo' \in [Actor -> Seq(Block)]
      BY <2>4, TaskStep, NextChunkLeft
    <2>6. TaskType'
      BY <2>5 DEF TaskType
    <2> QED
      BY <2>2, <2>3, <2>5, <2>6
  <1>5. CASE SaveManifest(r)
    <2> USE <1>5 DEF SaveManifest
    <2>1. StoreType' /\ HistoryType'
      BY DEF StoreType, HistoryType, TaskType, RunType, indexVars, dbVars, history
    <2>2. RunType'
      BY DEF RunType, TaskType, runVars
    <2>3. TaskType'
      BY DEF TaskType, RunType, StoreType, taskVars
    <2>4. StepsOK'
      BY DEF StepsOK, TaskType, taskVars
    <2> QED
      BY <2>1, <2>2, <2>3, <2>4
  <1>6. CASE AddToIndex(r)
    <2> USE <1>6 DEF AddToIndex
    <2>1. StoreType' /\ HistoryType'
      BY DEF StoreType, HistoryType, TaskType, RunType, indexVars, dbVars, history
    <2>2. RunType'
      BY DEF RunType, TaskType, runVars
    <2>3. TaskType'
      BY DEF TaskType, RunType, StoreType, taskVars
    <2>4. StepsOK'
      BY DEF StepsOK, TaskType, taskVars
    <2> QED
      BY <2>1, <2>2, <2>3, <2>4
  <1>7. CASE InsertRow(r)
    <2> USE <1>7 DEF InsertRow
    <2>1. StoreType' /\ HistoryType'
      BY DEF StoreType, HistoryType, TaskType, RunType, indexVars, dbVars, history
    <2>2. RunType'
      BY DEF RunType, TaskType, runVars
    <2>3. TaskType'
      <3>1. \E p \in PC : pc' = [pc EXCEPT ![r] = p]
        BY DEF TaskType
      <3> QED
        BY <3>1 DEF TaskType
    <2>4. StepsOK'
      BY DEF StepsOK, TaskType, taskVars
    <2> QED
      BY <2>1, <2>2, <2>3, <2>4
  <1>8. CASE UpdateRepoUsed(r)
    <2> USE <1>8 DEF UpdateRepoUsed
    <2>1. StoreType' /\ HistoryType'
      <3>1. fresh[r] \in Nat
        BY DEF RunType
      <3>2. used' \in [Repo -> Nat]
        <4> DEFINE p == RepoOfRun(r)
                   fits == Capacity[p] <= 0 \/ used[p] + fresh[r] <= Capacity[p]
        <4>1. used' = [used EXCEPT ![p] = IF fits THEN @ + fresh[r] ELSE @]
          OBVIOUS
        <4> HIDE DEF p, fits
        <4>2. CASE fits
          <5>1. used' = [used EXCEPT ![p] = @ + fresh[r]]
            BY <4>1, <4>2
          <5>2. used \in [Repo -> Nat]
            BY DEF StoreType
          <5>3. [used EXCEPT ![p] = @ + fresh[r]] \in [Repo -> Nat]
            BY ONLY <3>1, <5>2, AddNat
          <5> QED
            BY <5>1, <5>3
        <4>3. CASE ~fits
          <5>1. used' = [used EXCEPT ![p] = @]
            BY <4>1, <4>3
          <5> QED
            BY <5>1 DEF StoreType
        <4> QED
          BY <4>2, <4>3
      <3> QED
        BY <3>2 DEF StoreType, HistoryType, indexVars, history
    <2>2. RunType'
      BY DEF RunType, TaskType, runVars
    <2>3. TaskType'
      BY DEF TaskType, RunType, StoreType, taskVars
    <2>4. StepsOK'
      BY DEF StepsOK, TaskType, taskVars
    <2> QED
      BY <2>1, <2>2, <2>3, <2>4
  <1>9. ASSUME NEW keep \in SUBSET rows, SelectPrune(r, keep) PROVE TypeInv'
    <2> USE <1>9 DEF SelectPrune, JobRows
    <2>1. StoreType' /\ HistoryType'
      BY DEF StoreType, HistoryType, TaskType, RunType, indexVars, dbVars, history
    <2>2. RunType'
      BY DEF RunType, TaskType, runVars
    <2>3. TaskType'
      BY DEF TaskType, RunType, StoreType, taskVars
    <2>4. StepsOK'
      BY DEF StepsOK, TaskType, taskVars
    <2> QED
      BY <2>1, <2>2, <2>3, <2>4
  <1>10. CASE PruneNext(r)
    <2> USE <1>10, ManifestType DEF PruneNext
    <2>1. StoreType' /\ HistoryType'
      BY DEF StoreType, HistoryType, TaskType, RunType, indexVars, dbVars, history
    <2>2. RunType'
      BY DEF RunType, TaskType, runVars
    <2>3. TaskType'
      <3>1. CASE prune[r] = {}
        BY <3>1 DEF TaskType
      <3>2. CASE prune[r] # {}
        <4>1. PICK s \in Run : /\ target' = [target EXCEPT ![r] = s]
                               /\ todo' = [todo EXCEPT ![r] = ManifestRefs(s)]
                               /\ prune' = [prune EXCEPT ![r] = @ \ {s}]
                               /\ pc' = [pc EXCEPT ![r] = "gcrow"]
          BY <3>2
        <4>2. ManifestRefs(s) \in Seq(Block)
          BY ManifestType
        <4> QED
          BY <4>1, <4>2 DEF TaskType
      <3> QED
        BY <3>1, <3>2
    <2>4. StepsOK'
      BY DEF StepsOK, TaskType, taskVars
    <2> QED
      BY <2>1, <2>2, <2>3, <2>4
  <1> QED
    BY <1>1, <1>2, <1>3, <1>4, <1>5, <1>6, <1>7, <1>8, <1>9, <1>10 DEF RunStep

LEMMA TypeClient ==
    ASSUME TypeInv, NEW c \in Client, ClientStep(c)
    PROVE  TypeInv'
  <1> USE PCs, Actors DEF TypeInv, TypeOK
  <1>1. ASSUME NEW s \in Run, RequestDelete(c, s) PROVE TypeInv'
    <2> USE <1>1 DEF RequestDelete
    <2>1. StoreType' /\ HistoryType'
      BY DEF StoreType, HistoryType, TaskType, RunType, indexVars, dbVars, history
    <2>2. RunType'
      BY DEF RunType, TaskType, runVars
    <2>3. TaskType'
      BY DEF TaskType, RunType, StoreType, taskVars
    <2>4. StepsOK'
      BY DEF StepsOK, TaskType, taskVars
    <2> QED
      BY <2>1, <2>2, <2>3, <2>4
  <1>2. CASE BeginDelete(c)
    <2> USE <1>2, ManifestType DEF BeginDelete
    <2>1. StoreType' /\ HistoryType'
      BY DEF StoreType, HistoryType, TaskType, RunType, indexVars, dbVars, history
    <2>2. RunType'
      BY DEF RunType, TaskType, runVars
    <2>3. TaskType'
      BY DEF TaskType, RunType, StoreType, taskVars
    <2>4. StepsOK'
      BY DEF StepsOK, TaskType, taskVars
    <2> QED
      BY <2>1, <2>2, <2>3, <2>4
  <1> QED
    BY <1>1, <1>2 DEF ClientStep

LEMMA TypeDelete ==
    ASSUME TypeInv, NEW a \in Actor, DeleteStep(a)
    PROVE  TypeInv'
  <1> USE PCs, Actors DEF TypeInv, TypeOK
  <1>0. ASSUME todo[a] # <<>>
        PROVE  Head(todo[a]) \in Block /\ Tail(todo[a]) \in Seq(Block)
    BY <1>0, HeadTail DEF TaskType
  <1>1. CASE DeleteRow(a)
    <2> USE <1>1 DEF DeleteRow
    <2>1. StoreType' /\ HistoryType'
      BY DEF StoreType, HistoryType, indexVars, history
    <2>2. RunType'
      BY DEF RunType, runVars
    <2>3. CASE \E q \in rows : parent[q] = target[a]
      <3>1. <<>> \in Seq(Block) /\ Halted(a) \in {"done", "idle"}
        BY DEF Halted
      <3>2. a \in Client => Halted(a) = "idle"
        BY DEF Halted
      <3>3. StepsOK' /\ pc' \in [Actor -> PC] /\ todo' \in [Actor -> Seq(Block)]
        BY <2>3, <3>1, <3>2, TaskStep
      <3>4. TaskType'
        BY <2>3, <3>3 DEF TaskType, Unlocked
      <3> QED
        BY <2>1, <2>2, <3>3, <3>4
    <2>4. CASE ~\E q \in rows : parent[q] = target[a]
      <3>1. todo' = [todo EXCEPT ![a] = todo[a]] /\ todo[a] \in Seq(Block)
        BY <2>4 DEF TaskType
      <3>2. StepsOK' /\ pc' \in [Actor -> PC] /\ todo' \in [Actor -> Seq(Block)]
        BY <2>4, <3>1, TaskStep
      <3>3. TaskType'
        BY <2>4, <3>2 DEF TaskType
      <3> QED
        BY <2>1, <2>2, <3>2, <3>3
    <2> QED
      BY <2>3, <2>4
  <1>2. CASE ReleaseRef(a)
    <2> USE <1>2, <1>0, AppendProperties DEF ReleaseRef
    <2>1. StoreType' /\ HistoryType'
      BY DEF StoreType, HistoryType, TaskType, RunType, indexVars, dbVars, history
    <2>2. RunType'
      BY DEF RunType, TaskType, runVars
    <2>3. TaskType'
      BY DEF TaskType, RunType, StoreType, taskVars
    <2>4. StepsOK'
      BY DEF StepsOK, TaskType, taskVars
    <2> QED
      BY <2>1, <2>2, <2>3, <2>4
  <1>3. CASE DeleteManifest(a)
    <2> USE <1>3 DEF DeleteManifest
    <2>1. StoreType' /\ HistoryType'
      BY DEF StoreType, HistoryType, TaskType, RunType, indexVars, dbVars, history
    <2>2. RunType'
      BY DEF RunType, TaskType, runVars
    <2>3. TaskType'
      BY DEF TaskType, RunType, StoreType, taskVars
    <2>4. StepsOK'
      BY DEF StepsOK, TaskType, taskVars
    <2> QED
      BY <2>1, <2>2, <2>3, <2>4
  <1>4. CASE DeleteIndexRow(a)
    <2> USE <1>4 DEF DeleteIndexRow
    <2>1. StoreType' /\ HistoryType'
      BY DEF StoreType, HistoryType, TaskType, RunType, indexVars, dbVars, history
    <2>2. RunType'
      BY DEF RunType, TaskType, runVars
    <2>3. TaskType'
      BY DEF TaskType, RunType, StoreType, taskVars
    <2>4. StepsOK'
      BY DEF StepsOK, TaskType, taskVars
    <2> QED
      BY <2>1, <2>2, <2>3, <2>4
  <1>5. CASE DeleteBlock(a)
    <2> USE <1>5, HeadTail DEF DeleteBlock
    <2>1. StoreType' /\ HistoryType'
      <3>1. Head(orphans[a]) \in Block
        BY DEF TaskType
      <3>2. stored' \in [Repo -> SUBSET Block] /\ debris' \subseteq Block
        BY <3>1 DEF StoreType, HistoryType
      <3> QED
        BY <3>2 DEF StoreType, HistoryType, indexVars, dbVars
    <2>2. RunType'
      BY DEF RunType, TaskType, runVars
    <2>3. TaskType'
      BY DEF TaskType, RunType, StoreType, taskVars
    <2>4. StepsOK'
      BY DEF StepsOK, TaskType, taskVars
    <2> QED
      BY <2>1, <2>2, <2>3, <2>4
  <1>6. CASE EndDelete(a)
    <2> USE <1>6 DEF EndDelete, Unlocked
    <2>1. StoreType' /\ HistoryType'
      BY DEF StoreType, HistoryType, TaskType, RunType, indexVars, dbVars, history
    <2>2. RunType'
      BY DEF RunType, TaskType, runVars
    <2>3. TaskType'
      BY DEF TaskType, RunType, StoreType, taskVars
    <2>4. StepsOK'
      BY DEF StepsOK, TaskType, taskVars
    <2> QED
      BY <2>1, <2>2, <2>3, <2>4
  <1> QED
    BY <1>1, <1>2, <1>3, <1>4, <1>5, <1>6 DEF DeleteStep

LEMMA TypeHalt ==
    ASSUME TypeInv, Crash \/ \E a \in Actor : Stop(a)
    PROVE  TypeInv'
  <1>0. \A a \in Actor : LeftBehind(a) \subseteq Block
    BY LeftBehindType
  <1> USE <1>0, PCs, Actors DEF TypeInv, TypeOK
  <1>1. CASE Crash
    <2> USE <1>1 DEF Crash, Halted
    <2>1. StoreType' /\ HistoryType'
      BY DEF StoreType, HistoryType, TaskType, RunType, indexVars, dbVars, history
    <2>2. RunType'
      BY DEF RunType, TaskType, runVars
    <2>3. TaskType'
      BY DEF TaskType, RunType, StoreType, taskVars
    <2>4. StepsOK'
      BY DEF StepsOK, TaskType, taskVars
    <2> QED
      BY <2>1, <2>2, <2>3, <2>4
  <1>2. ASSUME NEW a \in Actor, Stop(a) PROVE TypeInv'
    <2> USE <1>2 DEF Stop, Halted, Unlocked
    <2>1. StoreType' /\ HistoryType'
      BY DEF StoreType, HistoryType, TaskType, RunType, indexVars, dbVars, history
    <2>2. RunType'
      BY DEF RunType, TaskType, runVars
    <2>3. TaskType'
      BY DEF TaskType, RunType, StoreType, taskVars
    <2>4. StepsOK'
      BY DEF StepsOK, TaskType, taskVars
    <2> QED
      BY <2>1, <2>2, <2>3, <2>4
  <1> QED
    BY <1>1, <1>2

LEMMA TypeNext == TypeInv /\ [Next]_vars => TypeInv'
  <1> SUFFICES ASSUME TypeInv, [Next]_vars PROVE TypeInv'
    OBVIOUS
  <1>1. ASSUME NEW s \in Run, PlaceHold(s) \/ ReleaseHold(s) PROVE TypeInv'
    BY <1>1 DEF PlaceHold, ReleaseHold, TypeInv, TypeOK, StoreType, RunType, TaskType,
                HistoryType, StepsOK, indexVars, runVars, taskVars, history
  <1>2. CASE UNCHANGED vars
    BY <1>2 DEF vars, TypeInv, TypeOK, StoreType, RunType, TaskType, HistoryType, StepsOK,
                indexVars, dbVars, runVars, taskVars, history
  <1> QED
    BY <1>1, <1>2, TypeRun, TypeClient, TypeDelete, TypeHalt DEF Next

\* Every reachable state is well typed.
THEOREM TypeCorrect == Spec => []TypeOK
  <1>1. TypeInv => TypeOK
    BY DEF TypeInv
  <1> QED
    BY <1>1, TypeInit, TypeNext, PTL DEF Spec
-----------------------------------------------------------------------------
(***************************************************************************)
(* The invariant of the three stores.                                      *)
(***************************************************************************)

\* A run that will not write any more: only then can it be listed or deleted.
Past(r) == pc[r] \notin Collecting \cup {"new"}

PastCollecting ==
    /\ \A s \in rows : Past(s)
    /\ \A a \in Actor : target[a] # 0 => Past(target[a])
    /\ \A a \in Actor : \A s \in prune[a] : Past(s)

\* The row of a snapshot goes before its manifest does.
Withdrawn ==
    \A a \in Actor : pc[a] \in {"gcrefs", "gcindex", "gcphys"} => target[a] \notin rows

\* What a run has written when it comes to the index, and to the row.
Written ==
    \A r \in Run : /\ pc[r] \in {"index", "row"} => r \in saved
                   /\ pc[r] = "row" => r \in indexed

\* What a run has collected and what is left make a whole of the source.
Whole ==
    /\ \A r \in Run :
        /\ pc[r] = "new" => content[r] = <<>>
        /\ pc[r] = "chunk" => content[r] \o todo[r] \in Source
        /\ pc[r] \in {"write", "record"} => content[r] \o Tail(todo[r]) \in Source
        /\ pc[r] \in {"save", "index", "row"} => content[r] \in Source
    /\ \A s \in rows : content[s] \in Source

StoreInv ==
    TypeInv /\ RowHasManifest /\ PastCollecting /\ Withdrawn /\ Written /\ Whole

LEMMA StoreInit == Init => StoreInv
  <1> SUFFICES ASSUME Init PROVE StoreInv
    OBVIOUS
  <1>1. TypeInv
    BY TypeInit
  <1>2. RowHasManifest /\ PastCollecting /\ Withdrawn /\ Written /\ Whole
    BY Actors DEF Init, RowHasManifest, PastCollecting, Withdrawn, Written, Whole
  <1> QED
    BY <1>1, <1>2 DEF StoreInv

\* While one run collects, nothing that is listed or deleted moves.
LEMMA WholeStep ==
    ASSUME StoreInv, NEW r \in Run, ~Past(r), rows' = rows,
           \A q \in Run \ {r} : /\ pc'[q] = pc[q] /\ todo'[q] = todo[q]
                                /\ content'[q] = content[q],
           \/ pc'[r] = "chunk" /\ content'[r] \o todo'[r] \in Source
           \/ pc'[r] \in {"write", "record"} /\ content'[r] \o Tail(todo'[r]) \in Source
           \/ pc'[r] = "save" /\ content'[r] \in Source
    PROVE  Whole'
  <1>1. r \notin rows /\ rows \subseteq Run
    BY DEF StoreInv, PastCollecting, TypeInv, TypeOK, StoreType
  <1>2. \A s \in rows' : content'[s] \in Source
    BY <1>1 DEF StoreInv, Whole
  <1> QED
    BY <1>2 DEF StoreInv, Whole

\* A step of one run leaves the runs behind it past collecting.
LEMMA PastKept ==
    ASSUME StoreInv, NEW a \in Actor, NEW p \in PC, pc' = [pc EXCEPT ![a] = p],
           a \in Run /\ Past(a) => p \notin Collecting \cup {"new"}
    PROVE  \A q \in Run : Past(q) => Past(q)'
  <1>1. pc \in [Actor -> PC]
    BY DEF StoreInv, TypeInv, TypeOK, TaskType
  <1> QED
    BY <1>1, Actors DEF Past

LEMMA StoreRun ==
    ASSUME StoreInv, TypeInv', NEW r \in Run, RunStep(r)
    PROVE  StoreInv'
  <1> USE PCs, Actors DEF StoreInv, TypeInv, TypeOK, StoreType, TaskType,
                        indexVars, dbVars, runVars, taskVars, history
  <1>1. ASSUME NEW j \in Job, NEW src \in Source, StartRun(r, j, src) PROVE StoreInv'
    <2> USE <1>1, SourceAssumption, ConcatEmptySeq DEF StartRun
    <2>1. RowHasManifest'
      BY DEF RowHasManifest
    <2>2. PastCollecting'
      BY DEF PastCollecting, Past
    <2>3. Withdrawn'
      BY DEF Withdrawn, PastCollecting, Past
    <2>4. Written'
      BY DEF Written, PastCollecting, Past
    <2>5. Whole'
      <3>1. src \in Seq(Block) /\ <<>> \o src = src
        OBVIOUS
      <3>2. content'[r] = <<>> /\ todo'[r] = src
        BY DEF Whole
      <3>3. pc'[r] = IF src = <<>> THEN "save" ELSE "chunk"
        OBVIOUS
      <3>4. ~Past(r) /\ rows' = rows
        BY DEF Past
      <3>5. \A q \in Run \ {r} : /\ pc'[q] = pc[q] /\ todo'[q] = todo[q]
                                /\ content'[q] = content[q]
        OBVIOUS
      <3>6. CASE src = <<>>
        <4>1. pc'[r] = "save" /\ content'[r] \in Source
          BY <3>2, <3>3, <3>6
        <4> QED
          BY ONLY StoreInv, <3>4, <3>5, <4>1, WholeStep, r \in Run
      <3>7. CASE src # <<>>
        <4>1. pc'[r] = "chunk" /\ content'[r] \o todo'[r] \in Source
          BY <3>1, <3>2, <3>3, <3>7
        <4> QED
          BY ONLY StoreInv, <3>4, <3>5, <4>1, WholeStep, r \in Run
      <3> QED
        BY <3>6, <3>7
    <2> QED
      BY <2>1, <2>2, <2>3, <2>4, <2>5
  <1>2. CASE LookUp(r)
    <2> USE <1>2 DEF LookUp, NextChunk
    <2>1. RowHasManifest'
      BY DEF RowHasManifest
    <2>2. PastCollecting'
      <3>1. NextChunk(r) \in PC /\ "write" \in PC /\ ~Past(r)
        BY NextChunkLeft DEF Past
      <3>2. \A q \in Run : Past(q) => Past(q)'
        BY <3>1, PastKept
      <3> QED
        BY <3>2 DEF PastCollecting
    <2>3. Withdrawn'
      BY DEF Withdrawn, PastCollecting, Past
    <2>4. Written'
      BY DEF Written, PastCollecting, Past
    <2>5. Whole'
      <3> DEFINE b == Head(todo[r])
      <3>1. /\ content[r] \in Seq(Block) /\ todo[r] \in Seq(Block) /\ todo[r] # <<>>
            /\ content[r] \o todo[r] \in Source
        BY DEF StepsOK, RunType, Whole
      <3>2. content'[r] = Append(content[r], b)
        BY DEF RunType
      <3>3. content'[r] \in Seq(Block) /\ content'[r] \o Tail(todo[r]) \in Source
        BY ONLY <3>1, <3>2, MoveHead
      <3>4. Tail(todo[r]) = <<>> => content'[r] \in Source
        BY ONLY <3>3, ConcatEmptySeq
      <3>5. ~Past(r) /\ rows' = rows
        BY DEF Past
      <3>6. \A q \in Run \ {r} : /\ pc'[q] = pc[q] /\ todo'[q] = todo[q]
                                /\ content'[q] = content[q]
        OBVIOUS
      <3>7. CASE refs[b] > 0
        <4>1. todo'[r] = Tail(todo[r])
          BY <3>7
        <4>2. pc'[r] = IF Tail(todo[r]) = <<>> THEN "save" ELSE "chunk"
          BY <3>7 DEF NextChunk
        <4>3. \/ pc'[r] = "chunk" /\ content'[r] \o todo'[r] \in Source
              \/ pc'[r] = "save" /\ content'[r] \in Source
          BY ONLY <3>3, <3>4, <4>1, <4>2
        <4> QED
          BY ONLY StoreInv, <3>5, <3>6, <4>3, WholeStep, r \in Run
      <3>8. CASE ~(refs[b] > 0)
        <4>1. todo'[r] = todo[r] /\ pc'[r] = "write"
          BY <3>8
        <4> QED
          BY ONLY StoreInv, <3>3, <3>5, <3>6, <4>1, WholeStep, r \in Run
      <3> QED
        BY <3>7, <3>8
    <2> QED
      BY <2>1, <2>2, <2>3, <2>4, <2>5
  <1>3. CASE WriteBlock(r)
    <2> USE <1>3 DEF WriteBlock
    <2>1. RowHasManifest'
      BY DEF RowHasManifest
    <2>2. PastCollecting'
      BY DEF PastCollecting, Past
    <2>3. Withdrawn'
      BY DEF Withdrawn, PastCollecting, Past
    <2>4. Written'
      BY DEF Written, PastCollecting, Past
    <2>5. Whole'
      BY DEF Whole, PastCollecting, Past
    <2> QED
      BY <2>1, <2>2, <2>3, <2>4, <2>5
  <1>4. CASE RecordBlock(r)
    <2> USE <1>4 DEF RecordBlock, NextChunk
    <2>1. RowHasManifest'
      BY DEF RowHasManifest
    <2>2. PastCollecting'
      BY DEF PastCollecting, Past
    <2>3. Withdrawn'
      BY DEF Withdrawn, PastCollecting, Past
    <2>4. Written'
      BY DEF Written, PastCollecting, Past
    <2>5. Whole'
      <3>1. content[r] \in Seq(Block) /\ content[r] \o Tail(todo[r]) \in Source
        BY DEF RunType, Whole
      <3>2. Tail(todo[r]) = <<>> => content[r] \in Source
        BY ONLY <3>1, ConcatEmptySeq
      <3>3. content' = content /\ todo'[r] = Tail(todo[r])
        BY DEF TaskType
      <3>4. pc'[r] = IF Tail(todo[r]) = <<>> THEN "save" ELSE "chunk"
        BY DEF NextChunk
      <3>5. ~Past(r) /\ rows' = rows
        BY DEF Past
      <3>6. \A q \in Run \ {r} : /\ pc'[q] = pc[q] /\ todo'[q] = todo[q]
                                /\ content'[q] = content[q]
        OBVIOUS
      <3>7. \/ pc'[r] = "chunk" /\ content'[r] \o todo'[r] \in Source
            \/ pc'[r] = "save" /\ content'[r] \in Source
        BY ONLY <3>1, <3>2, <3>3, <3>4
      <3> QED
        BY ONLY StoreInv, <3>5, <3>6, <3>7, WholeStep, r \in Run
    <2> QED
      BY <2>1, <2>2, <2>3, <2>4, <2>5
  <1>5. CASE SaveManifest(r)
    <2> USE <1>5 DEF SaveManifest
    <2>1. RowHasManifest'
      BY DEF RowHasManifest
    <2>2. PastCollecting'
      BY DEF PastCollecting, Past
    <2>3. Withdrawn'
      BY DEF Withdrawn, PastCollecting, Past
    <2>4. Written'
      BY DEF Written, PastCollecting, Past
    <2>5. Whole'
      BY DEF Whole, PastCollecting, Past
    <2> QED
      BY <2>1, <2>2, <2>3, <2>4, <2>5
  <1>6. CASE AddToIndex(r)
    <2> USE <1>6 DEF AddToIndex
    <2>1. RowHasManifest'
      BY DEF RowHasManifest
    <2>2. PastCollecting'
      BY DEF PastCollecting, Past
    <2>3. Withdrawn'
      BY DEF Withdrawn, PastCollecting, Past
    <2>4. Written'
      BY DEF Written, PastCollecting, Past
    <2>5. Whole'
      BY DEF Whole, PastCollecting, Past
    <2> QED
      BY <2>1, <2>2, <2>3, <2>4, <2>5
  <1>7. CASE InsertRow(r)
    <2> USE <1>7 DEF InsertRow
    <2>0. \A q \in Run : Past(q) => Past(q)'
      <3>1. \E p \in {"used", "done"} : pc' = [pc EXCEPT ![r] = p]
        OBVIOUS
      <3> QED
        BY <3>1, PastKept
    <2>1. rows' \subseteq rows \cup {r} /\ r \in saved \cap indexed /\ Past(r)'
      <3>1. rows' \subseteq rows \cup {r}
        OBVIOUS
      <3>2. r \in saved \cap indexed
        BY DEF Written
      <3>3. pc'[r] \in {"used", "done"}
        OBVIOUS
      <3> QED
        BY <3>1, <3>2, <3>3 DEF Past
    <2>2. RowHasManifest'
      BY <2>1 DEF RowHasManifest
    <2>3. PastCollecting'
      BY <2>0, <2>1 DEF PastCollecting
    <2>4. Withdrawn'
      BY DEF Withdrawn, PastCollecting, Past
    <2>5. Written'
      BY DEF Written, PastCollecting, Past
    <2>6. Whole'
      BY DEF Whole, PastCollecting, Past
    <2> QED
      BY <2>2, <2>3, <2>4, <2>5, <2>6
  <1>8. CASE UpdateRepoUsed(r)
    <2> USE <1>8 DEF UpdateRepoUsed
    <2>1. RowHasManifest'
      BY DEF RowHasManifest
    <2>2. PastCollecting'
      BY DEF PastCollecting, Past
    <2>3. Withdrawn'
      BY DEF Withdrawn, PastCollecting, Past
    <2>4. Written'
      BY DEF Written, PastCollecting, Past
    <2>5. Whole'
      BY DEF Whole, PastCollecting, Past
    <2> QED
      BY <2>1, <2>2, <2>3, <2>4, <2>5
  <1>9. ASSUME NEW keep \in SUBSET rows, SelectPrune(r, keep) PROVE StoreInv'
    <2> USE <1>9 DEF SelectPrune, JobRows
    <2>1. RowHasManifest'
      BY DEF RowHasManifest
    <2>2. PastCollecting'
      BY DEF PastCollecting, Past
    <2>3. Withdrawn'
      BY DEF Withdrawn, PastCollecting, Past
    <2>4. Written'
      BY DEF Written, PastCollecting, Past
    <2>5. Whole'
      BY DEF Whole, PastCollecting, Past
    <2> QED
      BY <2>1, <2>2, <2>3, <2>4, <2>5
  <1>10. CASE PruneNext(r)
    <2> USE <1>10 DEF PruneNext, IsNewest
    <2>1. RowHasManifest'
      BY DEF RowHasManifest
    <2>2. PastCollecting'
      <3>1. \A q \in Run : Past(q) => Past(q)'
        <4>1. \E p \in {"done", "gcrow"} : pc' = [pc EXCEPT ![r] = p]
          OBVIOUS
        <4> QED
          BY <4>1, PastKept
      <3>2. \A a \in Actor : prune'[a] \subseteq prune[a]
        <4>1. CASE prune' = prune
          BY <4>1
        <4>2. ASSUME NEW s \in Run, prune' = [prune EXCEPT ![r] = @ \ {s}]
              PROVE  \A a \in Actor : prune'[a] \subseteq prune[a]
          BY <4>2
        <4> QED
          BY <4>1, <4>2
      <3>3. \A a \in Actor : target'[a] = target[a] \/ target'[a] \in prune[a]
        BY DEF IsNewest
      <3> QED
        BY <3>1, <3>2, <3>3 DEF PastCollecting
    <2>3. Withdrawn'
      BY DEF Withdrawn, PastCollecting, Past
    <2>4. Written'
      BY DEF Written, PastCollecting, Past
    <2>5. Whole'
      BY DEF Whole, PastCollecting, Past
    <2> QED
      BY <2>1, <2>2, <2>3, <2>4, <2>5
  <1> QED
    BY <1>1, <1>2, <1>3, <1>4, <1>5, <1>6, <1>7, <1>8, <1>9, <1>10 DEF RunStep

LEMMA StoreClient ==
    ASSUME StoreInv, TypeInv', NEW c \in Client, ClientStep(c)
    PROVE  StoreInv'
  <1> USE PCs, Actors DEF StoreInv, TypeInv, TypeOK, StoreType, TaskType,
                        indexVars, dbVars, runVars, taskVars, history
  <1>1. ASSUME NEW s \in Run, RequestDelete(c, s) PROVE StoreInv'
    <2> USE <1>1 DEF RequestDelete
    <2>1. RowHasManifest'
      BY DEF RowHasManifest
    <2>2. PastCollecting'
      BY DEF PastCollecting, Past
    <2>3. Withdrawn'
      BY DEF Withdrawn, PastCollecting, Past
    <2>4. Written'
      BY DEF Written, PastCollecting, Past
    <2>5. Whole'
      BY DEF Whole, PastCollecting, Past
    <2> QED
      BY <2>1, <2>2, <2>3, <2>4, <2>5
  <1>2. CASE BeginDelete(c)
    <2> USE <1>2 DEF BeginDelete
    <2>1. RowHasManifest'
      BY DEF RowHasManifest
    <2>2. PastCollecting'
      BY DEF PastCollecting, Past
    <2>3. Withdrawn'
      BY DEF Withdrawn, PastCollecting, Past
    <2>4. Written'
      BY DEF Written, PastCollecting, Past
    <2>5. Whole'
      BY DEF Whole, PastCollecting, Past
    <2> QED
      BY <2>1, <2>2, <2>3, <2>4, <2>5
  <1> QED
    BY <1>1, <1>2 DEF ClientStep

LEMMA StoreDelete ==
    ASSUME StoreInv, TypeInv', NEW a \in Actor, DeleteStep(a)
    PROVE  StoreInv'
  <1> USE PCs, Actors DEF StoreInv, TypeInv, TypeOK, StoreType, TaskType,
                        indexVars, dbVars, runVars, taskVars, history
  <1>1. CASE DeleteRow(a)
    <2> USE <1>1 DEF DeleteRow
    <2>1. Halted(a) \in {"done", "idle"} /\ rows' \subseteq rows
      BY DEF Halted
    <2>2. UNCHANGED <<saved, indexed, content>>
      OBVIOUS
    <2>3. \E p \in {"done", "idle", "gcrefs"} : pc' = [pc EXCEPT ![a] = p]
      BY <2>1
    <2>4. RowHasManifest'
      BY <2>1, <2>2 DEF RowHasManifest
    <2>5. PastCollecting'
      <3>1. \A q \in Run : Past(q) => Past(q)'
        BY <2>3, PastKept
      <3>2. \A x \in Actor : prune'[x] \subseteq prune[x] /\ target'[x] \in {0, target[x]}
        <4>1. prune' = prune \/ prune' = [prune EXCEPT ![a] = {}]
          OBVIOUS
        <4>2. target' = target \/ target' = [target EXCEPT ![a] = 0]
          OBVIOUS
        <4> QED
          BY <4>1, <4>2
      <3> QED
        BY <2>1, <3>1, <3>2 DEF PastCollecting
    <2>6. Withdrawn'
      <3>1. CASE \E q \in rows : parent[q] = target[a]
        <4>1. rows' = rows /\ pc' = [pc EXCEPT ![a] = Halted(a)]
          BY <3>1
        <4>2. target' = [target EXCEPT ![a] = 0]
          BY <3>1
        <4> QED
          BY <2>1, <4>1, <4>2 DEF Withdrawn
      <3>2. CASE ~\E q \in rows : parent[q] = target[a]
        BY <3>2 DEF Withdrawn
      <3> QED
        BY <3>1, <3>2
    <2>7. Written'
      BY <2>2, <2>3 DEF Written
    <2>8. Whole'
      <3>1. \A q \in Run \ {a} : pc'[q] = pc[q] /\ todo'[q] = todo[q]
        OBVIOUS
      <3> QED
        BY <2>1, <2>2, <2>3, <3>1 DEF Whole
    <2> QED
      BY <2>4, <2>5, <2>6, <2>7, <2>8
  <1>2. CASE ReleaseRef(a)
    <2> USE <1>2 DEF ReleaseRef
    <2>1. RowHasManifest'
      BY DEF RowHasManifest
    <2>2. PastCollecting'
      BY DEF PastCollecting, Past
    <2>3. Withdrawn'
      BY DEF Withdrawn, PastCollecting, Past
    <2>4. Written'
      BY DEF Written, PastCollecting, Past
    <2>5. Whole'
      BY DEF Whole, PastCollecting, Past
    <2> QED
      BY <2>1, <2>2, <2>3, <2>4, <2>5
  <1>3. CASE DeleteManifest(a)
    <2> USE <1>3 DEF DeleteManifest
    <2>1. RowHasManifest'
      BY DEF RowHasManifest
    <2>2. PastCollecting'
      BY DEF PastCollecting, Past
    <2>3. Withdrawn'
      BY DEF Withdrawn, PastCollecting, Past
    <2>4. Written'
      BY DEF Written, PastCollecting, Past
    <2>5. Whole'
      BY DEF Whole, PastCollecting, Past
    <2> QED
      BY <2>1, <2>2, <2>3, <2>4, <2>5
  <1>4. CASE DeleteIndexRow(a)
    <2> USE <1>4 DEF DeleteIndexRow
    <2>1. RowHasManifest'
      <3>1. target[a] \notin rows
        BY DEF Withdrawn
      <3> QED
        BY <3>1 DEF RowHasManifest
    <2>2. PastCollecting'
      BY DEF PastCollecting, Past
    <2>3. Withdrawn'
      BY DEF Withdrawn, PastCollecting, Past
    <2>4. Written'
      BY DEF Written, PastCollecting, Past
    <2>5. Whole'
      BY DEF Whole, PastCollecting, Past
    <2> QED
      BY <2>1, <2>2, <2>3, <2>4, <2>5
  <1>5. CASE DeleteBlock(a)
    <2> USE <1>5 DEF DeleteBlock
    <2>1. RowHasManifest'
      BY DEF RowHasManifest
    <2>2. PastCollecting'
      BY DEF PastCollecting, Past
    <2>3. Withdrawn'
      BY DEF Withdrawn, PastCollecting, Past
    <2>4. Written'
      BY DEF Written, PastCollecting, Past
    <2>5. Whole'
      BY DEF Whole, PastCollecting, Past
    <2> QED
      BY <2>1, <2>2, <2>3, <2>4, <2>5
  <1>6. CASE EndDelete(a)
    <2> USE <1>6 DEF EndDelete
    <2>1. RowHasManifest'
      BY DEF RowHasManifest
    <2>2. PastCollecting'
      BY DEF PastCollecting, Past
    <2>3. Withdrawn'
      BY DEF Withdrawn, PastCollecting, Past
    <2>4. Written'
      BY DEF Written, PastCollecting, Past
    <2>5. Whole'
      BY DEF Whole, PastCollecting, Past
    <2> QED
      BY <2>1, <2>2, <2>3, <2>4, <2>5
  <1> QED
    BY <1>1, <1>2, <1>3, <1>4, <1>5, <1>6 DEF DeleteStep

LEMMA StoreHalt ==
    ASSUME StoreInv, TypeInv', Crash \/ \E a \in Actor : Stop(a)
    PROVE  StoreInv'
  <1> USE PCs, Actors DEF StoreInv, TypeInv, TypeOK, StoreType, TaskType,
                        indexVars, dbVars, runVars, taskVars, history
  <1>1. CASE Crash
    <2> USE <1>1 DEF Crash, Halted
    <2>1. RowHasManifest'
      BY DEF RowHasManifest
    <2>2. PastCollecting'
      BY DEF PastCollecting, Past
    <2>3. Withdrawn'
      BY DEF Withdrawn, PastCollecting, Past
    <2>4. Written'
      BY DEF Written, PastCollecting, Past
    <2>5. Whole'
      BY DEF Whole, PastCollecting, Past
    <2> QED
      BY <2>1, <2>2, <2>3, <2>4, <2>5
  <1>2. ASSUME NEW a \in Actor, Stop(a) PROVE StoreInv'
    <2> USE <1>2 DEF Stop, Halted
    <2>1. RowHasManifest'
      BY DEF RowHasManifest
    <2>2. PastCollecting'
      BY DEF PastCollecting, Past
    <2>3. Withdrawn'
      BY DEF Withdrawn, PastCollecting, Past
    <2>4. Written'
      BY DEF Written, PastCollecting, Past
    <2>5. Whole'
      BY DEF Whole, PastCollecting, Past
    <2> QED
      BY <2>1, <2>2, <2>3, <2>4, <2>5
  <1> QED
    BY <1>1, <1>2

LEMMA StoreNext == StoreInv /\ [Next]_vars => StoreInv'
  <1> SUFFICES ASSUME StoreInv, [Next]_vars PROVE StoreInv'
    OBVIOUS
  <1>1. TypeInv'
    BY TypeNext DEF StoreInv
  <1>2. ASSUME NEW s \in Run, PlaceHold(s) \/ ReleaseHold(s) PROVE StoreInv'
    BY <1>1, <1>2 DEF PlaceHold, ReleaseHold, StoreInv, RowHasManifest, PastCollecting, Past,
                      Withdrawn, Written, Whole, indexVars, runVars, taskVars
  <1>3. CASE UNCHANGED vars
    BY <1>1, <1>3 DEF vars, StoreInv, RowHasManifest, PastCollecting, Past,
                      Withdrawn, Written, Whole, indexVars, dbVars, runVars, taskVars
  <1> QED
    BY <1>1, <1>2, <1>3, StoreRun, StoreClient, StoreDelete, StoreHalt DEF Next

THEOREM StoreInvariant == Spec => []StoreInv
  BY StoreInit, StoreNext, PTL DEF Spec

\* A listed snapshot has its manifest and its index row.
THEOREM ListedIsComplete == Spec => []RowHasManifest
  <1>1. StoreInv => RowHasManifest
    BY DEF StoreInv
  <1> QED
    BY <1>1, StoreInvariant, PTL

-----------------------------------------------------------------------------
(***************************************************************************)
(* The catalog.                                                            *)
(***************************************************************************)

\* A step lists at most one more snapshot or one fewer, and leaves the content
\* of those that are listed alone.
LEMMA RowsStep ==
    ASSUME StoreInv, [Next]_vars
    PROVE  /\ \A s \in rows : content'[s] = content[s]
           /\ \/ rows' = rows
              \/ \E s \in Run \ rows : rows' = rows \cup {s}
              \/ \E s \in rows : rows' = rows \ {s}
  <1> DEFINE Goal == /\ \A s \in rows : content'[s] = content[s]
                     /\ \/ rows' = rows
                        \/ \E s \in Run \ rows : rows' = rows \cup {s}
                        \/ \E s \in rows : rows' = rows \ {s}
  <1>1. ASSUME NEW r \in Run, LookUp(r) PROVE Goal
    <2>1. r \notin rows
      BY <1>1, PCs DEF LookUp, StoreInv, PastCollecting, Past
    <2>2. rows' = rows /\ content' = [content EXCEPT ![r] = Append(content[r], Head(todo[r]))]
      BY <1>1 DEF LookUp, dbVars
    <2>3. content \in [Run -> Seq(Block)] /\ rows \subseteq Run
      BY DEF StoreInv, TypeInv, TypeOK, StoreType, RunType
    <2> QED
      BY <2>1, <2>2, <2>3
  <1>2. ASSUME NEW r \in Run, InsertRow(r) PROVE Goal
    <2>1. r \notin rows
      BY <1>2, PCs DEF InsertRow, StoreInv, PastCollecting, Past
    <2>2. content' = content /\ (rows' = rows \/ rows' = rows \cup {r})
      BY <1>2 DEF InsertRow, runVars
    <2> QED
      BY <2>1, <2>2
  <1>3. ASSUME NEW a \in Actor, DeleteRow(a) PROVE Goal
    <2>1. content' = content /\ (rows' = rows \/ rows' = rows \ {target[a]})
      BY <1>3 DEF DeleteRow, runVars
    <2>2. CASE target[a] \in rows
      BY <2>1, <2>2
    <2>3. CASE target[a] \notin rows
      BY <2>1, <2>3
    <2> QED
      BY <2>2, <2>3
  <1>4. SUFFICES ASSUME UNCHANGED <<rows, content>> PROVE Goal
    <2> USE DEF dbVars, runVars
    <2>1. ASSUME NEW r \in Run, RunStep(r), ~LookUp(r), ~InsertRow(r)
          PROVE  UNCHANGED <<rows, content>>
      BY <2>1 DEF RunStep, StartRun, WriteBlock, RecordBlock, SaveManifest, AddToIndex,
                  UpdateRepoUsed, SelectPrune, PruneNext
    <2>2. ASSUME NEW c \in Client, ClientStep(c) PROVE UNCHANGED <<rows, content>>
      BY <2>2 DEF ClientStep, RequestDelete, BeginDelete
    <2>3. ASSUME NEW a \in Actor, DeleteStep(a) \/ Stop(a), ~DeleteRow(a)
          PROVE  UNCHANGED <<rows, content>>
      BY <2>3 DEF DeleteStep, ReleaseRef, DeleteManifest, DeleteIndexRow, DeleteBlock,
                  EndDelete, Stop
    <2>4. ASSUME NEW s \in Run, PlaceHold(s) \/ ReleaseHold(s)
          PROVE  UNCHANGED <<rows, content>>
      BY <2>4 DEF PlaceHold, ReleaseHold
    <2>5. CASE Crash \/ UNCHANGED vars
      BY <2>5 DEF Crash, vars
    <2> QED
      BY <1>1, <1>2, <1>3, <2>1, <2>2, <2>3, <2>4, <2>5 DEF Next
  <1> QED
    BY <1>4

\* The abstract state: each listed snapshot with what its run collected.
LEMMA CatalogOf ==
    ASSUME StoreInv
    PROVE  [s \in rows |-> ManifestRefs(s)] = [s \in rows |-> content[s]]
  BY DEF StoreInv, RowHasManifest, ManifestRefs

LEMMA CatalogInit == Init => Catalog!Init
  BY DEF Init, Catalog!Init

LEMMA CatalogStep ==
    ASSUME StoreInv, StoreInv', [Next]_vars
    PROVE  \/ Catalog!Next
           \/ UNCHANGED [s \in rows |-> ManifestRefs(s)]
  <1> DEFINE cat == [s \in rows |-> ManifestRefs(s)]
  <1>1. cat = [s \in rows |-> content[s]]
    BY CatalogOf
  <1>2. cat' = [s \in rows' |-> content'[s]]
    BY DEF StoreInv, RowHasManifest, ManifestRefs
  <1>3. /\ DOMAIN cat = rows /\ DOMAIN cat' = rows'
        /\ \A s \in rows : cat[s] = content[s]
        /\ \A s \in rows : content'[s] = content[s]
    BY <1>1, <1>2, RowsStep
  <1>4. CASE rows' = rows
    BY <1>1, <1>2, <1>3, <1>4
  <1>5. ASSUME NEW s \in Run \ rows, rows' = rows \cup {s} PROVE Catalog!Next
    <2>1. content'[s] \in Source
      BY <1>5 DEF StoreInv, Whole
    <2>2. cat' = [q \in DOMAIN cat \cup {s} |-> IF q = s THEN content'[s] ELSE cat[q]]
      BY <1>2, <1>3, <1>5
    <2>3. Catalog!Publish(s, content'[s])
      BY <1>3, <2>2 DEF Catalog!Publish
    <2> QED
      BY <2>1, <2>3 DEF Catalog!Next
  <1>6. ASSUME NEW s \in rows, rows' = rows \ {s} PROVE Catalog!Next
    <2>1. cat' = [q \in DOMAIN cat \ {s} |-> cat[q]]
      BY <1>2, <1>3, <1>6
    <2>2. Catalog!Withdraw(s) /\ s \in Run
      BY <1>3, <2>1 DEF Catalog!Withdraw, StoreInv, TypeInv, TypeOK, StoreType
    <2> QED
      BY <2>2 DEF Catalog!Next
  <1> QED
    BY <1>4, <1>5, <1>6, RowsStep

\* The store implements the catalog: what readers see changes by whole
\* snapshots only.
THEOREM Refinement == Spec => RefinesCatalog
  <1>1. Init => Catalog!Init
    BY CatalogInit
  <1>2. StoreInv /\ StoreInv' /\ [Next]_vars
          => [Catalog!Next]_([s \in rows |-> ManifestRefs(s)])
    BY CatalogStep
  <1> QED
    BY <1>1, <1>2, StoreInvariant, PTL DEF Spec, RefinesCatalog, Catalog!Spec
-----------------------------------------------------------------------------
(***************************************************************************)
(* What a snapshot misses was released, and what is kept without one was   *)
(* left by a task that stopped: for any number of runs, REST callers,      *)
(* jobs, repositories and blocks, and any interleaving, error or crash.    *)
(*                                                                         *)
(* Both need to know what a task has in its hands.  A deletion releases    *)
(* and deletes blocks of its target only (Suffix, Orphaned), and a run     *)
(* works on the last block of its list (AtHead).  With that, a block that  *)
(* one run alone has used is safe until its own row is gone (Alone), and   *)
(* a block nobody released is where its users look for it (Kept).  That a  *)
(* refcount does not outlive its manifests is a matter of counting: it is  *)
(* at most the number of manifest entries that have not been released yet  *)
(* (Counted); a deletion begins with all of its target's (ManifestRead).   *)
(***************************************************************************)
\* The history variable says who has the block in its list.
UsersExact == \A b \in Block : \A r \in Run : r \in users[b] <=> b \in Blocks(r)

\* A run works on the last block of its list.
Working(r) == pc[r] \in {"write", "record"}
AtHead ==
    \A r \in Run : Working(r) =>
        /\ content[r] # <<>>
        /\ content[r][Len(content[r])] = Head(todo[r])

\* What a deletion has still to release is the end of its target's manifest.
EndOf(t, s) ==
    /\ Len(t) <= Len(content[s])
    /\ \A i \in 1..Len(t) : t[i] = content[s][Len(content[s]) - Len(t) + i]
Suffix ==
    /\ \A a \in Actor : pc[a] \in {"wait"} \cup Deleting => target[a] \in Run
    /\ \A a \in Actor : pc[a] \in {"gcrow", "gcrefs"} => EndOf(todo[a], target[a])

\* What a deletion will delete are released blocks of its target.
Orphaned ==
    \A a \in Actor : orphans[a] # <<>> =>
        /\ pc[a] \in {"gcrefs", "gcindex", "gcphys"}
        /\ target[a] \in Run
        /\ BlocksIn(orphans[a]) \subseteq Blocks(target[a]) \cap released

\* A run whose blocks are needed: it is collecting, or listed.
Needed(r) == r \in rows \/ pc[r] \in Collecting

\* The run has looked the block up and not yet written, or recorded it.
Unwritten(r, b) == pc[r] = "write" /\ Head(todo[r]) = b
Unrecorded(r, b) == pc[r] = "record" /\ Head(todo[r]) = b

\* A block with a refcount has users; a block with one user is there for it.
Alone ==
    /\ \A b \in Block : refs[b] > 0 => users[b] # {}
    /\ \A r \in Run : \A b \in Block : Needed(r) /\ users[b] = {r} =>
            /\ b \in stored[RepoOfRun(r)] \/ Unwritten(r, b)
            /\ refs[b] > 0 \/ Unwritten(r, b) \/ Unrecorded(r, b)

\* The block's users are runs into one repository, and nobody has released it.
Undisturbed(b, p) == b \notin released /\ \A q \in users[b] : RepoOfRun(q) = p

Kept ==
    \A p \in Repo : \A b \in Block : Undisturbed(b, p) =>
        /\ refs[b] > 0 => b \in stored[p]
        /\ \A r \in Run : Needed(r) /\ r \in users[b] => b \in stored[p] \/ Unwritten(r, b)

\* A run that has started has a job, and so a repository.
Assigned == \A r \in Run : pc[r] # "new" => jobOf[r] \in Job

BaseInv == StoreInv /\ Assigned
HandsInv == BaseInv /\ UsersExact /\ AtHead /\ Suffix /\ Orphaned
LossInv == HandsInv /\ Alone /\ Kept

\* The manifest entries for a block, those that a run has recorded or a manifest
\* lists, and those of them that no deletion under way has released.
Entries(b) == {x \in Run \X Nat : x[2] \in 1..Len(content[x[1]]) /\ content[x[1]][x[2]] = b}
Counts(s, i) ==
    /\ s \in saved \/ pc[s] \in Collecting
    /\ ~(Working(s) /\ i = Len(content[s]))
    /\ \A a \in Actor : pc[a] = "gcrefs" /\ target[a] = s => i > Len(content[s]) - Len(todo[a])
Counting(b) == {x \in Entries(b) : Counts(x[1], x[2])}

Counted ==
    \A b \in Block :
        /\ IsFiniteSet(Entries(b))
        /\ b \notin debris => refs[b] <= Cardinality(Counting(b))

\* A deletion that has not begun to release has its target's whole manifest.
ManifestRead ==
    \A a \in Actor : pc[a] = "gcrow" /\ target[a] \in saved => todo[a] = content[target[a]]

LeakInv == HandsInv /\ ManifestRead /\ Counted /\ BytesExplained

\* The groups of variables are expanded throughout.
USE DEF indexVars, dbVars, runVars, taskVars, history
-----------------------------------------------------------------------------
(***************************************************************************)
(* What the tasks have in their hands.                                     *)
(***************************************************************************)

LEMMA Types ==
    ASSUME StoreInv
    PROVE  /\ refs \in [Block -> Nat] /\ saved \subseteq Run /\ rows \subseteq Run
           /\ stored \in [Repo -> SUBSET Block] /\ content \in [Run -> Seq(Block)]
           /\ jobOf \in [Run -> Job \cup {NoJob}] /\ pc \in [Actor -> PC]
           /\ todo \in [Actor -> Seq(Block)] /\ orphans \in [Actor -> Seq(Block)]
           /\ target \in [Actor -> Run \cup {0}] /\ prune \in [Actor -> SUBSET Run]
           /\ users \in [Block -> SUBSET Run] /\ released \subseteq Block /\ debris \subseteq Block
           /\ Run \subseteq Actor /\ Client \subseteq Actor
  BY Actors DEF StoreInv, TypeInv, TypeOK, StoreType, RunType, TaskType, HistoryType

LEMMA BaseNext == BaseInv /\ [Next]_vars => BaseInv'
  <1> SUFFICES ASSUME BaseInv, [Next]_vars PROVE BaseInv'
    OBVIOUS
  <1>1. StoreInv'
    BY StoreNext DEF BaseInv
  <1>2. pc \in [Actor -> PC] /\ jobOf \in [Run -> Job \cup {NoJob}]
    BY Types DEF BaseInv
  <1> USE Actors DEF BaseInv, Assigned
  <1>3. ASSUME NEW r \in Run, NEW j \in Job, NEW src \in Source, StartRun(r, j, src) PROVE Assigned'
    BY <1>2, <1>3 DEF StartRun
  <1>4. ASSUME jobOf' = jobOf, \A r \in Run : pc'[r] # "new" => pc[r] # "new" PROVE Assigned'
    BY <1>4
  <1>5. ASSUME NEW r \in Run, RunStep(r) PROVE Assigned'
    <2>1. ASSUME ~\E j \in Job, src \in Source : StartRun(r, j, src)
          PROVE  jobOf' = jobOf /\ \A q \in Run : pc'[q] # "new" => pc[q] # "new"
      BY <1>2, <1>5, <2>1 DEF RunStep, LookUp, WriteBlock, RecordBlock, SaveManifest, AddToIndex, InsertRow,
         UpdateRepoUsed, SelectPrune, PruneNext
    <2> QED
      BY <1>3, <1>4, <2>1
  <1>6. ASSUME NEW c \in Client, ClientStep(c) PROVE Assigned'
    BY <1>2, <1>4, <1>6 DEF ClientStep, RequestDelete, BeginDelete
  <1>7. ASSUME NEW a \in Actor, DeleteStep(a) \/ Stop(a) PROVE Assigned'
    BY <1>2, <1>4, <1>7 DEF DeleteStep, DeleteRow, ReleaseRef, DeleteManifest, DeleteIndexRow, DeleteBlock,
       EndDelete, Stop
  <1>8. ASSUME Crash PROVE Assigned'
    <2>1. \A r \in Run : pc'[r] # "new" => pc[r] # "new"
      BY <1>8 DEF Crash
    <2>2. jobOf' = jobOf
      BY <1>8 DEF Crash
    <2> QED
      BY <1>4, <2>1, <2>2
  <1>9. ASSUME NEW s \in Run, PlaceHold(s) \/ ReleaseHold(s) PROVE Assigned'
    BY <1>4, <1>9 DEF PlaceHold, ReleaseHold
  <1>10. ASSUME UNCHANGED vars PROVE Assigned'
    <2>1. jobOf' = jobOf /\ pc' = pc
      BY <1>10 DEF vars
    <2> QED
      BY <1>4, <2>1
  <1> QED
    BY <1>1, <1>5, <1>6, <1>7, <1>8, <1>9, <1>10 DEF Next

\* A task that works on a block has one.
LEMMA HeadBlock ==
    ASSUME StoreInv, NEW a \in Actor, todo[a] # <<>>
    PROVE  /\ Head(todo[a]) \in Block /\ Tail(todo[a]) \in Seq(Block)
           /\ Len(todo[a]) \in Nat /\ Len(todo[a]) > 0 /\ Len(Tail(todo[a])) = Len(todo[a]) - 1
           /\ Head(todo[a]) = todo[a][1]
           /\ \A i \in 1..Len(Tail(todo[a])) : Tail(todo[a])[i] = todo[a][i + 1]
  <1>1. todo[a] \in Seq(Block)
    BY Types
  <1> QED
    BY <1>1, HeadTailProperties

LEMMA BlocksInAppend ==
    ASSUME NEW t \in Seq(Block), NEW b \in Block
    PROVE  BlocksIn(Append(t, b)) = BlocksIn(t) \cup {b}
  <1>1. /\ Len(t) \in Nat /\ Len(Append(t, b)) = Len(t) + 1
        /\ \A i \in 1..Len(t) : Append(t, b)[i] = t[i]
        /\ Append(t, b)[Len(t) + 1] = b
    BY AppendProperties
  <1>2. 1..(Len(t) + 1) = (1..Len(t)) \cup {Len(t) + 1}
    BY <1>1
  <1> QED
    BY <1>1, <1>2 DEF BlocksIn

LEMMA BlocksInTail ==
    ASSUME NEW t \in Seq(Block), t # <<>>
    PROVE  BlocksIn(Tail(t)) \subseteq BlocksIn(t) /\ Head(t) \in BlocksIn(t)
           /\ BlocksIn(t) \subseteq BlocksIn(Tail(t)) \cup {Head(t)}
  <1>1. /\ Len(t) \in Nat /\ Len(t) > 0 /\ Len(Tail(t)) = Len(t) - 1 /\ Head(t) = t[1]
        /\ \A i \in 1..Len(Tail(t)) : Tail(t)[i] = t[i + 1]
    BY HeadTailProperties
  <1>2. \A i \in 1..Len(Tail(t)) : i + 1 \in 1..Len(t)
    BY <1>1
  <1>3. 1 \in 1..Len(t) /\ \A i \in 1..Len(t) : i = 1 \/ (i - 1 \in 1..Len(Tail(t)) /\ i - 1 + 1 = i)
    BY <1>1
  <1> QED
    <2>1. BlocksIn(Tail(t)) \subseteq BlocksIn(t)
      BY <1>1, <1>2 DEF BlocksIn
    <2>2. Head(t) \in BlocksIn(t)
      BY <1>1, <1>3 DEF BlocksIn
    <2>3. ASSUME NEW i \in 1..Len(t) PROVE t[i] \in BlocksIn(Tail(t)) \cup {Head(t)}
      <3>1. CASE i = 1
        BY <1>1, <3>1
      <3>2. CASE i - 1 \in 1..Len(Tail(t)) /\ i - 1 + 1 = i
        <4>1. Tail(t)[i - 1] = t[i]
          BY <1>1, <3>2
        <4> QED
          BY <3>2, <4>1 DEF BlocksIn
      <3> QED
        BY <1>3, <3>1, <3>2
    <2>4. BlocksIn(t) \subseteq BlocksIn(Tail(t)) \cup {Head(t)}
      BY <2>3 DEF BlocksIn
    <2> QED
      BY <2>1, <2>2, <2>4

LEMMA HandsInit == Init => HandsInv
  <1> SUFFICES ASSUME Init PROVE HandsInv
    OBVIOUS
  <1>1. UsersExact
    <2>1. ASSUME NEW r \in Run PROVE Blocks(r) = {}
      <3>1. Len(content[r]) = 0
        BY DEF Init
      <3> QED
        BY <3>1 DEF Blocks
    <2> QED
      BY <2>1 DEF Init, UsersExact
  <1>2. AtHead /\ Suffix /\ Orphaned
    BY Actors DEF Init, AtHead, Working, Suffix, Deleting, Orphaned
  <1> QED
    <2>1. Assigned
      BY Actors DEF Init, Assigned
    <2> QED
      BY <1>1, <1>2, <2>1, StoreInit DEF HandsInv, BaseInv


\* A step in which no run takes up a block, and no deletion a target or a block,
\* but as the two hypotheses say.
LEMMA HandsFrame ==
    ASSUME HandsInv, BaseInv', UNCHANGED <<content, users>>, released \subseteq released',
           \A r \in Run : Working(r)' => Working(r) /\ todo'[r] = todo[r],
           \A a \in Actor : pc'[a] \in {"wait"} \cup Deleting => target'[a] \in Run,
           \A a \in Actor : pc'[a] \in {"gcrow", "gcrefs"} => EndOf(todo'[a], target'[a]),
           \A a \in Actor : orphans'[a] # <<>> =>
                /\ pc'[a] \in {"gcrefs", "gcindex", "gcphys"}
                /\ orphans'[a] = orphans[a] /\ target'[a] = target[a]
    PROVE  HandsInv'
  <1> USE DEF HandsInv, BaseInv
  <1>1. \A r : Blocks(r)' = Blocks(r)
    BY DEF Blocks
  <1>2. UsersExact'
    BY <1>1 DEF UsersExact
  <1>3. AtHead'
    BY DEF AtHead
  <1>4. Suffix'
    BY DEF Suffix, EndOf
  <1>5. Orphaned'
    <2> SUFFICES ASSUME NEW a \in Actor, orphans'[a] # <<>>
                 PROVE  /\ pc'[a] \in {"gcrefs", "gcindex", "gcphys"}
                        /\ target'[a] \in Run
                        /\ BlocksIn(orphans'[a]) \subseteq Blocks(target[a])' \cap released'
      BY DEF Orphaned, BlocksIn
    <2>1. /\ orphans'[a] = orphans[a] /\ target'[a] = target[a]
          /\ pc'[a] \in {"gcrefs", "gcindex", "gcphys"}
      OBVIOUS
    <2>2. target[a] \in Run /\ BlocksIn(orphans[a]) \subseteq Blocks(target[a]) \cap released
      BY <2>1 DEF Orphaned
    <2> QED
      BY <1>1, <2>1, <2>2 DEF BlocksIn
  <1> QED
    BY <1>2, <1>3, <1>4, <1>5

\* What a deletion reads of its target's manifest is an end of it.
LEMMA EndOfManifest ==
    ASSUME StoreInv, NEW s \in Run
    PROVE  EndOf(ManifestRefs(s), s) /\ EndOf(<<>>, s)
  <1>1. Len(content[s]) \in Nat
    BY Types
  <1>2. EndOf(<<>>, s)
    BY <1>1 DEF EndOf
  <1>3. \A i \in 1..Len(content[s]) : Len(content[s]) - Len(content[s]) + i = i
    BY <1>1
  <1>4. EndOf(content[s], s)
    BY <1>1, <1>3 DEF EndOf
  <1> QED
    BY <1>2, <1>4 DEF ManifestRefs

\* The rest of an end is an end.
LEMMA EndOfTail ==
    ASSUME StoreInv, NEW a \in Actor, todo[a] # <<>>, NEW s \in Run, EndOf(todo[a], s)
    PROVE  /\ EndOf(Tail(todo[a]), s) /\ Head(todo[a]) \in Blocks(s)
           /\ Head(todo[a]) = content[s][Len(content[s]) - Len(todo[a]) + 1]
  <1> DEFINE n == Len(content[s])
             m == Len(todo[a])
             t == Tail(todo[a])
  <1>0. /\ n \in Nat /\ m \in Nat /\ m > 0 /\ Len(t) = m - 1
        /\ \A i \in 1..(m - 1) : t[i] = todo[a][i + 1]
        /\ Head(todo[a]) = todo[a][1]
        /\ m <= n /\ \A i \in 1..m : todo[a][i] = content[s][n - m + i]
    BY Types, HeadBlock DEF EndOf
  <1> HIDE DEF n, m, t
  <1>1. \A i \in 1..(m - 1) : t[i] = content[s][n - (m - 1) + i]
    <2> TAKE i \in 1..(m - 1)
    <2>1. i + 1 \in 1..m /\ n - m + (i + 1) = n - (m - 1) + i
      BY <1>0
    <2> QED
      BY <1>0, <2>1
  <1>2. EndOf(Tail(todo[a]), s)
    <2>1. Len(t) <= n
      BY <1>0
    <2>2. \A i \in 1..Len(t) : t[i] = content[s][n - Len(t) + i]
      BY <1>0, <1>1
    <2> QED
      BY <2>1, <2>2 DEF EndOf, n, t
  <1>3. Head(todo[a]) = content[s][n - m + 1]
    <2>1. 1 \in 1..m
      BY <1>0
    <2> QED
      BY <1>0, <2>1
  <1>4. n - m + 1 \in 1..n
    BY <1>0
  <1> USE DEF n, m
  <1> QED
    BY <1>2, <1>3, <1>4 DEF Blocks


LEMMA HandsStartRun ==
    ASSUME HandsInv, BaseInv', NEW r \in Run, NEW j \in Job, NEW src \in Source, StartRun(r, j, src) PROVE HandsInv'
  <1> USE Actors DEF HandsInv, BaseInv
  <1>1. /\ pc \in [Actor -> PC] /\ todo \in [Actor -> Seq(Block)]
        /\ target \in [Actor -> Run \cup {0}] /\ orphans \in [Actor -> Seq(Block)]
    BY Types
  <1>2. /\ \A x \in Actor : orphans[x] # <<>> => pc[x] \in {"gcrefs", "gcindex", "gcphys"}
        /\ \A x \in Actor : pc[x] \in {"gcrow", "gcrefs"} => EndOf(todo[x], target[x])
        /\ \A x \in Actor : pc[x] \in {"wait"} \cup Deleting => target[x] \in Run
    BY DEF Orphaned, Suffix
  <1>3. UNCHANGED <<content, users>> /\ released \subseteq released'
    BY DEF StartRun
  <1>4. \A x \in Run : Working(x)' => Working(x) /\ todo'[x] = todo[x]
    BY <1>1 DEF Working, StartRun
  <1>5. \A x \in Actor : pc'[x] \in {"wait"} \cup Deleting => target'[x] \in Run
    BY <1>1, <1>2 DEF Deleting, StartRun
  <1>6. \A x \in Actor : pc'[x] \in {"gcrow", "gcrefs"} => EndOf(todo'[x], target'[x])
    BY <1>1, <1>2 DEF StartRun
  <1>7. \A x \in Actor : orphans'[x] # <<>> =>
            /\ pc'[x] \in {"gcrefs", "gcindex", "gcphys"}
            /\ orphans'[x] = orphans[x] /\ target'[x] = target[x]
    BY <1>1, <1>2 DEF StartRun
  <1> QED
    BY <1>3, <1>4, <1>5, <1>6, <1>7, HandsFrame


LEMMA HandsWriteBlock ==
    ASSUME HandsInv, BaseInv', NEW r \in Run, WriteBlock(r) PROVE HandsInv'
  <1> USE Actors DEF HandsInv, BaseInv
  <1>1. /\ pc \in [Actor -> PC] /\ todo \in [Actor -> Seq(Block)]
        /\ target \in [Actor -> Run \cup {0}] /\ orphans \in [Actor -> Seq(Block)]
    BY Types
  <1>2. /\ \A x \in Actor : orphans[x] # <<>> => pc[x] \in {"gcrefs", "gcindex", "gcphys"}
        /\ \A x \in Actor : pc[x] \in {"gcrow", "gcrefs"} => EndOf(todo[x], target[x])
        /\ \A x \in Actor : pc[x] \in {"wait"} \cup Deleting => target[x] \in Run
    BY DEF Orphaned, Suffix
  <1>3. UNCHANGED <<content, users>> /\ released \subseteq released'
    BY DEF WriteBlock
  <1>4. \A x \in Run : Working(x)' => Working(x) /\ todo'[x] = todo[x]
    BY <1>1 DEF Working, WriteBlock
  <1>5. \A x \in Actor : pc'[x] \in {"wait"} \cup Deleting => target'[x] \in Run
    BY <1>1, <1>2 DEF Deleting, WriteBlock
  <1>6. \A x \in Actor : pc'[x] \in {"gcrow", "gcrefs"} => EndOf(todo'[x], target'[x])
    BY <1>1, <1>2 DEF WriteBlock
  <1>7. \A x \in Actor : orphans'[x] # <<>> =>
            /\ pc'[x] \in {"gcrefs", "gcindex", "gcphys"}
            /\ orphans'[x] = orphans[x] /\ target'[x] = target[x]
    BY <1>1, <1>2 DEF WriteBlock
  <1> QED
    BY <1>3, <1>4, <1>5, <1>6, <1>7, HandsFrame


LEMMA HandsRecordBlock ==
    ASSUME HandsInv, BaseInv', NEW r \in Run, RecordBlock(r) PROVE HandsInv'
  <1> USE Actors DEF HandsInv, BaseInv
  <1>1. /\ pc \in [Actor -> PC] /\ todo \in [Actor -> Seq(Block)]
        /\ target \in [Actor -> Run \cup {0}] /\ orphans \in [Actor -> Seq(Block)]
    BY Types
  <1>2. /\ \A x \in Actor : orphans[x] # <<>> => pc[x] \in {"gcrefs", "gcindex", "gcphys"}
        /\ \A x \in Actor : pc[x] \in {"gcrow", "gcrefs"} => EndOf(todo[x], target[x])
        /\ \A x \in Actor : pc[x] \in {"wait"} \cup Deleting => target[x] \in Run
    BY DEF Orphaned, Suffix
  <1>3. UNCHANGED <<content, users>> /\ released \subseteq released'
    BY DEF RecordBlock
  <1>4. \A x \in Run : Working(x)' => Working(x) /\ todo'[x] = todo[x]
    BY <1>1 DEF Working, RecordBlock, NextChunk
  <1>5. \A x \in Actor : pc'[x] \in {"wait"} \cup Deleting => target'[x] \in Run
    BY <1>1, <1>2 DEF Deleting, RecordBlock, NextChunk
  <1>6. \A x \in Actor : pc'[x] \in {"gcrow", "gcrefs"} => EndOf(todo'[x], target'[x])
    BY <1>1, <1>2 DEF RecordBlock, NextChunk
  <1>7. \A x \in Actor : orphans'[x] # <<>> =>
            /\ pc'[x] \in {"gcrefs", "gcindex", "gcphys"}
            /\ orphans'[x] = orphans[x] /\ target'[x] = target[x]
    BY <1>1, <1>2 DEF RecordBlock, NextChunk
  <1> QED
    BY <1>3, <1>4, <1>5, <1>6, <1>7, HandsFrame


LEMMA HandsSaveManifest ==
    ASSUME HandsInv, BaseInv', NEW r \in Run, SaveManifest(r) PROVE HandsInv'
  <1> USE Actors DEF HandsInv, BaseInv
  <1>1. /\ pc \in [Actor -> PC] /\ todo \in [Actor -> Seq(Block)]
        /\ target \in [Actor -> Run \cup {0}] /\ orphans \in [Actor -> Seq(Block)]
    BY Types
  <1>2. /\ \A x \in Actor : orphans[x] # <<>> => pc[x] \in {"gcrefs", "gcindex", "gcphys"}
        /\ \A x \in Actor : pc[x] \in {"gcrow", "gcrefs"} => EndOf(todo[x], target[x])
        /\ \A x \in Actor : pc[x] \in {"wait"} \cup Deleting => target[x] \in Run
    BY DEF Orphaned, Suffix
  <1>3. UNCHANGED <<content, users>> /\ released \subseteq released'
    BY DEF SaveManifest
  <1>4. \A x \in Run : Working(x)' => Working(x) /\ todo'[x] = todo[x]
    BY <1>1 DEF Working, SaveManifest
  <1>5. \A x \in Actor : pc'[x] \in {"wait"} \cup Deleting => target'[x] \in Run
    BY <1>1, <1>2 DEF Deleting, SaveManifest
  <1>6. \A x \in Actor : pc'[x] \in {"gcrow", "gcrefs"} => EndOf(todo'[x], target'[x])
    BY <1>1, <1>2 DEF SaveManifest
  <1>7. \A x \in Actor : orphans'[x] # <<>> =>
            /\ pc'[x] \in {"gcrefs", "gcindex", "gcphys"}
            /\ orphans'[x] = orphans[x] /\ target'[x] = target[x]
    BY <1>1, <1>2 DEF SaveManifest
  <1> QED
    BY <1>3, <1>4, <1>5, <1>6, <1>7, HandsFrame


LEMMA HandsAddToIndex ==
    ASSUME HandsInv, BaseInv', NEW r \in Run, AddToIndex(r) PROVE HandsInv'
  <1> USE Actors DEF HandsInv, BaseInv
  <1>1. /\ pc \in [Actor -> PC] /\ todo \in [Actor -> Seq(Block)]
        /\ target \in [Actor -> Run \cup {0}] /\ orphans \in [Actor -> Seq(Block)]
    BY Types
  <1>2. /\ \A x \in Actor : orphans[x] # <<>> => pc[x] \in {"gcrefs", "gcindex", "gcphys"}
        /\ \A x \in Actor : pc[x] \in {"gcrow", "gcrefs"} => EndOf(todo[x], target[x])
        /\ \A x \in Actor : pc[x] \in {"wait"} \cup Deleting => target[x] \in Run
    BY DEF Orphaned, Suffix
  <1>3. UNCHANGED <<content, users>> /\ released \subseteq released'
    BY DEF AddToIndex
  <1>4. \A x \in Run : Working(x)' => Working(x) /\ todo'[x] = todo[x]
    BY <1>1 DEF Working, AddToIndex
  <1>5. \A x \in Actor : pc'[x] \in {"wait"} \cup Deleting => target'[x] \in Run
    BY <1>1, <1>2 DEF Deleting, AddToIndex
  <1>6. \A x \in Actor : pc'[x] \in {"gcrow", "gcrefs"} => EndOf(todo'[x], target'[x])
    BY <1>1, <1>2 DEF AddToIndex
  <1>7. \A x \in Actor : orphans'[x] # <<>> =>
            /\ pc'[x] \in {"gcrefs", "gcindex", "gcphys"}
            /\ orphans'[x] = orphans[x] /\ target'[x] = target[x]
    BY <1>1, <1>2 DEF AddToIndex
  <1> QED
    BY <1>3, <1>4, <1>5, <1>6, <1>7, HandsFrame


LEMMA HandsInsertRow ==
    ASSUME HandsInv, BaseInv', NEW r \in Run, InsertRow(r) PROVE HandsInv'
  <1> USE Actors DEF HandsInv, BaseInv
  <1>1. /\ pc \in [Actor -> PC] /\ todo \in [Actor -> Seq(Block)]
        /\ target \in [Actor -> Run \cup {0}] /\ orphans \in [Actor -> Seq(Block)]
    BY Types
  <1>2. /\ \A x \in Actor : orphans[x] # <<>> => pc[x] \in {"gcrefs", "gcindex", "gcphys"}
        /\ \A x \in Actor : pc[x] \in {"gcrow", "gcrefs"} => EndOf(todo[x], target[x])
        /\ \A x \in Actor : pc[x] \in {"wait"} \cup Deleting => target[x] \in Run
    BY DEF Orphaned, Suffix
  <1>3. UNCHANGED <<content, users>> /\ released \subseteq released'
    BY DEF InsertRow
  <1>4. \A x \in Run : Working(x)' => Working(x) /\ todo'[x] = todo[x]
    BY <1>1 DEF Working, InsertRow
  <1>5. \A x \in Actor : pc'[x] \in {"wait"} \cup Deleting => target'[x] \in Run
    BY <1>1, <1>2 DEF Deleting, InsertRow
  <1>6. \A x \in Actor : pc'[x] \in {"gcrow", "gcrefs"} => EndOf(todo'[x], target'[x])
    BY <1>1, <1>2 DEF InsertRow
  <1>7. \A x \in Actor : orphans'[x] # <<>> =>
            /\ pc'[x] \in {"gcrefs", "gcindex", "gcphys"}
            /\ orphans'[x] = orphans[x] /\ target'[x] = target[x]
    BY <1>1, <1>2 DEF InsertRow
  <1> QED
    BY <1>3, <1>4, <1>5, <1>6, <1>7, HandsFrame


LEMMA HandsUpdateRepoUsed ==
    ASSUME HandsInv, BaseInv', NEW r \in Run, UpdateRepoUsed(r) PROVE HandsInv'
  <1> USE Actors DEF HandsInv, BaseInv
  <1>1. /\ pc \in [Actor -> PC] /\ todo \in [Actor -> Seq(Block)]
        /\ target \in [Actor -> Run \cup {0}] /\ orphans \in [Actor -> Seq(Block)]
    BY Types
  <1>2. /\ \A x \in Actor : orphans[x] # <<>> => pc[x] \in {"gcrefs", "gcindex", "gcphys"}
        /\ \A x \in Actor : pc[x] \in {"gcrow", "gcrefs"} => EndOf(todo[x], target[x])
        /\ \A x \in Actor : pc[x] \in {"wait"} \cup Deleting => target[x] \in Run
    BY DEF Orphaned, Suffix
  <1>3. UNCHANGED <<content, users>> /\ released \subseteq released'
    BY DEF UpdateRepoUsed
  <1>4. \A x \in Run : Working(x)' => Working(x) /\ todo'[x] = todo[x]
    BY <1>1 DEF Working, UpdateRepoUsed
  <1>5. \A x \in Actor : pc'[x] \in {"wait"} \cup Deleting => target'[x] \in Run
    BY <1>1, <1>2 DEF Deleting, UpdateRepoUsed
  <1>6. \A x \in Actor : pc'[x] \in {"gcrow", "gcrefs"} => EndOf(todo'[x], target'[x])
    BY <1>1, <1>2 DEF UpdateRepoUsed
  <1>7. \A x \in Actor : orphans'[x] # <<>> =>
            /\ pc'[x] \in {"gcrefs", "gcindex", "gcphys"}
            /\ orphans'[x] = orphans[x] /\ target'[x] = target[x]
    BY <1>1, <1>2 DEF UpdateRepoUsed
  <1> QED
    BY <1>3, <1>4, <1>5, <1>6, <1>7, HandsFrame


LEMMA HandsSelectPrune ==
    ASSUME HandsInv, BaseInv', NEW r \in Run, NEW keep \in SUBSET rows, SelectPrune(r, keep) PROVE HandsInv'
  <1> USE Actors DEF HandsInv, BaseInv
  <1>1. /\ pc \in [Actor -> PC] /\ todo \in [Actor -> Seq(Block)]
        /\ target \in [Actor -> Run \cup {0}] /\ orphans \in [Actor -> Seq(Block)]
    BY Types
  <1>2. /\ \A x \in Actor : orphans[x] # <<>> => pc[x] \in {"gcrefs", "gcindex", "gcphys"}
        /\ \A x \in Actor : pc[x] \in {"gcrow", "gcrefs"} => EndOf(todo[x], target[x])
        /\ \A x \in Actor : pc[x] \in {"wait"} \cup Deleting => target[x] \in Run
    BY DEF Orphaned, Suffix
  <1>3. UNCHANGED <<content, users>> /\ released \subseteq released'
    BY DEF SelectPrune
  <1>4. \A x \in Run : Working(x)' => Working(x) /\ todo'[x] = todo[x]
    BY <1>1 DEF Working, SelectPrune
  <1>5. \A x \in Actor : pc'[x] \in {"wait"} \cup Deleting => target'[x] \in Run
    BY <1>1, <1>2 DEF Deleting, SelectPrune
  <1>6. \A x \in Actor : pc'[x] \in {"gcrow", "gcrefs"} => EndOf(todo'[x], target'[x])
    BY <1>1, <1>2 DEF SelectPrune
  <1>7. \A x \in Actor : orphans'[x] # <<>> =>
            /\ pc'[x] \in {"gcrefs", "gcindex", "gcphys"}
            /\ orphans'[x] = orphans[x] /\ target'[x] = target[x]
    BY <1>1, <1>2 DEF SelectPrune
  <1> QED
    BY <1>3, <1>4, <1>5, <1>6, <1>7, HandsFrame


LEMMA HandsPruneNext ==
    ASSUME HandsInv, BaseInv', NEW r \in Run, PruneNext(r) PROVE HandsInv'
  <1> USE Actors DEF HandsInv, BaseInv
  <1>1. /\ pc \in [Actor -> PC] /\ todo \in [Actor -> Seq(Block)]
        /\ target \in [Actor -> Run \cup {0}] /\ orphans \in [Actor -> Seq(Block)]
    BY Types
  <1>2. /\ \A x \in Actor : orphans[x] # <<>> => pc[x] \in {"gcrefs", "gcindex", "gcphys"}
        /\ \A x \in Actor : pc[x] \in {"gcrow", "gcrefs"} => EndOf(todo[x], target[x])
        /\ \A x \in Actor : pc[x] \in {"wait"} \cup Deleting => target[x] \in Run
    BY DEF Orphaned, Suffix
  <1>3. UNCHANGED <<content, users>> /\ released \subseteq released'
    BY DEF PruneNext
  <1>4. \A x \in Run : Working(x)' => Working(x) /\ todo'[x] = todo[x]
    BY <1>1 DEF Working, PruneNext
  <1>5. \A x \in Actor : pc'[x] \in {"wait"} \cup Deleting => target'[x] \in Run
    BY <1>1, <1>2 DEF Deleting, PruneNext
  <1>6. \A x \in Actor : pc'[x] \in {"gcrow", "gcrefs"} => EndOf(todo'[x], target'[x])
    <2>1. CASE prune[r] = {}
      BY <1>1, <1>2, <2>1 DEF PruneNext
    <2>2. CASE prune[r] # {}
      <3>1. PICK s \in Run : /\ target' = [target EXCEPT ![r] = s]
                             /\ todo' = [todo EXCEPT ![r] = ManifestRefs(s)]
                             /\ pc' = [pc EXCEPT ![r] = "gcrow"]
        BY <2>2 DEF PruneNext
      <3>2. EndOf(ManifestRefs(s), s)
        BY EndOfManifest
      <3> QED
        BY <1>1, <1>2, <3>1, <3>2
    <2> QED
      BY <2>1, <2>2
  <1>7. \A x \in Actor : orphans'[x] # <<>> =>
            /\ pc'[x] \in {"gcrefs", "gcindex", "gcphys"}
            /\ orphans'[x] = orphans[x] /\ target'[x] = target[x]
    BY <1>1, <1>2 DEF PruneNext
  <1> QED
    BY <1>3, <1>4, <1>5, <1>6, <1>7, HandsFrame


LEMMA HandsRequestDelete ==
    ASSUME HandsInv, BaseInv', NEW c \in Client, NEW s \in Run, RequestDelete(c, s) PROVE HandsInv'
  <1> USE Actors DEF HandsInv, BaseInv
  <1>1. /\ pc \in [Actor -> PC] /\ todo \in [Actor -> Seq(Block)]
        /\ target \in [Actor -> Run \cup {0}] /\ orphans \in [Actor -> Seq(Block)]
    BY Types
  <1>2. /\ \A x \in Actor : orphans[x] # <<>> => pc[x] \in {"gcrefs", "gcindex", "gcphys"}
        /\ \A x \in Actor : pc[x] \in {"gcrow", "gcrefs"} => EndOf(todo[x], target[x])
        /\ \A x \in Actor : pc[x] \in {"wait"} \cup Deleting => target[x] \in Run
    BY DEF Orphaned, Suffix
  <1>3. UNCHANGED <<content, users>> /\ released \subseteq released'
    BY DEF RequestDelete
  <1>4. \A x \in Run : Working(x)' => Working(x) /\ todo'[x] = todo[x]
    BY <1>1 DEF Working, RequestDelete
  <1>5. \A x \in Actor : pc'[x] \in {"wait"} \cup Deleting => target'[x] \in Run
    BY <1>1, <1>2 DEF Deleting, RequestDelete
  <1>6. \A x \in Actor : pc'[x] \in {"gcrow", "gcrefs"} => EndOf(todo'[x], target'[x])
    BY <1>1, <1>2 DEF RequestDelete
  <1>7. \A x \in Actor : orphans'[x] # <<>> =>
            /\ pc'[x] \in {"gcrefs", "gcindex", "gcphys"}
            /\ orphans'[x] = orphans[x] /\ target'[x] = target[x]
    BY <1>1, <1>2 DEF RequestDelete
  <1> QED
    BY <1>3, <1>4, <1>5, <1>6, <1>7, HandsFrame


LEMMA HandsBeginDelete ==
    ASSUME HandsInv, BaseInv', NEW c \in Client, BeginDelete(c) PROVE HandsInv'
  <1> USE Actors DEF HandsInv, BaseInv
  <1>1. /\ pc \in [Actor -> PC] /\ todo \in [Actor -> Seq(Block)]
        /\ target \in [Actor -> Run \cup {0}] /\ orphans \in [Actor -> Seq(Block)]
    BY Types
  <1>2. /\ \A x \in Actor : orphans[x] # <<>> => pc[x] \in {"gcrefs", "gcindex", "gcphys"}
        /\ \A x \in Actor : pc[x] \in {"gcrow", "gcrefs"} => EndOf(todo[x], target[x])
        /\ \A x \in Actor : pc[x] \in {"wait"} \cup Deleting => target[x] \in Run
    BY DEF Orphaned, Suffix
  <1>3. UNCHANGED <<content, users>> /\ released \subseteq released'
    BY DEF BeginDelete
  <1>4. \A x \in Run : Working(x)' => Working(x) /\ todo'[x] = todo[x]
    BY <1>1 DEF Working, BeginDelete
  <1>5. \A x \in Actor : pc'[x] \in {"wait"} \cup Deleting => target'[x] \in Run
    BY <1>1, <1>2 DEF Deleting, BeginDelete
  <1>6. \A x \in Actor : pc'[x] \in {"gcrow", "gcrefs"} => EndOf(todo'[x], target'[x])
    BY <1>1, <1>2, EndOfManifest DEF BeginDelete
  <1>7. \A x \in Actor : orphans'[x] # <<>> =>
            /\ pc'[x] \in {"gcrefs", "gcindex", "gcphys"}
            /\ orphans'[x] = orphans[x] /\ target'[x] = target[x]
    BY <1>1, <1>2 DEF BeginDelete
  <1> QED
    BY <1>3, <1>4, <1>5, <1>6, <1>7, HandsFrame


LEMMA HandsDeleteRow ==
    ASSUME HandsInv, BaseInv', NEW a \in Actor, DeleteRow(a) PROVE HandsInv'
  <1> USE Actors DEF HandsInv, BaseInv
  <1>1. /\ pc \in [Actor -> PC] /\ todo \in [Actor -> Seq(Block)]
        /\ target \in [Actor -> Run \cup {0}] /\ orphans \in [Actor -> Seq(Block)]
    BY Types
  <1>2. /\ \A x \in Actor : orphans[x] # <<>> => pc[x] \in {"gcrefs", "gcindex", "gcphys"}
        /\ \A x \in Actor : pc[x] \in {"gcrow", "gcrefs"} => EndOf(todo[x], target[x])
        /\ \A x \in Actor : pc[x] \in {"wait"} \cup Deleting => target[x] \in Run
    BY DEF Orphaned, Suffix
  <1>3. UNCHANGED <<content, users>> /\ released \subseteq released'
    BY DEF DeleteRow
  <1>4. \A x \in Run : Working(x)' => Working(x) /\ todo'[x] = todo[x]
    BY <1>1 DEF Working, DeleteRow, Halted
  <1>5. \A x \in Actor : pc'[x] \in {"wait"} \cup Deleting => target'[x] \in Run
    <2>1. Halted(a) \notin {"wait"} \cup Deleting
      BY DEF Halted, Deleting
    <2>2. /\ \A x \in Actor \ {a} : pc'[x] = pc[x] /\ target'[x] = target[x]
          /\ pc'[a] = Halted(a) \/ target'[a] = target[a]
      BY <1>1 DEF DeleteRow
    <2>4. pc[a] \in Deleting
      BY DEF DeleteRow, Deleting
    <2>3. pc'[a] \in {"wait"} \cup Deleting => target'[a] \in Run
      BY <1>2, <2>1, <2>2, <2>4
    <2> QED
      BY <1>2, <2>2, <2>3
  <1>6. \A x \in Actor : pc'[x] \in {"gcrow", "gcrefs"} => EndOf(todo'[x], target'[x])
    <2>1. \A x \in Actor : pc'[x] \in {"gcrow", "gcrefs"} =>
              pc[x] \in {"gcrow", "gcrefs"} /\ todo'[x] = todo[x] /\ target'[x] = target[x]
      BY <1>1 DEF DeleteRow, Halted
    <2> QED
      BY <1>2, <2>1
  <1>7. \A x \in Actor : orphans'[x] # <<>> =>
            /\ pc'[x] \in {"gcrefs", "gcindex", "gcphys"}
            /\ orphans'[x] = orphans[x] /\ target'[x] = target[x]
    BY <1>1, <1>2 DEF DeleteRow, Halted
  <1> QED
    BY <1>3, <1>4, <1>5, <1>6, <1>7, HandsFrame


LEMMA HandsDeleteManifest ==
    ASSUME HandsInv, BaseInv', NEW a \in Actor, DeleteManifest(a) PROVE HandsInv'
  <1> USE Actors DEF HandsInv, BaseInv
  <1>1. /\ pc \in [Actor -> PC] /\ todo \in [Actor -> Seq(Block)]
        /\ target \in [Actor -> Run \cup {0}] /\ orphans \in [Actor -> Seq(Block)]
    BY Types
  <1>2. /\ \A x \in Actor : orphans[x] # <<>> => pc[x] \in {"gcrefs", "gcindex", "gcphys"}
        /\ \A x \in Actor : pc[x] \in {"gcrow", "gcrefs"} => EndOf(todo[x], target[x])
        /\ \A x \in Actor : pc[x] \in {"wait"} \cup Deleting => target[x] \in Run
    BY DEF Orphaned, Suffix
  <1>3. UNCHANGED <<content, users>> /\ released \subseteq released'
    BY DEF DeleteManifest
  <1>4. \A x \in Run : Working(x)' => Working(x) /\ todo'[x] = todo[x]
    BY <1>1 DEF Working, DeleteManifest
  <1>5. \A x \in Actor : pc'[x] \in {"wait"} \cup Deleting => target'[x] \in Run
    BY <1>1, <1>2 DEF Deleting, DeleteManifest
  <1>6. \A x \in Actor : pc'[x] \in {"gcrow", "gcrefs"} => EndOf(todo'[x], target'[x])
    BY <1>1, <1>2 DEF DeleteManifest
  <1>7. \A x \in Actor : orphans'[x] # <<>> =>
            /\ pc'[x] \in {"gcrefs", "gcindex", "gcphys"}
            /\ orphans'[x] = orphans[x] /\ target'[x] = target[x]
    BY <1>1, <1>2 DEF DeleteManifest
  <1> QED
    BY <1>3, <1>4, <1>5, <1>6, <1>7, HandsFrame


LEMMA HandsDeleteIndexRow ==
    ASSUME HandsInv, BaseInv', NEW a \in Actor, DeleteIndexRow(a) PROVE HandsInv'
  <1> USE Actors DEF HandsInv, BaseInv
  <1>1. /\ pc \in [Actor -> PC] /\ todo \in [Actor -> Seq(Block)]
        /\ target \in [Actor -> Run \cup {0}] /\ orphans \in [Actor -> Seq(Block)]
    BY Types
  <1>2. /\ \A x \in Actor : orphans[x] # <<>> => pc[x] \in {"gcrefs", "gcindex", "gcphys"}
        /\ \A x \in Actor : pc[x] \in {"gcrow", "gcrefs"} => EndOf(todo[x], target[x])
        /\ \A x \in Actor : pc[x] \in {"wait"} \cup Deleting => target[x] \in Run
    BY DEF Orphaned, Suffix
  <1>3. UNCHANGED <<content, users>> /\ released \subseteq released'
    BY DEF DeleteIndexRow
  <1>4. \A x \in Run : Working(x)' => Working(x) /\ todo'[x] = todo[x]
    BY <1>1 DEF Working, DeleteIndexRow
  <1>5. \A x \in Actor : pc'[x] \in {"wait"} \cup Deleting => target'[x] \in Run
    BY <1>1, <1>2 DEF Deleting, DeleteIndexRow
  <1>6. \A x \in Actor : pc'[x] \in {"gcrow", "gcrefs"} => EndOf(todo'[x], target'[x])
    BY <1>1, <1>2 DEF DeleteIndexRow
  <1>7. \A x \in Actor : orphans'[x] # <<>> =>
            /\ pc'[x] \in {"gcrefs", "gcindex", "gcphys"}
            /\ orphans'[x] = orphans[x] /\ target'[x] = target[x]
    BY <1>1, <1>2 DEF DeleteIndexRow
  <1> QED
    BY <1>3, <1>4, <1>5, <1>6, <1>7, HandsFrame


LEMMA HandsEndDelete ==
    ASSUME HandsInv, BaseInv', NEW a \in Actor, EndDelete(a) PROVE HandsInv'
  <1> USE Actors DEF HandsInv, BaseInv
  <1>1. /\ pc \in [Actor -> PC] /\ todo \in [Actor -> Seq(Block)]
        /\ target \in [Actor -> Run \cup {0}] /\ orphans \in [Actor -> Seq(Block)]
    BY Types
  <1>2. /\ \A x \in Actor : orphans[x] # <<>> => pc[x] \in {"gcrefs", "gcindex", "gcphys"}
        /\ \A x \in Actor : pc[x] \in {"gcrow", "gcrefs"} => EndOf(todo[x], target[x])
        /\ \A x \in Actor : pc[x] \in {"wait"} \cup Deleting => target[x] \in Run
    BY DEF Orphaned, Suffix
  <1>3. UNCHANGED <<content, users>> /\ released \subseteq released'
    BY DEF EndDelete
  <1>4. \A x \in Run : Working(x)' => Working(x) /\ todo'[x] = todo[x]
    BY <1>1 DEF Working, EndDelete
  <1>5. \A x \in Actor : pc'[x] \in {"wait"} \cup Deleting => target'[x] \in Run
    BY <1>1, <1>2 DEF Deleting, EndDelete
  <1>6. \A x \in Actor : pc'[x] \in {"gcrow", "gcrefs"} => EndOf(todo'[x], target'[x])
    BY <1>1, <1>2 DEF EndDelete
  <1>7. \A x \in Actor : orphans'[x] # <<>> =>
            /\ pc'[x] \in {"gcrefs", "gcindex", "gcphys"}
            /\ orphans'[x] = orphans[x] /\ target'[x] = target[x]
    BY <1>1, <1>2 DEF EndDelete
  <1> QED
    BY <1>3, <1>4, <1>5, <1>6, <1>7, HandsFrame


LEMMA HandsStop ==
    ASSUME HandsInv, BaseInv', NEW a \in Actor, Stop(a) PROVE HandsInv'
  <1> USE Actors DEF HandsInv, BaseInv
  <1>1. /\ pc \in [Actor -> PC] /\ todo \in [Actor -> Seq(Block)]
        /\ target \in [Actor -> Run \cup {0}] /\ orphans \in [Actor -> Seq(Block)]
    BY Types
  <1>2. /\ \A x \in Actor : orphans[x] # <<>> => pc[x] \in {"gcrefs", "gcindex", "gcphys"}
        /\ \A x \in Actor : pc[x] \in {"gcrow", "gcrefs"} => EndOf(todo[x], target[x])
        /\ \A x \in Actor : pc[x] \in {"wait"} \cup Deleting => target[x] \in Run
    BY DEF Orphaned, Suffix
  <1>3. UNCHANGED <<content, users>> /\ released \subseteq released'
    BY DEF Stop
  <1>4. \A x \in Run : Working(x)' => Working(x) /\ todo'[x] = todo[x]
    BY <1>1 DEF Working, Stop, Halted
  <1>5. \A x \in Actor : pc'[x] \in {"wait"} \cup Deleting => target'[x] \in Run
    BY <1>1, <1>2 DEF Deleting, Stop, Halted
  <1>6. \A x \in Actor : pc'[x] \in {"gcrow", "gcrefs"} => EndOf(todo'[x], target'[x])
    BY <1>1, <1>2 DEF Stop, Halted
  <1>7. \A x \in Actor : orphans'[x] # <<>> =>
            /\ pc'[x] \in {"gcrefs", "gcindex", "gcphys"}
            /\ orphans'[x] = orphans[x] /\ target'[x] = target[x]
    BY <1>1, <1>2 DEF Stop, Halted
  <1> QED
    BY <1>3, <1>4, <1>5, <1>6, <1>7, HandsFrame


LEMMA HandsCrash ==
    ASSUME HandsInv, BaseInv', Crash PROVE HandsInv'
  <1> USE Actors DEF HandsInv, BaseInv
  <1>1. /\ pc \in [Actor -> PC] /\ todo \in [Actor -> Seq(Block)]
        /\ target \in [Actor -> Run \cup {0}] /\ orphans \in [Actor -> Seq(Block)]
    BY Types
  <1>2. /\ \A x \in Actor : orphans[x] # <<>> => pc[x] \in {"gcrefs", "gcindex", "gcphys"}
        /\ \A x \in Actor : pc[x] \in {"gcrow", "gcrefs"} => EndOf(todo[x], target[x])
        /\ \A x \in Actor : pc[x] \in {"wait"} \cup Deleting => target[x] \in Run
    BY DEF Orphaned, Suffix
  <1>3. UNCHANGED <<content, users>> /\ released \subseteq released'
    BY DEF Crash
  <1>4. \A x \in Run : Working(x)' => Working(x) /\ todo'[x] = todo[x]
    BY <1>1 DEF Working, Crash, Halted
  <1>5. \A x \in Actor : pc'[x] \in {"wait"} \cup Deleting => target'[x] \in Run
    BY <1>1, <1>2 DEF Deleting, Crash, Halted
  <1>6. \A x \in Actor : pc'[x] \in {"gcrow", "gcrefs"} => EndOf(todo'[x], target'[x])
    BY <1>1, <1>2 DEF Crash, Halted
  <1>7. \A x \in Actor : orphans'[x] # <<>> =>
            /\ pc'[x] \in {"gcrefs", "gcindex", "gcphys"}
            /\ orphans'[x] = orphans[x] /\ target'[x] = target[x]
    BY <1>1, <1>2 DEF Crash, Halted
  <1> QED
    BY <1>3, <1>4, <1>5, <1>6, <1>7, HandsFrame


\* A run takes a block up.
LEMMA HandsLookUp ==
    ASSUME HandsInv, BaseInv', NEW r \in Run, LookUp(r) PROVE HandsInv'
  <1> DEFINE b == Head(todo[r])
  <1> USE Actors DEF HandsInv, BaseInv
  <1>1. /\ pc \in [Actor -> PC] /\ todo \in [Actor -> Seq(Block)] /\ content \in [Run -> Seq(Block)]
        /\ users \in [Block -> SUBSET Run] /\ content[r] \in Seq(Block)
    BY Types
  <1>2. pc[r] = "chunk" /\ b \in Block
    BY HeadBlock DEF LookUp, StoreInv, TypeInv, StepsOK
  <1>3. /\ content' = [content EXCEPT ![r] = Append(content[r], b)]
        /\ users' = [users EXCEPT ![b] = @ \cup {r}]
        /\ UNCHANGED <<target, orphans, released>>
        /\ \A x \in Actor \ {r} : pc'[x] = pc[x] /\ todo'[x] = todo[x]
        /\ pc'[r] \in {"write", "chunk", "save"} /\ (pc'[r] = "write" => todo'[r] = todo[r])
    BY <1>1, <1>2 DEF LookUp, NextChunk
  <1>4. /\ \A q \in Run \ {r} : content'[q] = content[q]
        /\ content'[r] = Append(content[r], b)
        /\ Len(content'[r]) = Len(content[r]) + 1 /\ Len(content[r]) \in Nat
        /\ \A i \in 1..Len(content[r]) : content'[r][i] = content[r][i]
        /\ content'[r][Len(content[r]) + 1] = b
    BY <1>1, <1>2, <1>3
  <1>5. Blocks(r)' = Blocks(r) \cup {b} /\ \A q \in Run \ {r} : Blocks(q)' = Blocks(q)
    <2>1. Blocks(r)' = {content'[r][i] : i \in 1..(Len(content[r]) + 1)}
      BY <1>4 DEF Blocks
    <2>2. 1..(Len(content[r]) + 1) = (1..Len(content[r])) \cup {Len(content[r]) + 1}
      BY <1>4
    <2>3. Blocks(r)' = Blocks(r) \cup {b}
      BY <1>4, <2>1, <2>2 DEF Blocks
    <2> QED
      BY <1>4, <2>3 DEF Blocks
  <1>6. UsersExact'
    <2> SUFFICES ASSUME NEW c \in Block, NEW q \in Run PROVE q \in users'[c] <=> c \in Blocks(q)'
      BY DEF UsersExact
    <2>1. q \in users[c] <=> c \in Blocks(q)
      BY DEF UsersExact
    <2>2. users'[c] = IF c = b THEN users[c] \cup {r} ELSE users[c]
      BY <1>1, <1>2, <1>3
    <2>3. Blocks(q)' = IF q = r THEN Blocks(q) \cup {b} ELSE Blocks(q)
      BY <1>5
    <2> QED
      BY <2>1, <2>2, <2>3
  <1>7. AtHead'
    <2> SUFFICES ASSUME NEW q \in Run, Working(q)'
                 PROVE  content'[q] # <<>> /\ content'[q][Len(content'[q])] = Head(todo'[q])
      BY DEF AtHead
    <2>1. CASE q = r
      <3>1. pc'[r] = "write" /\ todo'[r] = todo[r]
        BY <1>3, <2>1 DEF Working
      <3>2. Len(content'[r]) > 0
        BY <1>4
      <3> QED
        BY <1>4, <2>1, <3>1, <3>2
    <2>2. CASE q # r
      BY <1>3, <1>4, <2>2 DEF AtHead, Working
    <2> QED
      BY <2>1, <2>2
  <1>8. \A x \in Actor : pc'[x] \in {"wait"} \cup Deleting => x # r
    BY <1>3 DEF Deleting
  <1>9. \A x \in Actor : pc[x] \in {"wait"} \cup Deleting => target[x] \in Run \ {r}
    BY <1>2 DEF Suffix, StoreInv, PastCollecting, Past, Collecting
  <1>10. Suffix'
    <2>1. ASSUME NEW x \in Actor, pc'[x] \in {"wait"} \cup Deleting
          PROVE  /\ pc'[x] = pc[x] /\ todo'[x] = todo[x] /\ target'[x] = target[x]
                 /\ target[x] \in Run /\ content'[target[x]] = content[target[x]]
      BY <1>3, <1>4, <1>8, <1>9, <2>1
    <2>2. \A x \in Actor : pc'[x] \in {"gcrow", "gcrefs"} => EndOf(todo[x], target[x])
      BY <2>1, PCs DEF Suffix
    <2>3. ASSUME NEW x \in Actor, pc'[x] \in {"gcrow", "gcrefs"} PROVE EndOf(todo[x], target[x])'
      <3>1. todo'[x] = todo[x] /\ target'[x] = target[x] /\ content'[target[x]] = content[target[x]]
        BY <2>1, <2>3, PCs
      <3>2. EndOf(todo[x], target[x])
        BY <2>2, <2>3
      <3> QED
        BY ONLY <3>1, <3>2 DEF EndOf
    <2> QED
      BY <2>1, <2>3 DEF Suffix
  <1>11. Orphaned'
    BY <1>2, <1>3, <1>5, <1>8, <1>9 DEF Orphaned, Deleting
  <1> QED
    BY <1>6, <1>7, <1>10, <1>11

\* A deletion releases the first of what is left, and may have freed it.
LEMMA HandsReleaseRef ==
    ASSUME HandsInv, BaseInv', NEW a \in Actor, ReleaseRef(a) PROVE HandsInv'
  <1> DEFINE b == Head(todo[a])
             s == target[a]
  <1> USE Actors DEF HandsInv, BaseInv
  <1>1. /\ pc \in [Actor -> PC] /\ todo \in [Actor -> Seq(Block)]
        /\ target \in [Actor -> Run \cup {0}] /\ orphans \in [Actor -> Seq(Block)]
    BY Types
  <1>2. /\ pc[a] = "gcrefs" /\ todo[a] # <<>> /\ s \in Run /\ EndOf(todo[a], s)
    BY DEF ReleaseRef, Suffix, Deleting
  <1>3. b \in Block /\ b \in Blocks(s) /\ EndOf(Tail(todo[a]), s)
    BY <1>2, HeadBlock, EndOfTail
  <1>4. /\ UNCHANGED <<content, users, pc, target>> /\ released' = released \cup {b}
        /\ \A x \in Actor : todo'[x] = IF x = a THEN Tail(todo[a]) ELSE todo[x]
        /\ \A x \in Actor \ {a} : orphans'[x] = orphans[x]
        /\ orphans'[a] = orphans[a] \/ orphans'[a] = Append(orphans[a], b)
    BY <1>1 DEF ReleaseRef
  <1>5. \A q : Blocks(q)' = Blocks(q)
    BY <1>4 DEF Blocks
  <1>6. UsersExact'
    BY <1>4, <1>5 DEF UsersExact
  <1>7. AtHead'
    BY <1>2, <1>4 DEF AtHead, Working
  <1>8. Suffix'
    <2>1. \A x \in Actor : pc[x] \in {"gcrow", "gcrefs"} => EndOf(todo'[x], target[x])
      BY <1>3, <1>4 DEF Suffix
    <2>2. \A x \in Actor : EndOf(todo'[x], target[x]) => EndOf(todo[x], target[x])'
      BY <1>4 DEF EndOf
    <2> QED
      BY <1>4, <2>1, <2>2 DEF Suffix
  <1>9. BlocksIn(orphans'[a]) \subseteq BlocksIn(orphans[a]) \cup {b}
    <2>1. BlocksIn(Append(orphans[a], b)) = BlocksIn(orphans[a]) \cup {b}
      BY <1>1, <1>3, BlocksInAppend
    <2> QED
      BY <1>4, <2>1
  <1>10. BlocksIn(orphans[a]) \subseteq Blocks(s) \cap released
    <2>1. CASE orphans[a] = <<>>
      <3>1. Len(orphans[a]) = 0
        BY <2>1
      <3> QED
        BY <3>1 DEF BlocksIn
    <2>2. CASE orphans[a] # <<>>
      BY <2>2 DEF Orphaned
    <2> QED
      BY <2>1, <2>2
  <1>11. Orphaned'
    <2> SUFFICES ASSUME NEW x \in Actor, orphans'[x] # <<>>
                 PROVE  /\ pc[x] \in {"gcrefs", "gcindex", "gcphys"} /\ target[x] \in Run
                        /\ BlocksIn(orphans'[x]) \subseteq Blocks(target[x]) \cap released'
      BY <1>4, <1>5 DEF Orphaned
    <2>1. CASE x = a
      BY <1>2, <1>3, <1>4, <1>9, <1>10, <2>1
    <2>2. CASE x # a
      <3>1. orphans'[x] = orphans[x]
        BY <1>4, <2>2
      <3> QED
        BY <1>4, <3>1 DEF Orphaned
    <2> QED
      BY <2>1, <2>2
  <1> QED
    BY <1>6, <1>7, <1>8, <1>11

\* A freed block is deleted, or stays where it is.
LEMMA HandsDeleteBlock ==
    ASSUME HandsInv, BaseInv', NEW a \in Actor, DeleteBlock(a) PROVE HandsInv'
  <1> USE Actors DEF HandsInv, BaseInv
  <1>1. /\ orphans \in [Actor -> Seq(Block)] /\ orphans[a] \in Seq(Block) /\ orphans[a] # <<>>
    BY Types DEF DeleteBlock
  <1>2. /\ UNCHANGED <<content, users, pc, target, todo, released>>
        /\ \A x \in Actor : orphans'[x] = IF x = a THEN Tail(orphans[a]) ELSE orphans[x]
    BY <1>1 DEF DeleteBlock
  <1>3. \A q : Blocks(q)' = Blocks(q)
    BY <1>2 DEF Blocks
  <1>4. UsersExact' /\ AtHead' /\ Suffix'
    BY <1>2, <1>3 DEF UsersExact, AtHead, Working, Suffix, EndOf
  <1>5. BlocksIn(Tail(orphans[a])) \subseteq BlocksIn(orphans[a])
    BY <1>1, BlocksInTail
  <1>6. Orphaned'
    BY <1>1, <1>2, <1>3, <1>5 DEF Orphaned
  <1> QED
    BY <1>4, <1>6

LEMMA HandsNext == HandsInv /\ [Next]_vars => HandsInv'
  <1> SUFFICES ASSUME HandsInv, [Next]_vars PROVE HandsInv'
    OBVIOUS
  <1>1. BaseInv'
    BY BaseNext DEF HandsInv
  <1>2. ASSUME NEW r \in Run, RunStep(r) PROVE HandsInv'
    BY <1>1, <1>2, HandsStartRun, HandsLookUp, HandsWriteBlock, HandsRecordBlock, HandsSaveManifest,
       HandsAddToIndex, HandsInsertRow, HandsUpdateRepoUsed, HandsSelectPrune, HandsPruneNext DEF RunStep
  <1>3. ASSUME NEW c \in Client, ClientStep(c) PROVE HandsInv'
    BY <1>1, <1>3, HandsRequestDelete, HandsBeginDelete DEF ClientStep
  <1>4. ASSUME NEW a \in Actor, DeleteStep(a) \/ Stop(a) PROVE HandsInv'
    BY <1>1, <1>4, HandsDeleteRow, HandsReleaseRef, HandsDeleteManifest, HandsDeleteIndexRow,
       HandsDeleteBlock, HandsEndDelete, HandsStop DEF DeleteStep
  <1>5. ASSUME UNCHANGED <<content, users, released, pc, todo, target, orphans>> PROVE HandsInv'
    BY <1>1, <1>5, HandsFrame DEF HandsInv, BaseInv, Working, Suffix, EndOf, Orphaned
  <1>6. (\E s \in Run : PlaceHold(s) \/ ReleaseHold(s)) \/ UNCHANGED vars
            => UNCHANGED <<content, users, released, pc, todo, target, orphans>>
    BY DEF PlaceHold, ReleaseHold, vars
  <1> QED
    BY <1>1, <1>2, <1>3, <1>4, <1>5, <1>6, HandsCrash DEF Next
-----------------------------------------------------------------------------
(***************************************************************************)
(* Losses.                                                                 *)
(***************************************************************************)

\* A run that is listed works on no block any more.
LEMMA ListedPast ==
    ASSUME StoreInv, NEW r \in rows
    PROVE  r \in Run /\ ~Working(r) /\ pc[r] \notin Collecting
  BY Types DEF StoreInv, PastCollecting, Past, Working, Collecting

\* A step that leaves blocks, references and users alone, and needs no run that
\* was not needed before.
LEMMA LossFrame ==
    ASSUME LossInv, HandsInv', UNCHANGED <<refs, users, stored, jobOf, released>>,
           \A r \in Run : Needed(r)' => /\ Needed(r)
                                        /\ Working(r) => pc'[r] = pc[r] /\ todo'[r] = todo[r]
    PROVE  LossInv'
  <1> USE DEF LossInv
  <1>1. \A r \in Run : \A b \in Block : Needed(r)' =>
            /\ Unwritten(r, b) => Unwritten(r, b)'
            /\ Unrecorded(r, b) => Unrecorded(r, b)'
    BY DEF Working, Unwritten, Unrecorded
  <1>2. \A r : RepoOfRun(r)' = RepoOfRun(r)
    BY DEF RepoOfRun
  <1>3. Alone'
    BY <1>1, <1>2 DEF Alone
  <1>4. Kept'
    BY <1>1, <1>2 DEF Kept, Undisturbed
  <1> QED
    BY <1>3, <1>4

\* A run that starts has no block yet.
LEMMA LossStartRun ==
    ASSUME LossInv, HandsInv', NEW r \in Run, NEW j \in Job, NEW src \in Source, StartRun(r, j, src)
    PROVE  LossInv'
  <1> USE DEF LossInv, HandsInv, BaseInv
  <1>1. \A b \in Block : r \notin users[b]
    <2>1. content[r] = <<>>
      BY DEF StartRun, StoreInv, Whole
    <2>2. Len(content[r]) = 0
      BY <2>1
    <2> QED
      BY <2>2 DEF UsersExact, Blocks
  <1>2. /\ UNCHANGED <<refs, users, stored, released, rows>>
        /\ \A q \in Run \ {r} : /\ pc'[q] = pc[q] /\ todo'[q] = todo[q]
                                /\ RepoOfRun(q)' = RepoOfRun(q)
    BY Types, Actors DEF StartRun, RepoOfRun
  <1>3. Alone'
    BY <1>1, <1>2 DEF Alone, Needed, Unwritten, Unrecorded
  <1>4. \A p \in Repo : \A b \in Block : Undisturbed(b, p)' => Undisturbed(b, p)
    BY <1>1, <1>2, Types DEF Undisturbed
  <1>5. Kept'
    BY <1>1, <1>2, <1>4 DEF Kept, Needed, Unwritten
  <1> QED
    BY <1>3, <1>5

\* A block that is skipped is there already, unless something was released.
LEMMA LossLookUp ==
    ASSUME LossInv, HandsInv', NEW r \in Run, LookUp(r) PROVE LossInv'
  <1> DEFINE b == Head(todo[r])
  <1> USE DEF LossInv, HandsInv, BaseInv
  <1>1. pc[r] = "chunk" /\ b \in Block
    BY HeadBlock, Actors DEF LookUp, StoreInv, TypeInv, StepsOK
  <1>2. /\ UNCHANGED <<refs, stored, released, rows, jobOf>>
        /\ \A c \in Block : users'[c] = IF c = b THEN users[c] \cup {r} ELSE users[c]
        /\ \A q \in Run \ {r} : pc'[q] = pc[q] /\ todo'[q] = todo[q]
        /\ ~(refs[b] > 0) => pc'[r] = "write" /\ todo'[r] = todo[r]
    BY <1>1, Types, Actors DEF LookUp
  <1>3. \A c \in Block : ~Unwritten(r, c) /\ ~Unrecorded(r, c)
    BY <1>1 DEF Unwritten, Unrecorded
  <1>4. /\ Needed(r) /\ \A q \in Run \ {r} : Needed(q)' => Needed(q)
        /\ \A q \in Run \ {r} : \A c \in Block : /\ Unwritten(q, c) => Unwritten(q, c)'
                                               /\ Unrecorded(q, c) => Unrecorded(q, c)'
    BY <1>1, <1>2, PCs DEF Needed, Unwritten, Unrecorded
  <1>5. \A q : RepoOfRun(q)' = RepoOfRun(q)
    BY <1>2 DEF RepoOfRun
  <1>6. \A c \in Block : c = b /\ ~(refs[b] > 0) => pc'[r] = "write" /\ Head(todo'[r]) = c
    BY <1>2
  <1>7. \A c \in Block : users[c] \subseteq users'[c]
    BY <1>2
  <1>8. \A c \in Block : refs'[c] > 0 => users'[c] # {}
    BY <1>2, <1>7 DEF Alone
  <1>9. ASSUME NEW q \in Run, NEW c \in Block, Needed(q)', users'[c] = {q}
        PROVE  /\ c \in stored'[RepoOfRun(q)'] \/ Unwritten(q, c)'
               /\ refs'[c] > 0 \/ Unwritten(q, c)' \/ Unrecorded(q, c)'
    <2>1. CASE c # b
      <3>1. users[c] = {q}
        BY <1>2, <1>9, <2>1
      <3>2. Needed(q)
        BY <1>4, <1>9
      <3>3. /\ c \in stored[RepoOfRun(q)] \/ Unwritten(q, c)
            /\ refs[c] > 0 \/ Unwritten(q, c) \/ Unrecorded(q, c)
        BY <3>1, <3>2 DEF Alone
      <3>4. /\ Unwritten(q, c) => Unwritten(q, c)'
            /\ Unrecorded(q, c) => Unrecorded(q, c)'
        BY <1>1, <1>2 DEF Unwritten, Unrecorded
      <3> QED
        BY <1>2, <1>5, <3>3, <3>4
    <2>2. CASE c = b
      <3>1. q = r /\ users[b] \subseteq {r}
        BY <1>1, <1>2, <1>9, <2>2
      <3>2. CASE refs[b] > 0
        <4>1. users[b] = {r}
          BY <1>1, <3>1, <3>2 DEF Alone
        <4> QED
          BY <1>1, <1>2, <1>3, <1>4, <1>5, <2>2, <3>1, <3>2, <4>1 DEF Alone
      <3>3. CASE ~(refs[b] > 0)
        <4>1. Unwritten(q, c)'
          BY <1>6, <2>2, <3>1, <3>3 DEF Unwritten
        <4> QED
          BY <4>1
      <3> QED
        BY <3>2, <3>3
    <2> QED
      BY <2>1, <2>2
  <1>10. Alone'
    BY <1>8, <1>9 DEF Alone
  <1>11. ASSUME NEW p \in Repo, NEW c \in Block, Undisturbed(c, p)'
         PROVE  /\ refs'[c] > 0 => c \in stored'[p]
                /\ \A q \in Run : Needed(q)' /\ q \in users'[c] => c \in stored'[p] \/ Unwritten(q, c)'
    <2>1. Undisturbed(c, p)
      BY <1>2, <1>5, <1>7, <1>11 DEF Undisturbed
    <2>2. refs'[c] > 0 => c \in stored'[p]
      BY <1>2, <2>1 DEF Kept
    <2>3. ASSUME NEW q \in Run, Needed(q)', q \in users'[c] PROVE c \in stored'[p] \/ Unwritten(q, c)'
      <3>1. CASE q \in users[c]
        <4>1. Needed(q)
          BY <1>4, <2>3
        <4>2. c \in stored[p] \/ Unwritten(q, c)
          BY <2>1, <3>1, <4>1 DEF Kept
        <4>3. Unwritten(q, c) => Unwritten(q, c)'
          BY <1>1, <1>2 DEF Unwritten
        <4> QED
          BY <1>2, <4>2, <4>3
      <3>2. CASE q \notin users[c]
        <4>1. q = r /\ c = b
          BY <1>2, <2>3, <3>2
        <4> QED
          BY <1>2, <1>6, <2>2, <4>1 DEF Unwritten
      <3> QED
        BY <3>1, <3>2
    <2> QED
      BY <2>2, <2>3
  <1>12. Kept'
    BY <1>11 DEF Kept
  <1> QED
    BY <1>10, <1>12

\* The bytes are written before the reference is.
LEMMA LossWriteBlock ==
    ASSUME LossInv, HandsInv', NEW r \in Run, WriteBlock(r) PROVE LossInv'
  <1> DEFINE b == Head(todo[r])
  <1> USE DEF LossInv, HandsInv, BaseInv
  <1>1. pc[r] = "write" /\ RepoOfRun(r) \in Repo
    BY RepoAssumption DEF WriteBlock, Assigned, RepoOfRun
  <1>2. /\ UNCHANGED <<refs, users, released, rows, jobOf, todo>>
        /\ \A q \in Run : pc'[q] = IF q = r THEN "record" ELSE pc[q]
        /\ \A p \in Repo : stored[p] \subseteq stored'[p]
        /\ b \in stored'[RepoOfRun(r)]
    BY <1>1, Types, Actors DEF WriteBlock
  <1>3. \A q \in Run : Needed(q)' => Needed(q)
    BY <1>1, <1>2, PCs DEF Needed
  <1>4. \A q \in Run : \A c \in Block :
            /\ Unwritten(q, c) => Unwritten(q, c)' \/ (q = r /\ c = b /\ Unrecorded(r, b)')
            /\ Unrecorded(q, c) => Unrecorded(q, c)'
    BY <1>1, <1>2 DEF Unwritten, Unrecorded
  <1>5. \A q : RepoOfRun(q)' = RepoOfRun(q)
    BY <1>2 DEF RepoOfRun
  <1>6. ASSUME NEW q \in Run, NEW c \in Block, Needed(q)', users'[c] = {q}
        PROVE  /\ c \in stored'[RepoOfRun(q)'] \/ Unwritten(q, c)'
               /\ refs'[c] > 0 \/ Unwritten(q, c)' \/ Unrecorded(q, c)'
    <2>1. /\ c \in stored[RepoOfRun(q)] \/ Unwritten(q, c)
          /\ refs[c] > 0 \/ Unwritten(q, c) \/ Unrecorded(q, c)
      BY <1>2, <1>3, <1>6 DEF Alone
    <2>2. q \in users[c] /\ pc[q] # "new"
      <3>1. q \in users[c]
        BY <1>2, <1>6
      <3>2. pc[q] \in Collecting \/ q \in rows
        BY <1>3, <1>6 DEF Needed
      <3> QED
        BY <3>1, <3>2 DEF StoreInv, PastCollecting, Past, Collecting
    <2>3. RepoOfRun(q) \in Repo
      BY <2>2, RepoAssumption DEF Assigned, RepoOfRun
    <2> QED
      BY <1>2, <1>4, <1>5, <2>1, <2>3
  <1>7. Alone'
    BY <1>2, <1>6 DEF Alone
  <1>8. Kept'
    <2> SUFFICES ASSUME NEW p \in Repo, NEW c \in Block, Undisturbed(c, p)'
                 PROVE  /\ refs'[c] > 0 => c \in stored'[p]
                        /\ \A q \in Run : Needed(q)' /\ q \in users'[c]
                                            => c \in stored'[p] \/ Unwritten(q, c)'
      BY DEF Kept
    <2>1. Undisturbed(c, p)
      BY <1>2, <1>5 DEF Undisturbed
    <2>2. refs'[c] > 0 => c \in stored'[p]
      BY <1>2, <2>1 DEF Kept
    <2>3. ASSUME NEW q \in Run, Needed(q)', q \in users'[c] PROVE c \in stored'[p] \/ Unwritten(q, c)'
      <3>1. c \in stored[p] \/ Unwritten(q, c)
        BY <1>2, <1>3, <2>1, <2>3 DEF Kept
      <3>2. RepoOfRun(q) = p
        BY <1>2, <2>1, <2>3 DEF Undisturbed
      <3> QED
        BY <1>2, <1>4, <3>1, <3>2
    <2> QED
      BY <2>2, <2>3
  <1> QED
    BY <1>7, <1>8

LEMMA LossRecordBlock ==
    ASSUME LossInv, HandsInv', NEW r \in Run, RecordBlock(r) PROVE LossInv'
  <1> DEFINE b == Head(todo[r])
  <1> USE DEF LossInv, HandsInv, BaseInv
  <1>1. pc[r] = "record" /\ b \in Block
    BY HeadBlock, Actors DEF RecordBlock, StoreInv, TypeInv, StepsOK
  <1>2. r \in users[b]
    <2>1. content[r] # <<>> /\ content[r][Len(content[r])] = b /\ content[r] \in Seq(Block)
      BY <1>1, Types DEF AtHead, Working
    <2>2. Len(content[r]) \in 1..Len(content[r])
      BY <2>1
    <2> QED
      BY <1>1, <2>1, <2>2 DEF UsersExact, Blocks
  <1>3. /\ UNCHANGED <<users, stored, released, rows, jobOf>>
        /\ \A c \in Block : refs'[c] = IF c = b THEN refs[c] + 1 ELSE refs[c]
        /\ \A q \in Run \ {r} : pc'[q] = pc[q] /\ todo'[q] = todo[q]
        /\ refs[b] \in Nat
    BY <1>1, Types, Actors DEF RecordBlock
  <1>4. Needed(r) /\ \A q \in Run : Needed(q)' => Needed(q)
    BY <1>1, <1>3, PCs DEF Needed
  <1>5. \A q \in Run : \A c \in Block :
            /\ Unwritten(q, c) => Unwritten(q, c)' /\ q # r
            /\ Unrecorded(q, c) => Unrecorded(q, c)' \/ c = b
    BY <1>1, <1>3 DEF Unwritten, Unrecorded
  <1>6. \A q : RepoOfRun(q)' = RepoOfRun(q)
    BY <1>3 DEF RepoOfRun
  <1>7. refs'[b] > 0 /\ \A c \in Block : refs[c] > 0 => refs'[c] > 0
    BY <1>1, <1>3
  <1>8. Alone'
    <2>1. \A c \in Block : refs'[c] > 0 => users'[c] # {}
      BY <1>2, <1>3 DEF Alone
    <2>2. ASSUME NEW q \in Run, NEW c \in Block, Needed(q)', users'[c] = {q}
          PROVE  /\ c \in stored'[RepoOfRun(q)'] \/ Unwritten(q, c)'
                 /\ refs'[c] > 0 \/ Unwritten(q, c)' \/ Unrecorded(q, c)'
      <3>1. /\ c \in stored[RepoOfRun(q)] \/ Unwritten(q, c)
            /\ refs[c] > 0 \/ Unwritten(q, c) \/ Unrecorded(q, c)
        BY <1>3, <1>4, <2>2 DEF Alone
      <3> QED
        BY <1>3, <1>5, <1>6, <1>7, <3>1
    <2> QED
      BY <2>1, <2>2 DEF Alone
  <1>9. Kept'
    <2> SUFFICES ASSUME NEW p \in Repo, NEW c \in Block, Undisturbed(c, p)'
                 PROVE  /\ refs'[c] > 0 => c \in stored'[p]
                        /\ \A q \in Run : Needed(q)' /\ q \in users'[c]
                                            => c \in stored'[p] \/ Unwritten(q, c)'
      BY DEF Kept
    <2>1. Undisturbed(c, p)
      BY <1>3, <1>6 DEF Undisturbed
    <2>2. \A q \in Run : Needed(q) /\ q \in users[c] => c \in stored[p] \/ Unwritten(q, c)
      BY <2>1 DEF Kept
    <2>3. refs'[c] > 0 => c \in stored'[p]
      <3>1. CASE c = b
        BY <1>1, <1>2, <1>3, <1>4, <1>5, <2>2, <3>1
      <3>2. CASE c # b
        BY <1>3, <2>1, <3>2 DEF Kept
      <3> QED
        BY <3>1, <3>2
    <2> QED
      BY <1>3, <1>4, <1>5, <2>2, <2>3
  <1> QED
    BY <1>8, <1>9

\* What a deletion releases or deletes was used by its target, whose row is gone.
LEMMA LossReleaseRef ==
    ASSUME LossInv, HandsInv', NEW a \in Actor, ReleaseRef(a) PROVE LossInv'
  <1> DEFINE b == Head(todo[a])
             s == target[a]
  <1> USE DEF LossInv, HandsInv, BaseInv
  <1>1. pc[a] = "gcrefs" /\ todo[a] # <<>> /\ s \in Run /\ EndOf(todo[a], s)
    BY DEF ReleaseRef, Suffix, Deleting
  <1>2. b \in Block /\ s \in users[b]
    BY <1>1, HeadBlock, EndOfTail DEF UsersExact
  <1>3. ~Needed(s)
    BY <1>1, RunAssumption DEF Needed, StoreInv, Withdrawn, PastCollecting, Past
  <1>4. /\ UNCHANGED <<users, stored, rows, jobOf, pc>> /\ released' = released \cup {b}
        /\ \A c \in Block : (c # b => refs'[c] = refs[c]) /\ (refs'[c] > 0 => refs[c] > 0)
        /\ \A q \in Run : pc[q] \in {"write", "record"} => todo'[q] = todo[q]
    BY <1>1, <1>2, Types, Actors DEF ReleaseRef
  <1>5. \A q \in Run : \A c \in Block :
            /\ Needed(q)' => Needed(q)
            /\ Unwritten(q, c) => Unwritten(q, c)'
            /\ Unrecorded(q, c) => Unrecorded(q, c)'
    BY <1>4 DEF Needed, Unwritten, Unrecorded
  <1>6. \A q : RepoOfRun(q)' = RepoOfRun(q)
    BY <1>4 DEF RepoOfRun
  <1>7. Alone'
    <2>1. \A c \in Block : refs'[c] > 0 => users'[c] # {}
      BY <1>4 DEF Alone
    <2>2. ASSUME NEW q \in Run, NEW c \in Block, Needed(q)', users'[c] = {q}
          PROVE  /\ c \in stored'[RepoOfRun(q)'] \/ Unwritten(q, c)'
                 /\ refs'[c] > 0 \/ Unwritten(q, c)' \/ Unrecorded(q, c)'
      <3>1. c # b
        BY <1>2, <1>3, <1>4, <1>5, <2>2
      <3>3. Needed(q) /\ users[c] = {q}
        BY <1>4, <1>5, <2>2
      <3>4. /\ c \in stored[RepoOfRun(q)] \/ Unwritten(q, c)
            /\ refs[c] > 0 \/ Unwritten(q, c) \/ Unrecorded(q, c)
        BY <3>3 DEF Alone
      <3>5. /\ Unwritten(q, c) => Unwritten(q, c)'
            /\ Unrecorded(q, c) => Unrecorded(q, c)'
        BY <1>5 DEF Unwritten, Unrecorded
      <3> QED
        BY <1>4, <1>6, <3>1, <3>4, <3>5
    <2> QED
      BY <2>1, <2>2 DEF Alone
  <1>8. \A p \in Repo : \A c \in Block : Undisturbed(c, p)' => Undisturbed(c, p)
    BY <1>4, <1>6 DEF Undisturbed
  <1>9. Kept'
    BY <1>4, <1>5, <1>8 DEF Kept
  <1> QED
    BY <1>7, <1>9

LEMMA LossDeleteBlock ==
    ASSUME LossInv, HandsInv', NEW a \in Actor, DeleteBlock(a) PROVE LossInv'
  <1> DEFINE b == Head(orphans[a])
             s == target[a]
  <1> USE DEF LossInv, HandsInv, BaseInv
  <1>1. /\ pc[a] = "gcphys" /\ orphans[a] # <<>> /\ s \in Run
        /\ orphans[a] \in Seq(Block) /\ BlocksIn(orphans[a]) \subseteq Blocks(s) \cap released
    BY Types DEF DeleteBlock, Orphaned
  <1>2. b \in Block /\ s \in users[b] /\ b \in released
    <2>1. b \in BlocksIn(orphans[a])
      BY <1>1, BlocksInTail
    <2> QED
      BY <1>1, <2>1, Types DEF UsersExact
  <1>3. ~Needed(s)
    BY <1>1, RunAssumption DEF Needed, StoreInv, Withdrawn, PastCollecting, Past
  <1>4. /\ UNCHANGED <<refs, users, released, rows, jobOf, pc, todo>>
        /\ \A p \in Repo : stored[p] \ {b} \subseteq stored'[p]
    BY Types DEF DeleteBlock
  <1>5. \A q \in Run : \A c \in Block :
            /\ Needed(q)' => Needed(q)
            /\ Unwritten(q, c) => Unwritten(q, c)'
            /\ Unrecorded(q, c) => Unrecorded(q, c)'
    BY <1>4 DEF Needed, Unwritten, Unrecorded
  <1>6. \A q : RepoOfRun(q)' = RepoOfRun(q)
    BY <1>4 DEF RepoOfRun
  <1>7. Alone'
    <2>1. \A c \in Block : refs'[c] > 0 => users'[c] # {}
      BY <1>4 DEF Alone
    <2>2. ASSUME NEW q \in Run, NEW c \in Block, Needed(q)', users'[c] = {q}
          PROVE  /\ c \in stored'[RepoOfRun(q)'] \/ Unwritten(q, c)'
                 /\ refs'[c] > 0 \/ Unwritten(q, c)' \/ Unrecorded(q, c)'
      <3>1. c # b
        BY <1>2, <1>3, <1>4, <1>5, <2>2
      <3>2. RepoOfRun(q) \in Repo
        BY <1>5, <2>2, RepoAssumption
           DEF Needed, Assigned, RepoOfRun, StoreInv, PastCollecting, Past, Collecting
      <3>3. Needed(q) /\ users[c] = {q}
        BY <1>4, <1>5, <2>2
      <3>4. /\ c \in stored[RepoOfRun(q)] \/ Unwritten(q, c)
            /\ refs[c] > 0 \/ Unwritten(q, c) \/ Unrecorded(q, c)
        BY <3>3 DEF Alone
      <3>5. /\ Unwritten(q, c) => Unwritten(q, c)'
            /\ Unrecorded(q, c) => Unrecorded(q, c)'
        BY <1>5 DEF Unwritten, Unrecorded
      <3> QED
        BY <1>4, <1>6, <3>1, <3>2, <3>4, <3>5
    <2> QED
      BY <2>1, <2>2 DEF Alone
  <1>8. \A p \in Repo : \A c \in Block : Undisturbed(c, p)' => Undisturbed(c, p) /\ c # b
    BY <1>2, <1>4, <1>6 DEF Undisturbed
  <1>9. Kept'
    BY <1>4, <1>5, <1>8 DEF Kept
  <1> QED
    BY <1>7, <1>9

LEMMA LossNext == LossInv /\ [Next]_vars => LossInv'
  <1> SUFFICES ASSUME LossInv, [Next]_vars PROVE LossInv'
    OBVIOUS
  <1> USE Actors DEF LossInv, HandsInv, BaseInv
  <1>1. HandsInv'
    BY HandsNext DEF LossInv
  <1>2. pc \in [Actor -> PC] /\ todo \in [Actor -> Seq(Block)]
    BY Types
  <1>3. \A r \in rows : r \in Run /\ ~Working(r) /\ pc[r] \notin Collecting
    BY ListedPast
  <1>4. ASSUME UNCHANGED <<refs, users, stored, jobOf, released>>,
               \A r \in Run : Needed(r)' => Needed(r),
               \A r \in Run : Needed(r)' /\ Working(r) => pc'[r] = pc[r] /\ todo'[r] = todo[r]
        PROVE  LossInv'
    BY ONLY LossInv, <1>1, <1>4, LossFrame
  <1>5. ASSUME NEW r \in Run, RunStep(r) PROVE LossInv'
    <2>1. ASSUME SaveManifest(r) \/ AddToIndex(r) \/ InsertRow(r) PROVE LossInv'
      <3>1. UNCHANGED <<refs, users, stored, jobOf, released, todo>> /\ rows' \subseteq rows \cup {r}
        BY <2>1 DEF SaveManifest, AddToIndex, InsertRow
      <3>2. /\ pc[r] \in Collecting /\ ~Working(r)
            /\ \A q \in Run \ {r} : pc'[q] = pc[q]
        BY <1>2, <2>1 DEF SaveManifest, AddToIndex, InsertRow, Collecting, Working
      <3> QED
        BY <1>4, <3>1, <3>2 DEF Needed
    <2>2. ASSUME UpdateRepoUsed(r) \/ PruneNext(r) \/ \E keep \in SUBSET rows : SelectPrune(r, keep)
          PROVE  LossInv'
      <3>1. UNCHANGED <<refs, users, stored, jobOf, released, rows>>
        BY <2>2 DEF UpdateRepoUsed, PruneNext, SelectPrune
      <3>2. /\ ~Working(r) /\ pc'[r] \notin Collecting
            /\ \A q \in Run \ {r} : pc'[q] = pc[q] /\ todo'[q] = todo[q]
        BY <1>2, <2>2 DEF UpdateRepoUsed, PruneNext, SelectPrune, Collecting, Working
      <3> QED
        BY <1>4, <3>1, <3>2 DEF Needed
    <2> QED
      BY <1>1, <1>5, <2>1, <2>2, LossStartRun, LossLookUp, LossWriteBlock, LossRecordBlock DEF RunStep
  <1>6. ASSUME NEW c \in Client, ClientStep(c) PROVE LossInv'
    <2>1. UNCHANGED <<refs, users, stored, jobOf, released, rows>>
      BY <1>6 DEF ClientStep, RequestDelete, BeginDelete
    <2>2. \A q \in Run : pc'[q] = pc[q] /\ todo'[q] = todo[q]
      BY <1>2, <1>6 DEF ClientStep, RequestDelete, BeginDelete
    <2> QED
      BY <1>4, <2>1, <2>2 DEF Needed
  <1>7. ASSUME NEW a \in Actor, DeleteRow(a) \/ DeleteManifest(a) \/ DeleteIndexRow(a) \/ EndDelete(a)
        PROVE  LossInv'
    <2>1. UNCHANGED <<refs, users, stored, jobOf, released>> /\ rows' \subseteq rows
      BY <1>7 DEF DeleteRow, DeleteManifest, DeleteIndexRow, EndDelete
    <2>2. /\ pc[a] \in Deleting /\ pc'[a] \notin Collecting
          /\ \A q \in Actor \ {a} : pc'[q] = pc[q] /\ todo'[q] = todo[q]
      BY <1>2, <1>7 DEF DeleteRow, DeleteManifest, DeleteIndexRow, EndDelete, Halted, Collecting, Deleting
    <2> QED
      BY <1>4, <2>1, <2>2 DEF Needed, Working, Deleting
  <1>8. ASSUME NEW a \in Actor, Stop(a) PROVE LossInv'
    <2>1. UNCHANGED <<refs, users, stored, jobOf, released, rows>>
      BY <1>8 DEF Stop
    <2>2. pc'[a] \notin Collecting /\ \A q \in Actor \ {a} : pc'[q] = pc[q] /\ todo'[q] = todo[q]
      BY <1>2, <1>8 DEF Stop, Halted, Collecting
    <2> QED
      BY <1>3, <1>4, <2>1, <2>2 DEF Needed
  <1>9. ASSUME Crash PROVE LossInv'
    <2>1. UNCHANGED <<refs, users, stored, jobOf, released, rows>>
      BY <1>9 DEF Crash
    <2>2. \A q \in Run : pc'[q] \notin Collecting
      BY <1>9 DEF Crash, Halted, Collecting
    <2> QED
      BY <1>3, <1>4, <2>1, <2>2 DEF Needed
  <1>10. ASSUME NEW s \in Run, PlaceHold(s) \/ ReleaseHold(s) PROVE LossInv'
    BY <1>4, <1>10 DEF PlaceHold, ReleaseHold, Needed
  <1>11. ASSUME UNCHANGED vars PROVE LossInv'
    BY <1>4, <1>11 DEF vars, Needed
  <1> QED
    BY <1>1, <1>5, <1>6, <1>7, <1>8, <1>9, <1>10, <1>11, LossReleaseRef, LossDeleteBlock DEF Next, DeleteStep

LEMMA LossInit == Init => LossInv
  <1> SUFFICES ASSUME Init PROVE LossInv
    OBVIOUS
  <1>1. Alone
    BY DEF Init, Alone
  <1>2. Kept
    BY DEF Init, Kept
  <1> QED
    BY <1>1, <1>2, HandsInit DEF LossInv

\* What is known of every block that some run used, in every reachable state.
THEOREM LossInvariant == Spec => []LossInv
  BY LossInit, LossNext, PTL DEF Spec

\* What a listed snapshot is missing was released, or indexed by a run into
\* another repository; what it alone has used, it is not missing.
THEOREM LossesExplained == Spec => []LossExplained
  <1>1. ASSUME LossInv, NEW s \in rows, NEW b \in Blocks(s)
        PROVE  /\ s \in Run /\ b \in Block /\ s \in users[b] /\ Needed(s) /\ ~Working(s)
               /\ RepoOfRun(s) \in Repo
    <2>1. s \in Run /\ ~Working(s) /\ Needed(s)
      BY <1>1, ListedPast DEF LossInv, HandsInv, BaseInv, Needed
    <2>2. b \in Block
      BY <1>1, <2>1, BlocksType DEF LossInv, HandsInv, BaseInv, StoreInv, TypeInv
    <2>3. pc[s] # "new"
      BY <1>1 DEF LossInv, HandsInv, BaseInv, StoreInv, PastCollecting, Past
    <2>4. RepoOfRun(s) \in Repo
      BY <1>1, <2>1, <2>3, RepoAssumption DEF LossInv, HandsInv, BaseInv, Assigned, RepoOfRun
    <2> QED
      BY <1>1, <2>1, <2>2, <2>4 DEF LossInv, HandsInv, UsersExact
  <1>2. LossInv => UnsharedRestorable
    <2> SUFFICES ASSUME LossInv, NEW s \in rows, NEW b \in Blocks(s), users[b] = {s}
                 PROVE  refs[b] > 0 /\ b \in stored[RepoOfRun(s)]
      BY DEF UnsharedRestorable
    <2>1. s \in Run /\ b \in Block /\ Needed(s) /\ ~Unwritten(s, b) /\ ~Unrecorded(s, b)
      BY <1>1 DEF Working, Unwritten, Unrecorded
    <2> QED
      BY <2>1 DEF LossInv, Alone
  <1>3. LossInv => LossNeedsRelease
    <2> SUFFICES ASSUME LossInv, NEW s \in rows, NEW b \in Blocks(s), b \notin released,
                        \A q \in users[b] : RepoOfRun(q) = RepoOfRun(s)
                 PROVE  b \in stored[RepoOfRun(s)]
      BY DEF LossNeedsRelease
    <2>1. /\ s \in Run /\ b \in Block /\ s \in users[b] /\ Needed(s) /\ ~Unwritten(s, b)
          /\ RepoOfRun(s) \in Repo
      BY <1>1 DEF Working, Unwritten
    <2>2. Undisturbed(b, RepoOfRun(s))
      BY DEF Undisturbed
    <2> QED
      BY <2>1, <2>2 DEF LossInv, Kept
  <1> QED
    BY <1>2, <1>3, LossInvariant, PTL DEF LossExplained
-----------------------------------------------------------------------------
(***************************************************************************)
(* Leaks: bytes without a refcount.                                        *)
(***************************************************************************)

\* Why bytes of the block may be kept.
Excused(b) ==
    \/ refs[b] > 0
    \/ \E r \in Run : Unrecorded(r, b)
    \/ \E a \in Actor : pc[a] \in Deleting /\ b \in BlocksIn(orphans[a])
    \/ b \in debris

LEMMA BytesAre ==
    BytesExplained <=> \A p \in Repo : \A b \in stored[p] :
                          (\A q \in users[b] : RepoOfRun(q) = p) => Excused(b)
  BY DEF BytesExplained, Excused, Unrecorded

\* The blocks a stopped task had in its hands.
LEMMA StopLeaves ==
    ASSUME HandsInv, NEW a \in Actor, NEW b \in Block
    PROVE  /\ a \in Run /\ Unrecorded(a, b) => b \in LeftBehind(a)
           /\ pc[a] \in Deleting /\ b \in BlocksIn(orphans[a]) => b \in LeftBehind(a)
           /\ a \in Run /\ pc[a] \in {"chunk", "write", "record", "save"}
                 => LeftBehind(a) = Blocks(a)
  <1> USE DEF HandsInv, BaseInv
  <1>1. a \in Run /\ pc[a] \in {"chunk", "write", "record", "save"} => LeftBehind(a) = Blocks(a)
    <2>1. pc[a] \in {"chunk", "write", "record", "save"} => pc[a] \notin Deleting
      BY DEF Deleting
    <2> QED
      BY <2>1 DEF LeftBehind
  <1>2. pc[a] \in Deleting => LeftBehind(a) = BlocksIn(orphans[a])
    BY DEF LeftBehind, Deleting
  <1>3. ASSUME a \in Run, Unrecorded(a, b) PROVE b \in Blocks(a)
    <2>1. content[a] # <<>> /\ content[a] \in Seq(Block) /\ content[a][Len(content[a])] = b
      BY <1>3, Types DEF AtHead, Working, Unrecorded
    <2>2. Len(content[a]) \in 1..Len(content[a])
      BY <2>1
    <2> QED
      BY <2>1, <2>2 DEF Blocks
  <1> QED
    BY <1>1, <1>2, <1>3 DEF Unrecorded

LEMMA BytesNext ==
    ASSUME HandsInv, BytesExplained, HandsInv', [Next]_vars
    PROVE  BytesExplained'
  <1> USE Actors DEF HandsInv, BaseInv
  <1>0. /\ pc \in [Actor -> PC] /\ todo \in [Actor -> Seq(Block)] /\ orphans \in [Actor -> Seq(Block)]
        /\ refs \in [Block -> Nat] /\ stored \in [Repo -> SUBSET Block]
        /\ users \in [Block -> SUBSET Run] /\ jobOf \in [Run -> Job \cup {NoJob}]
    BY Types
  <1>1. \A a \in Actor : \A b : b \in BlocksIn(orphans[a]) => orphans[a] # <<>>
    <2> SUFFICES ASSUME NEW a \in Actor, orphans[a] = <<>> PROVE BlocksIn(orphans[a]) = {}
      OBVIOUS
    <2>1. Len(orphans[a]) = 0
      OBVIOUS
    <2> QED
      BY <2>1 DEF BlocksIn
  <1>2. \A a \in Actor : orphans[a] # <<>> => pc[a] \in {"gcrefs", "gcindex", "gcphys"}
    BY DEF Orphaned
  <1>3. SUFFICES ASSUME NEW p \in Repo, NEW b \in stored'[p],
                        \A q \in users'[b] : RepoOfRun(q)' = p
                 PROVE  Excused(b)'
    BY DEF BytesExplained, Excused, Unrecorded
  <1>4. b \in Block
    BY DEF StoreInv, TypeInv, TypeOK, StoreType
  <1>5. ASSUME b \in stored[p], \A q \in users[b] : RepoOfRun(q) = p PROVE Excused(b)
    BY <1>5, BytesAre
  <1>6. ASSUME b \in stored[p], users[b] \subseteq users'[b], jobOf' = jobOf PROVE Excused(b)
    BY <1>3, <1>5, <1>6 DEF RepoOfRun
  \* A step that takes nothing from a task's hands keeps every excuse.
  <1>7. ASSUME Excused(b), refs[b] > 0 => refs'[b] > 0, debris \subseteq debris',
               \A r \in Run : pc[r] = "record" => pc'[r] = "record" /\ todo'[r] = todo[r],
               \A a \in Actor : orphans[a] # <<>> => orphans'[a] = orphans[a] /\ pc'[a] \in Deleting
        PROVE  Excused(b)'
    BY <1>1, <1>7 DEF Excused, Unrecorded, BlocksIn
  <1>8. ASSUME NEW r \in Run, NEW j \in Job, NEW src \in Source, StartRun(r, j, src)
        PROVE  Excused(b)'
    <2>1. r \notin users[b]
      <3>1. content[r] = <<>>
        BY <1>8 DEF StartRun, StoreInv, Whole
      <3>2. Len(content[r]) = 0
        BY <3>1
      <3> QED
        BY <1>4, <3>2 DEF UsersExact, Blocks
    <2>2. /\ UNCHANGED <<stored, users, refs, debris, orphans>>
          /\ \A q \in Run \ {r} : jobOf'[q] = jobOf[q]
          /\ \A a \in Actor \ {r} : pc'[a] = pc[a] /\ todo'[a] = todo[a]
          /\ pc[r] = "new"
      BY <1>0, <1>8 DEF StartRun
    <2>3. users[b] \subseteq Run
      BY <1>0, <1>4
    <2>4. Excused(b)
      BY <1>3, <1>5, <2>1, <2>2, <2>3 DEF RepoOfRun
    <2>5. \A a \in Actor : orphans[a] # <<>> => a # r /\ pc[a] \in Deleting
      BY <1>2, <2>2, PCs
    <2> QED
      BY <1>7, <2>2, <2>4, <2>5
  <1>9. ASSUME NEW r \in Run, LookUp(r) PROVE Excused(b)'
    <2>1. /\ UNCHANGED <<stored, refs, debris, orphans, jobOf>>
          /\ users[b] \subseteq users'[b]
          /\ \A a \in Actor \ {r} : pc'[a] = pc[a] /\ todo'[a] = todo[a]
          /\ pc[r] = "chunk"
      BY <1>0, <1>4, <1>9 DEF LookUp
    <2>2. \A a \in Actor : orphans[a] # <<>> => a # r /\ pc[a] \in Deleting
      BY <1>2, <2>1, PCs
    <2> QED
      BY <1>3, <1>6, <1>7, <2>1, <2>2
  <1>10. ASSUME NEW r \in Run, WriteBlock(r) PROVE Excused(b)'
    <2>1. /\ UNCHANGED <<refs, users, debris, orphans, jobOf, todo>>
          /\ b \in stored[p] \/ b = Head(todo[r])
          /\ \A a \in Actor \ {r} : pc'[a] = pc[a]
          /\ pc[r] = "write" /\ pc'[r] = "record"
      BY <1>0, <1>3, <1>10 DEF WriteBlock
    <2>2. CASE b = Head(todo[r])
      BY <2>1, <2>2 DEF Excused, Unrecorded
    <2>3. CASE b \in stored[p]
      <3>1. \A a \in Actor : orphans[a] # <<>> => a # r /\ pc[a] \in Deleting
        BY <1>2, <2>1, PCs
      <3> QED
        BY <1>6, <1>7, <2>1, <2>3, <3>1
    <2> QED
      BY <2>1, <2>2, <2>3
  <1>11. ASSUME NEW r \in Run, RecordBlock(r) PROVE Excused(b)'
    <2>1. /\ UNCHANGED <<stored, users, debris, orphans, jobOf>>
          /\ refs'[b] = (IF b = Head(todo[r]) THEN refs[b] + 1 ELSE refs[b]) /\ refs[b] \in Nat
          /\ \A a \in Actor \ {r} : pc'[a] = pc[a] /\ todo'[a] = todo[a]
          /\ pc[r] = "record"
      BY <1>0, <1>4, <1>11 DEF RecordBlock
    <2>2. CASE b = Head(todo[r])
      BY <2>1, <2>2 DEF Excused
    <2>3. CASE b # Head(todo[r])
      <3>1. \A a \in Actor : orphans[a] # <<>> => a # r /\ pc[a] \in Deleting
        BY <1>2, <2>1, PCs
      <3>2. Excused(b)
        BY <1>3, <1>6, <2>1
      <3> QED
        BY <1>1, <2>1, <2>3, <3>1, <3>2 DEF Excused, Unrecorded, BlocksIn
    <2> QED
      BY <2>2, <2>3
  <1>12. ASSUME NEW a \in Actor, ReleaseRef(a) PROVE Excused(b)'
    <2> DEFINE c == Head(todo[a])
    <2>1. /\ UNCHANGED <<stored, users, debris, jobOf, pc>>
          /\ refs'[b] = (IF b # c THEN refs[b] ELSE IF refs[b] > 0 THEN refs[b] - 1 ELSE 0)
          /\ \A x \in Actor \ {a} : orphans'[x] = orphans[x] /\ todo'[x] = todo[x]
          /\ orphans'[a] = IF refs[c] = 1 THEN Append(orphans[a], c) ELSE orphans[a]
          /\ pc[a] = "gcrefs" /\ todo[a] # <<>> /\ refs[b] \in Nat /\ orphans[a] \in Seq(Block)
      BY <1>0, <1>4, <1>12 DEF ReleaseRef
    <2>2. Excused(b)
      BY <1>3, <1>6, <2>1
    <2>3. c \in Block
      BY <2>1, HeadBlock
    <2>4. /\ BlocksIn(orphans[a]) \subseteq BlocksIn(orphans'[a])
          /\ refs[c] = 1 => c \in BlocksIn(orphans'[a])
      BY <2>1, <2>3, BlocksInAppend
    <2>5. CASE refs[b] > 0
      <3>1. refs'[b] > 0 \/ b \in BlocksIn(orphans'[a])
        BY <2>1, <2>4, <2>5
      <3> QED
        BY <2>1, <3>1, PCs DEF Excused, BlocksIn
    <2>6. ASSUME NEW r \in Run, Unrecorded(r, b) PROVE Excused(b)'
      <3>1. r # a
        BY <2>1, <2>6 DEF Unrecorded
      <3> QED
        BY <2>1, <2>6, <3>1 DEF Excused, Unrecorded
    <2>7. ASSUME NEW x \in Actor, pc[x] \in Deleting, b \in BlocksIn(orphans[x]) PROVE Excused(b)'
      <3>1. b \in BlocksIn(orphans'[x])
        BY <2>1, <2>4, <2>7
      <3> QED
        BY <2>1, <2>7, <3>1 DEF Excused, BlocksIn
    <2>8. CASE b \in debris
      BY <2>1, <2>8 DEF Excused
    <2> QED
      BY <2>2, <2>5, <2>6, <2>7, <2>8 DEF Excused
  <1>13. ASSUME NEW a \in Actor, DeleteBlock(a) PROVE Excused(b)'
    <2> DEFINE c == Head(orphans[a])
    <2>1. /\ UNCHANGED <<refs, users, jobOf, pc, todo>>
          /\ \A x \in Actor : orphans'[x] = IF x = a THEN Tail(orphans[a]) ELSE orphans[x]
          /\ (stored' = stored /\ debris' = debris \cup {c})
             \/ (stored' = [stored EXCEPT ![RepoOfRun(target[a])] = @ \ {c}] /\ debris' = debris)
          /\ pc[a] = "gcphys" /\ orphans[a] # <<>> /\ orphans[a] \in Seq(Block)
      BY <1>0, <1>13 DEF DeleteBlock
    <2>2. /\ BlocksIn(orphans[a]) \subseteq BlocksIn(Tail(orphans[a])) \cup {c}
          /\ c \in BlocksIn(orphans[a])
      BY <2>1, BlocksInTail
    <2>3. b \in stored[p] /\ Excused(b)
      BY <1>0, <1>3, <1>6, <2>1
    <2>4. b = c => c \in debris'
      <3> SUFFICES ASSUME b = c, stored' = [stored EXCEPT ![RepoOfRun(target[a])] = @ \ {c}]
                   PROVE  FALSE
        BY <2>1
      <3>1. target[a] \in users[b]
        BY <1>4, <2>1, <2>2 DEF Orphaned, UsersExact
      <3>2. RepoOfRun(target[a]) = p
        BY <1>3, <2>1, <3>1 DEF RepoOfRun
      <3> QED
        BY <1>0, <1>3, <3>2
    <2>5. CASE b = c
      BY <2>4, <2>5 DEF Excused
    <2>6. CASE b # c
      <3>1. \A x \in Actor : b \in BlocksIn(orphans[x]) => b \in BlocksIn(orphans'[x])
        BY <2>1, <2>2, <2>6
      <3>2. debris \subseteq debris'
        BY <2>1
      <3> QED
        BY <2>1, <2>3, <3>1, <3>2 DEF Excused, Unrecorded, BlocksIn
    <2> QED
      BY <2>5, <2>6
  <1>14. ASSUME NEW a \in Actor, Stop(a) PROVE Excused(b)'
    <2>1. /\ UNCHANGED <<stored, refs, users, jobOf>> /\ debris' = debris \cup LeftBehind(a)
          /\ \A x \in Actor \ {a} : pc'[x] = pc[x] /\ todo'[x] = todo[x] /\ orphans'[x] = orphans[x]
      BY <1>0, <1>14 DEF Stop
    <2>2. Excused(b)
      BY <1>3, <1>6, <2>1
    <2>3. ASSUME NEW r \in Run, Unrecorded(r, b) PROVE Excused(b)'
      BY <1>4, <2>1, <2>3, StopLeaves DEF Excused, Unrecorded
    <2>4. ASSUME NEW x \in Actor, pc[x] \in Deleting, b \in BlocksIn(orphans[x]) PROVE Excused(b)'
      BY <1>4, <2>1, <2>4, StopLeaves DEF Excused, BlocksIn
    <2> QED
      BY <2>1, <2>2, <2>3, <2>4 DEF Excused
  <1>15. ASSUME Crash PROVE Excused(b)'
    <2>1. /\ UNCHANGED <<stored, refs, users, jobOf>>
          /\ debris' = debris \cup UNION {LeftBehind(a) : a \in Actor}
      BY <1>15 DEF Crash
    <2>2. Excused(b)
      BY <1>3, <1>6, <2>1
    <2>3. \A a \in Actor : b \in LeftBehind(a) => b \in debris'
      BY <2>1
    <2>4. (\E r \in Run : Unrecorded(r, b))
              \/ (\E a \in Actor : pc[a] \in Deleting /\ b \in BlocksIn(orphans[a])) => b \in debris'
      BY <1>4, <2>3, StopLeaves
    <2> QED
      BY <2>1, <2>2, <2>4 DEF Excused
  \* The other steps.
  <1>16. ASSUME UNCHANGED <<stored, refs, users, jobOf, debris>>,
                \A r \in Run : pc[r] = "record" => pc'[r] = "record" /\ todo'[r] = todo[r],
                \A a \in Actor : orphans[a] # <<>> => orphans'[a] = orphans[a] /\ pc'[a] \in Deleting
         PROVE  Excused(b)'
    <2>1. Excused(b)
      BY <1>3, <1>6, <1>16
    <2> QED
      BY <1>7, <1>16, <2>1
  <1>17. ASSUME NEW r \in Run, \/ SaveManifest(r) \/ AddToIndex(r) \/ InsertRow(r)
                               \/ UpdateRepoUsed(r) \/ PruneNext(r)
                               \/ \E keep \in SUBSET rows : SelectPrune(r, keep)
         PROVE  Excused(b)'
    <2>1. /\ UNCHANGED <<stored, refs, users, jobOf, debris, orphans>>
          /\ \A a \in Actor \ {r} : pc'[a] = pc[a] /\ todo'[a] = todo[a]
          /\ pc[r] \in {"save", "index", "row", "used", "prune", "retain"}
      BY <1>0, <1>17 DEF SaveManifest, AddToIndex, InsertRow, UpdateRepoUsed, PruneNext, SelectPrune
    <2>2. \A a \in Actor : orphans[a] # <<>> => a # r /\ pc[a] \in Deleting
      BY <1>2, <2>1, PCs
    <2> QED
      BY <1>16, <2>1, <2>2
  <1>18. ASSUME NEW c \in Client, ClientStep(c) PROVE Excused(b)'
    <2>1. /\ UNCHANGED <<stored, refs, users, jobOf, debris, orphans>>
          /\ \A a \in Actor \ {c} : pc'[a] = pc[a] /\ todo'[a] = todo[a]
          /\ pc[c] \in {"idle", "wait"}
      BY <1>0, <1>18 DEF ClientStep, RequestDelete, BeginDelete
    <2>2. \A a \in Actor : orphans[a] # <<>> => a # c /\ pc[a] \in Deleting
      BY <1>2, <2>1, PCs
    <2> QED
      BY <1>16, <2>1, <2>2
  <1>19. ASSUME NEW a \in Actor, DeleteRow(a) \/ DeleteManifest(a) \/ DeleteIndexRow(a) \/ EndDelete(a)
         PROVE  Excused(b)'
    <2>1. /\ UNCHANGED <<stored, refs, users, jobOf, debris, orphans>>
          /\ \A x \in Actor \ {a} : pc'[x] = pc[x] /\ todo'[x] = todo[x]
          /\ pc[a] \in Deleting
          /\ pc'[a] \in Deleting \/ pc[a] = "gcrow" \/ orphans[a] = <<>>
      BY <1>0, <1>19 DEF DeleteRow, DeleteManifest, DeleteIndexRow, EndDelete, Deleting
    <2>2. \A x \in Actor : orphans[x] # <<>> => pc[x] \in Deleting /\ pc'[x] \in Deleting
      BY <1>2, <2>1, PCs
    <2> QED
      BY <1>16, <2>1, <2>2, PCs DEF Deleting
  <1>20. ASSUME UNCHANGED <<stored, refs, users, jobOf, debris, orphans, pc, todo>> PROVE Excused(b)'
    <2>1. \A a \in Actor : orphans[a] # <<>> => pc[a] \in Deleting
      BY <1>2, PCs
    <2> QED
      BY <1>16, <1>20, <2>1
  <1>21. (\E s \in Run : PlaceHold(s) \/ ReleaseHold(s)) \/ UNCHANGED vars
            => UNCHANGED <<stored, refs, users, jobOf, debris, orphans, pc, todo>>
    BY DEF PlaceHold, ReleaseHold, vars
  <1>22. ASSUME NEW r \in Run, RunStep(r) PROVE Excused(b)'
    BY <1>8, <1>9, <1>10, <1>11, <1>17, <1>22 DEF RunStep
  <1>23. ASSUME NEW a \in Actor, DeleteStep(a) PROVE Excused(b)'
    BY <1>12, <1>13, <1>19, <1>23 DEF DeleteStep
  <1> QED
    BY <1>14, <1>15, <1>18, <1>20, <1>21, <1>22, <1>23 DEF Next
\* A deletion that has read a manifest keeps it until it releases.
LEMMA ReadFrame ==
    ASSUME HandsInv, ManifestRead,
           \A s \in Run : Past(s) => content'[s] = content[s] /\ (s \in saved' => s \in saved),
           \A a \in Actor : pc'[a] = "gcrow" =>
                \/ pc[a] = "gcrow" /\ target'[a] = target[a] /\ todo'[a] = todo[a]
                \/ UNCHANGED <<saved, content>> /\ todo'[a] = ManifestRefs(target'[a])
    PROVE  ManifestRead'
  <1> USE DEF HandsInv, BaseInv
  <1>1. SUFFICES ASSUME NEW a \in Actor, pc'[a] = "gcrow", target'[a] \in saved'
                 PROVE  todo'[a] = content'[target'[a]]
    BY DEF ManifestRead
  <1>2. CASE pc[a] = "gcrow" /\ target'[a] = target[a] /\ todo'[a] = todo[a]
    <2>1. target[a] \in Run /\ target[a] # 0
      BY <1>2, Actors DEF Suffix, Deleting
    <2>2. Past(target[a])
      BY <2>1 DEF StoreInv, PastCollecting
    <2> QED
      BY <1>1, <1>2, <2>1, <2>2 DEF ManifestRead
  <1>3. CASE UNCHANGED <<saved, content>> /\ todo'[a] = ManifestRefs(target'[a])
    BY <1>1, <1>3 DEF ManifestRefs
  <1> QED
    BY <1>1, <1>2, <1>3

LEMMA ReadNext ==
    ASSUME HandsInv, ManifestRead, [Next]_vars
    PROVE  ManifestRead'
  <1> USE Actors, PCs DEF HandsInv, BaseInv
  <1>0. /\ pc \in [Actor -> PC] /\ todo \in [Actor -> Seq(Block)]
        /\ target \in [Actor -> Run \cup {0}] /\ content \in [Run -> Seq(Block)]
    BY Types
  <1>1. ASSUME NEW r \in Run, RunStep(r), ~PruneNext(r) PROVE ManifestRead'
    <2>1. /\ ~Past(r) \/ UNCHANGED <<saved, content>>
          /\ \A s \in Run \ {r} : content'[s] = content[s] /\ (s \in saved' => s \in saved)
          /\ \A a \in Actor \ {r} : pc'[a] = pc[a] /\ target'[a] = target[a] /\ todo'[a] = todo[a]
          /\ pc'[r] # "gcrow"
      BY <1>0, <1>1 DEF RunStep, StartRun, LookUp, WriteBlock, RecordBlock, SaveManifest, AddToIndex,
         InsertRow, UpdateRepoUsed, SelectPrune, NextChunk, Past
    <2> QED
      BY <2>1, ReadFrame
  <1>2. ASSUME NEW r \in Run, PruneNext(r) PROVE ManifestRead'
    <2>1. /\ UNCHANGED <<saved, content>>
          /\ \A a \in Actor \ {r} : pc'[a] = pc[a] /\ target'[a] = target[a] /\ todo'[a] = todo[a]
          /\ pc'[r] = "gcrow" => todo'[r] = ManifestRefs(target'[r])
      BY <1>0, <1>2 DEF PruneNext
    <2> QED
      BY <2>1, ReadFrame
  <1>3. ASSUME NEW c \in Client, ClientStep(c) PROVE ManifestRead'
    <2>1. /\ UNCHANGED <<saved, content>>
          /\ \A a \in Actor \ {c} : pc'[a] = pc[a] /\ target'[a] = target[a] /\ todo'[a] = todo[a]
          /\ pc'[c] = "gcrow" => todo'[c] = ManifestRefs(target'[c])
      BY <1>0, <1>3 DEF ClientStep, RequestDelete, BeginDelete
    <2> QED
      BY <2>1, ReadFrame
  <1>4. ASSUME NEW a \in Actor, DeleteStep(a) \/ Stop(a) PROVE ManifestRead'
    <2>1. /\ content' = content /\ saved' \subseteq saved
          /\ \A x \in Actor \ {a} : pc'[x] = pc[x] /\ target'[x] = target[x] /\ todo'[x] = todo[x]
          /\ pc'[a] # "gcrow"
      BY <1>0, <1>4 DEF DeleteStep, DeleteRow, ReleaseRef, DeleteManifest, DeleteIndexRow, DeleteBlock,
         EndDelete, Stop, Halted
    <2> QED
      BY <2>1, ReadFrame
  <1>5. ASSUME Crash PROVE ManifestRead'
    <2>1. content' = content /\ saved' = saved /\ \A a \in Actor : pc'[a] # "gcrow"
      BY <1>0, <1>5 DEF Crash, Halted
    <2> QED
      BY <2>1, ReadFrame
  <1>6. ASSUME UNCHANGED <<saved, content, pc, target, todo>> PROVE ManifestRead'
    BY <1>6, ReadFrame
  <1>7. (\E s \in Run : PlaceHold(s) \/ ReleaseHold(s)) \/ UNCHANGED vars
            => UNCHANGED <<saved, content, pc, target, todo>>
    BY DEF PlaceHold, ReleaseHold, vars
  <1> QED
    BY <1>1, <1>2, <1>3, <1>4, <1>5, <1>6, <1>7 DEF Next

-----------------------------------------------------------------------------
(***************************************************************************)
(* Leaks: refcounts without a manifest.                                    *)
(***************************************************************************)

LEMMA EntryIs ==
    ASSUME NEW b, NEW s \in Run, NEW i \in Nat
    PROVE  /\ <<s, i>> \in Entries(b) <=> i \in 1..Len(content[s]) /\ content[s][i] = b
           /\ <<s, i>> \in Counting(b) <=> <<s, i>> \in Entries(b) /\ Counts(s, i)
  BY DEF Entries, Counting

LEMMA AreEntries ==
    ASSUME NEW b
    PROVE  /\ Counting(b) \subseteq Entries(b) /\ Entries(b) \subseteq Run \X Nat
           /\ \A x \in Run \X Nat : x[1] \in Run /\ x[2] \in Nat /\ x = <<x[1], x[2]>>
  BY DEF Entries, Counting

\* A set between others in the count.
LEMMA Grows ==
    ASSUME NEW S, NEW T, IsFiniteSet(T), S \subseteq T
    PROVE  /\ IsFiniteSet(S) /\ Cardinality(S) \in Nat /\ Cardinality(T) \in Nat
           /\ Cardinality(S) <= Cardinality(T)
  BY FS_Subset, FS_CardinalityType

LEMMA LessOne ==
    ASSUME NEW S, NEW x, IsFiniteSet(S)
    PROVE  Cardinality(S \ {x}) >= Cardinality(S) - 1
  <1>1. Cardinality(S) \in Nat
    BY FS_CardinalityType
  <1>2. Cardinality(S \ {x}) = IF x \in S THEN Cardinality(S) - 1 ELSE Cardinality(S)
    BY FS_RemoveElement
  <1> QED
    BY <1>1, <1>2

\* The target of a deletion is a run that has stopped collecting.
LEMMA TargetPast ==
    ASSUME HandsInv, NEW a \in Actor, pc[a] \in Deleting
    PROVE  target[a] \in Run /\ Past(target[a])
  BY Actors DEF HandsInv, BaseInv, StoreInv, PastCollecting, Suffix

\* A step that releases nothing: no manifest goes before it is released, no run
\* is stopped but its blocks are debris.
LEMMA CountedFrame ==
    ASSUME HandsInv, ManifestRead, Counted, UNCHANGED <<refs, content>>, debris \subseteq debris',
           \A s \in Run : s \in saved \/ pc[s] \in Collecting =>
                \/ s \in saved' \/ pc'[s] \in Collecting
                \/ Blocks(s) \subseteq debris'
                \/ \E a \in Actor : pc[a] = "gcrefs" /\ target[a] = s /\ todo[a] = <<>>,
           \A s \in Run : Working(s)' => Working(s),
           \A a \in Actor : pc'[a] = "gcrefs" =>
                pc[a] \in {"gcrow", "gcrefs"} /\ target'[a] = target[a] /\ todo'[a] = todo[a]
    PROVE  Counted'
  <1> USE DEF HandsInv, BaseInv
  <1>1. SUFFICES ASSUME NEW b \in Block
                 PROVE  IsFiniteSet(Entries(b)') /\ (b \notin debris' => refs'[b] <= Cardinality(Counting(b)'))
    BY DEF Counted, Entries, Counting, Counts, Working
  <1>2. Entries(b)' = Entries(b) /\ IsFiniteSet(Entries(b))
    BY DEF Entries, Counted
  <1>3. ASSUME b \notin debris' PROVE refs'[b] <= Cardinality(Counting(b)')
    <2>1. ASSUME NEW s \in Run, NEW i \in Nat, <<s, i>> \in Counting(b) PROVE <<s, i>> \in Counting(b)'
      <3>0. Len(content[s]) \in Nat
        BY Types
      <3>1. i \in 1..Len(content[s]) /\ content[s][i] = b /\ Counts(s, i)
        BY <2>1, EntryIs
      <3>2. b \in Blocks(s)
        BY <3>1 DEF Blocks
      <3>3. s \in saved \/ pc[s] \in Collecting
        BY <3>1 DEF Counts
      <3>4. ASSUME NEW a \in Actor, pc[a] = "gcrefs", target[a] = s
            PROVE  todo[a] # <<>> /\ i > Len(content[s]) - Len(todo[a])
        <4>1. i > Len(content[s]) - Len(todo[a])
          BY <3>1, <3>4 DEF Counts
        <4>2. ASSUME todo[a] = <<>> PROVE FALSE
          <5>1. Len(todo[a]) = 0
            BY <4>2
          <5> QED
            BY <3>0, <3>1, <4>1, <5>1
        <4> QED
          BY <4>1, <4>2
      <3>5. s \in saved' \/ pc'[s] \in Collecting
        BY <1>3, <3>2, <3>3, <3>4
      <3>6. ~(Working(s)' /\ i = Len(content'[s]))
        BY <3>1 DEF Counts
      <3>7. ASSUME NEW a \in Actor, pc'[a] = "gcrefs", target'[a] = s
            PROVE  i > Len(content'[s]) - Len(todo'[a])
        <4>1. CASE pc[a] = "gcrefs"
          BY <3>4, <3>7, <4>1
        <4>2. CASE pc[a] = "gcrow"
          <5>1. target[a] = s /\ todo'[a] = todo[a] /\ pc[a] \in Deleting
            BY <3>7, <4>2, PCs
          <5>2. s \in saved
            BY <3>3, <5>1, TargetPast DEF Past
          <5>3. todo[a] = content[s]
            BY <4>2, <5>1, <5>2 DEF ManifestRead
          <5> QED
            BY <3>1, <5>1, <5>3
        <4> QED
          BY <3>7, <4>1, <4>2
      <3>8. Counts(s, i)'
        BY <3>5, <3>6, <3>7 DEF Counts
      <3>9. <<s, i>> \in Entries(b)'
        BY <1>2, <2>1, EntryIs
      <3> QED
        BY <3>8, <3>9 DEF Counting
    <2>2. Counting(b) \subseteq Counting(b)'
      BY <2>1, AreEntries
    <2>3. Counting(b)' \subseteq Entries(b)
      BY <1>2 DEF Counting
    <2>4. IsFiniteSet(Counting(b)')
      BY <1>2, <2>3, Grows
    <2>5. refs[b] \in Nat /\ refs[b] <= Cardinality(Counting(b))
      BY <1>3, Types DEF Counted
    <2> QED
      BY <2>2, <2>4, <2>5, Grows
  <1> QED
    BY <1>2, <1>3

LEMMA CountedLookUp ==
    ASSUME HandsInv, Counted, NEW r \in Run, LookUp(r)
    PROVE  Counted'
  <1> USE Actors, PCs DEF HandsInv, BaseInv
  <1> DEFINE n == Len(content[r])
  <1>1. todo[r] # <<>> /\ pc[r] = "chunk"
    BY DEF LookUp, StoreInv, TypeInv, StepsOK
  <1>2. /\ UNCHANGED <<refs, saved, debris, target>>
        /\ content' = [content EXCEPT ![r] = Append(@, Head(todo[r]))]
        /\ \A a \in Actor \ {r} : pc'[a] = pc[a] /\ todo'[a] = todo[a]
        /\ pc'[r] \in {"chunk", "write", "save"}
    BY Types DEF LookUp, NextChunk
  <1>3. /\ n \in Nat /\ Len(content'[r]) = n + 1
        /\ \A i \in 1..n : content'[r][i] = content[r][i]
        /\ \A s \in Run \ {r} : content'[s] = content[s]
    <2>1. content[r] \in Seq(Block) /\ Head(todo[r]) \in Block
      BY <1>1, HeadBlock, Types
    <2>2. content'[r] = Append(content[r], Head(todo[r])) /\ \A s \in Run \ {r} : content'[s] = content[s]
      BY <1>2, Types
    <2> QED
      BY <2>1, <2>2, AppendProperties
  <1>4. \A a \in Actor : pc[a] = "gcrefs" => target[a] # r
    BY <1>1, TargetPast DEF Past
  <1>5. SUFFICES ASSUME NEW b \in Block
                 PROVE  IsFiniteSet(Entries(b)') /\ (b \notin debris' => refs'[b] <= Cardinality(Counting(b)'))
    BY DEF Counted, Entries, Counting, Counts, Working
  <1> HIDE DEF n
  <1>6. IsFiniteSet(Entries(b)')
    <2>1. Entries(b)' \subseteq Entries(b) \cup {<<r, n + 1>>}
      <3>1. ASSUME NEW s \in Run, NEW i \in Nat, <<s, i>> \in Entries(b)'
            PROVE  <<s, i>> \in Entries(b) \cup {<<r, n + 1>>}
        <4>1. i \in 1..Len(content'[s]) /\ content'[s][i] = b
          BY <3>1 DEF Entries
        <4>2. CASE s # r
          BY <1>3, <4>1, <4>2, EntryIs
        <4>3. CASE s = r /\ i # n + 1
          <5>1. i \in 1..n
            BY <1>3, <4>1, <4>3
          <5> QED
            BY <1>3, <4>1, <4>3, <5>1, EntryIs DEF n
        <4> QED
          BY <4>2, <4>3
      <3>2. Entries(b)' \subseteq Run \X Nat
        BY DEF Entries
      <3> QED
        BY <3>1, <3>2
    <2>2. IsFiniteSet(Entries(b) \cup {<<r, n + 1>>})
      BY FS_AddElement DEF Counted
    <2> QED
      BY <2>1, <2>2, Grows
  <1>7. Counting(b) \subseteq Counting(b)'
    <2>1. ASSUME NEW s \in Run, NEW i \in Nat, <<s, i>> \in Counting(b) PROVE <<s, i>> \in Counting(b)'
      <3>0. Len(content[s]) \in Nat
        BY Types
      <3>1. i \in 1..Len(content[s]) /\ content[s][i] = b /\ Counts(s, i)
        BY <2>1, EntryIs
      <3>2. i \in 1..Len(content'[s]) /\ content'[s][i] = b
        BY <1>3, <3>1 DEF n
      <3>3. s \in saved' \/ pc'[s] \in Collecting
        BY <1>2, <3>1 DEF Counts
      <3>4. ~(Working(s)' /\ i = Len(content'[s]))
        BY <1>2, <1>3, <3>1 DEF Counts, Working, n
      <3>5. \A a \in Actor : pc'[a] = "gcrefs" /\ target'[a] = s =>
                i > Len(content'[s]) - Len(todo'[a])
        BY <1>2, <1>3, <1>4, <3>1 DEF Counts
      <3>6. Counts(s, i)'
        BY <3>3, <3>4, <3>5 DEF Counts
      <3> QED
        BY <3>2, <3>6 DEF Counting, Entries
    <2> QED
      BY <2>1, AreEntries
  <1>8. IsFiniteSet(Counting(b)')
    <2>1. Counting(b)' \subseteq Entries(b)'
      BY DEF Counting
    <2> QED
      BY <1>6, <2>1, Grows
  <1>9. b \notin debris => refs[b] \in Nat /\ refs[b] <= Cardinality(Counting(b))
    BY Types DEF Counted
  <1> QED
    BY <1>2, <1>6, <1>7, <1>8, <1>9, Grows

LEMMA CountedRecordBlock ==
    ASSUME HandsInv, Counted, NEW r \in Run, RecordBlock(r)
    PROVE  Counted'
  <1> USE Actors, PCs DEF HandsInv, BaseInv
  <1> DEFINE n == Len(content[r])
             h == Head(todo[r])
  <1>1. pc[r] = "record" /\ Working(r) /\ h \in Block /\ content[r] # <<>> /\ content[r][n] = h
    <2>1. pc[r] = "record" /\ todo[r] # <<>>
      BY DEF RecordBlock, StoreInv, TypeInv, StepsOK
    <2> QED
      BY <2>1, HeadBlock DEF Working, AtHead
  <1>2. /\ UNCHANGED <<content, saved, debris, target>>
        /\ \A b \in Block : refs'[b] = (IF b = h THEN refs[b] + 1 ELSE refs[b])
        /\ \A a \in Actor \ {r} : pc'[a] = pc[a] /\ todo'[a] = todo[a]
        /\ pc'[r] \in {"chunk", "save"}
    BY <1>1, Types DEF RecordBlock, NextChunk
  <1>3. n \in Nat /\ n \in 1..n
    <2>1. content[r] \in Seq(Block) /\ content[r] # <<>>
      BY <1>1, Types
    <2> QED
      BY <2>1
  <1>4. \A a \in Actor : pc[a] = "gcrefs" => target[a] # r
    BY <1>1, TargetPast DEF Past
  <1>5. SUFFICES ASSUME NEW b \in Block
                 PROVE  IsFiniteSet(Entries(b)') /\ (b \notin debris' => refs'[b] <= Cardinality(Counting(b)'))
    BY DEF Counted, Entries, Counting, Counts, Working
  <1>6. Entries(b)' = Entries(b) /\ IsFiniteSet(Entries(b))
    BY <1>2 DEF Entries, Counted
  <1>7. \A a \in Actor : pc'[a] = "gcrefs" => pc[a] = "gcrefs" /\ todo'[a] = todo[a]
    BY <1>2
  <1>8. ASSUME NEW s \in Run, NEW i \in Nat, <<s, i>> \in Counting(b) PROVE <<s, i>> \in Counting(b)'
    <2>1. i \in 1..Len(content[s]) /\ content[s][i] = b /\ Counts(s, i) /\ <<s, i>> \in Entries(b)
      BY <1>8, EntryIs
    <2>2. s \in saved' \/ pc'[s] \in Collecting
      BY <1>2, <2>1 DEF Counts
    <2>3. ~(Working(s)' /\ i = Len(content'[s]))
      BY <1>2, <2>1 DEF Counts, Working
    <2>4. \A a \in Actor : pc'[a] = "gcrefs" /\ target'[a] = s => i > Len(content'[s]) - Len(todo'[a])
      BY <1>2, <1>7, <2>1 DEF Counts
    <2>5. Counts(s, i)'
      BY <2>2, <2>3, <2>4 DEF Counts
    <2> QED
      BY <1>6, <2>1, <2>5 DEF Counting
  <1>9. ASSUME b = h PROVE <<r, n>> \in Counting(b)' /\ <<r, n>> \notin Counting(b)
    <2>1. <<r, n>> \in Entries(b)
      BY <1>1, <1>3, <1>9, EntryIs
    <2>2. ~Counts(r, n)
      BY <1>1 DEF Counts
    <2>3. Counts(r, n)'
      BY <1>2, <1>4, <1>7 DEF Counts, Working
    <2>4. <<r, n>> \in Entries(b)'
      BY <1>2, <1>6, <2>1
    <2>5. <<r, n>> \in Counting(b)'
      BY <1>2, <2>3, <2>4 DEF Counting
    <2> QED
      BY <2>2, <2>5 DEF Counting
  <1> HIDE DEF n, h
  <1>10. Counting(b) \subseteq Counting(b)'
    BY <1>8, AreEntries
  <1>11. Counting(b)' \subseteq Entries(b) /\ IsFiniteSet(Counting(b)') /\ IsFiniteSet(Counting(b))
    <2>1. Counting(b)' \subseteq Entries(b) /\ Counting(b) \subseteq Entries(b)
      BY <1>6 DEF Counting
    <2> QED
      BY <1>6, <2>1, Grows
  <1>12. ASSUME b \notin debris PROVE refs'[b] <= Cardinality(Counting(b)')
    <2>1. refs[b] \in Nat /\ refs[b] <= Cardinality(Counting(b)) /\ Cardinality(Counting(b)) \in Nat
      BY <1>11, <1>12, Types, FS_CardinalityType DEF Counted
    <2>2. CASE b # h
      BY <1>2, <1>10, <1>11, <2>1, <2>2, Grows
    <2>3. CASE b = h
      <3>1. Cardinality(Counting(b) \cup {<<r, n>>}) = Cardinality(Counting(b)) + 1
        BY <1>9, <1>11, <2>3, FS_AddElement
      <3>2. Counting(b) \cup {<<r, n>>} \subseteq Counting(b)'
        BY <1>9, <1>10, <2>3
      <3>3. /\ Cardinality(Counting(b) \cup {<<r, n>>}) <= Cardinality(Counting(b)')
            /\ Cardinality(Counting(b)') \in Nat
        BY <1>11, <3>2, Grows
      <3> QED
        BY <1>2, <2>1, <2>3, <3>1, <3>3
    <2> QED
      BY <2>2, <2>3
  <1> QED
    BY <1>2, <1>6, <1>12

LEMMA CountedReleaseRef ==
    ASSUME HandsInv, Counted, NEW a \in Actor, ReleaseRef(a)
    PROVE  Counted'
  <1> USE Actors, PCs DEF HandsInv, BaseInv
  <1> DEFINE t == target[a]
             h == Head(todo[a])
             n == Len(content[t])
             m == Len(todo[a])
             k == (n - m) + 1
  <1>1. /\ pc[a] = "gcrefs" /\ todo[a] # <<>> /\ t \in Run /\ h \in Block /\ EndOf(todo[a], t)
        /\ m \in Nat /\ m > 0 /\ Len(Tail(todo[a])) = m - 1
    <2>1. pc[a] = "gcrefs" /\ todo[a] # <<>>
      BY DEF ReleaseRef
    <2> QED
      BY <2>1, HeadBlock DEF Suffix
  <1>2. h = content[t][k] /\ n \in Nat /\ m <= n
    <2>1. n \in Nat
      BY <1>1, Types
    <2>2. m <= n
      BY <1>1 DEF EndOf
    <2>3. h = content[t][k]
      BY <1>1, EndOfTail
    <2> QED
      BY <2>1, <2>2, <2>3
  <1>3. /\ UNCHANGED <<content, saved, debris, target, pc>>
        /\ \A b \in Block : refs'[b] = (IF b # h THEN refs[b] ELSE IF refs[b] > 0 THEN refs[b] - 1 ELSE 0)
        /\ \A x \in Actor \ {a} : todo'[x] = todo[x]
        /\ Len(todo'[a]) = m - 1
    BY <1>1, Types DEF ReleaseRef
  <1> HIDE DEF t, h, n, m
  <1>4. k \in 1..n
    BY <1>1, <1>2
  <1>5. SUFFICES ASSUME NEW b \in Block
                 PROVE  IsFiniteSet(Entries(b)') /\ (b \notin debris' => refs'[b] <= Cardinality(Counting(b)'))
    BY DEF Counted, Entries, Counting, Counts, Working
  <1>6. Entries(b)' = Entries(b) /\ IsFiniteSet(Entries(b))
    BY <1>3 DEF Entries, Counted
  <1>7. ASSUME NEW s \in Run, NEW i \in Nat, <<s, i>> \in Counting(b), <<s, i>> # <<t, k>>
        PROVE  <<s, i>> \in Counting(b)'
    <2>1. i \in 1..Len(content[s]) /\ Counts(s, i) /\ <<s, i>> \in Entries(b)
      BY <1>7, EntryIs
    <2>2. \A x \in Actor : pc'[x] = "gcrefs" /\ target'[x] = s => i > Len(content'[s]) - Len(todo'[x])
      <3>1. CASE s # t
        BY <1>3, <2>1, <3>1 DEF Counts, t
      <3>2. CASE s = t
        <4>1. i > n - m
          BY <1>1, <2>1, <3>2 DEF Counts, t, n, m
        <4>2. i > n - (m - 1)
          BY <1>1, <1>2, <1>7, <3>2, <4>1
        <4> QED
          BY <1>3, <2>1, <3>2, <4>2 DEF Counts, n
      <3> QED
        BY <3>1, <3>2
    <2>3. Counts(s, i)'
      BY <1>3, <2>1, <2>2 DEF Counts, Working
    <2> QED
      BY <1>6, <2>1, <2>3 DEF Counting
  <1>8. b # h => <<t, k>> \notin Counting(b)
    <2>1. k \in Nat
      BY <1>4
    <2> QED
      BY <1>1, <1>2, <2>1, EntryIs
  <1> HIDE DEF k
  <1>9. Counting(b) \ {<<t, k>>} \subseteq Counting(b)'
    BY <1>7, AreEntries
  <1>10. IsFiniteSet(Counting(b)') /\ IsFiniteSet(Counting(b))
    <2>1. Counting(b)' \subseteq Entries(b) /\ Counting(b) \subseteq Entries(b)
      BY <1>6 DEF Counting
    <2> QED
      BY <1>6, <2>1, Grows
  <1>11. /\ Cardinality(Counting(b) \ {<<t, k>>}) <= Cardinality(Counting(b)')
         /\ Cardinality(Counting(b)') \in Nat /\ Cardinality(Counting(b)) \in Nat
         /\ Cardinality(Counting(b) \ {<<t, k>>}) \in Nat
    BY <1>9, <1>10, Grows
  <1>12. ASSUME b \notin debris PROVE refs'[b] <= Cardinality(Counting(b)')
    <2>1. refs[b] \in Nat /\ refs[b] <= Cardinality(Counting(b))
      BY <1>12, Types DEF Counted
    <2>2. CASE b # h
      <3>1. Counting(b) \ {<<t, k>>} = Counting(b)
        BY <1>8, <2>2
      <3>2. refs'[b] = refs[b]
        BY <1>3, <2>2
      <3>3. Cardinality(Counting(b)) <= Cardinality(Counting(b)')
        BY <1>11, <3>1
      <3> QED
        BY <1>11, <2>1, <3>2, <3>3
    <2>3. CASE b = h
      <3>1. Cardinality(Counting(b) \ {<<t, k>>}) >= Cardinality(Counting(b)) - 1
        BY <1>10, LessOne
      <3>2. refs'[b] = IF refs[b] > 0 THEN refs[b] - 1 ELSE 0
        BY <1>3, <2>3
      <3> QED
        BY <1>11, <2>1, <3>1, <3>2
    <2> QED
      BY <2>2, <2>3
  <1> QED
    BY <1>3, <1>6, <1>12

LEMMA CountedNext ==
    ASSUME HandsInv, ManifestRead, Counted, [Next]_vars
    PROVE  Counted'
  <1> USE Actors, PCs DEF HandsInv, BaseInv
  <1>0. /\ pc \in [Actor -> PC] /\ todo \in [Actor -> Seq(Block)]
        /\ target \in [Actor -> Run \cup {0}]
    BY Types
  <1>1. \A r \in Run : pc[r] \in {"index", "row"} => r \in saved
    BY DEF StoreInv, Written
  <1>2. \A a \in Actor : pc[a] \in {"index", "row"} => a \in Run
    BY DEF StoreInv, TypeInv, StepsOK
  <1>3. ASSUME NEW r \in Run, \/ \E j \in Job, src \in Source : StartRun(r, j, src)
                              \/ WriteBlock(r) \/ SaveManifest(r) \/ AddToIndex(r) \/ InsertRow(r)
                              \/ UpdateRepoUsed(r) \/ PruneNext(r)
                              \/ \E keep \in SUBSET rows : SelectPrune(r, keep)
        PROVE  Counted'
    <2>1. /\ UNCHANGED <<refs, content, debris>> /\ saved \subseteq saved'
          /\ \A a \in Actor \ {r} : pc'[a] = pc[a] /\ target'[a] = target[a] /\ todo'[a] = todo[a]
          /\ pc'[r] # "gcrefs"
          /\ pc[r] \in Collecting => pc[r] = "row" \/ pc'[r] \in Collecting
          /\ pc'[r] \in {"write", "record"} => pc[r] = "write"
      BY <1>0, <1>3 DEF StartRun, WriteBlock, SaveManifest, AddToIndex,
         InsertRow, UpdateRepoUsed, PruneNext, SelectPrune
    <2> QED
      BY <1>1, <2>1, CountedFrame DEF Working
  <1>4. ASSUME NEW c \in Client, ClientStep(c) PROVE Counted'
    <2>1. /\ UNCHANGED <<refs, content, debris, saved>>
          /\ \A a \in Actor \ {c} : pc'[a] = pc[a] /\ target'[a] = target[a] /\ todo'[a] = todo[a]
          /\ pc'[c] # "gcrefs"
      BY <1>0, <1>4 DEF ClientStep, RequestDelete, BeginDelete
    <2> QED
      BY <2>1, CountedFrame DEF Working
  <1>5. ASSUME NEW a \in Actor, DeleteRow(a) \/ DeleteManifest(a) \/ DeleteIndexRow(a)
                                \/ DeleteBlock(a) \/ EndDelete(a)
        PROVE  Counted'
    <2>1. /\ UNCHANGED <<refs, content>> /\ debris \subseteq debris'
          /\ \A x \in Actor \ {a} : pc'[x] = pc[x] /\ target'[x] = target[x] /\ todo'[x] = todo[x]
          /\ pc[a] \in Deleting /\ pc'[a] \notin Collecting
          /\ \A s \in saved : s \in saved' \/ (pc[a] = "gcrefs" /\ target[a] = s /\ todo[a] = <<>>)
      BY <1>0, <1>5 DEF DeleteRow, DeleteManifest, DeleteIndexRow, DeleteBlock, EndDelete, Halted
    <2>2. pc'[a] = "gcrefs" => pc[a] \in {"gcrow", "gcrefs"} /\ target'[a] = target[a] /\ todo'[a] = todo[a]
      <3>1. pc'[a] = "gcrefs" => DeleteRow(a)
        BY <1>0, <1>5 DEF DeleteManifest, DeleteIndexRow, DeleteBlock, EndDelete
      <3> QED
        BY <1>0, <3>1 DEF DeleteRow, Halted
    <2>3. pc[a] \notin Collecting /\ pc'[a] \notin {"write", "record"}
      BY <2>1
    <2> QED
      BY <2>1, <2>2, <2>3, CountedFrame DEF Working
  <1>6. ASSUME NEW s \in Run, pc[s] \in Collecting
        PROVE  s \in saved \/ Blocks(s) = LeftBehind(s)
    BY <1>1, <1>6, StopLeaves DEF LeftBehind
  <1>7. ASSUME NEW a \in Actor, Stop(a) PROVE Counted'
    <2>1. /\ UNCHANGED <<refs, content, saved>> /\ debris' = debris \cup LeftBehind(a)
          /\ \A x \in Actor \ {a} : pc'[x] = pc[x] /\ target'[x] = target[x] /\ todo'[x] = todo[x]
          /\ pc'[a] \in {"done", "idle"}
      BY <1>0, <1>7 DEF Stop, Halted
    <2> QED
      BY <1>6, <2>1, CountedFrame DEF Working
  <1>8. ASSUME Crash PROVE Counted'
    <2>1. /\ UNCHANGED <<refs, content, saved>>
          /\ debris' = debris \cup UNION {LeftBehind(a) : a \in Actor}
          /\ \A x \in Actor : pc'[x] \in {"new", "done", "idle"}
      BY <1>0, <1>8 DEF Crash, Halted
    <2>2. \A s \in Run : LeftBehind(s) \subseteq debris'
      BY <2>1
    <2> QED
      BY <1>6, <2>1, <2>2, CountedFrame DEF Working
  <1>9. ASSUME UNCHANGED <<refs, content, saved, debris, pc, target, todo>> PROVE Counted'
    BY <1>9, CountedFrame DEF Working
  <1>10. (\E s \in Run : PlaceHold(s) \/ ReleaseHold(s)) \/ UNCHANGED vars
            => UNCHANGED <<refs, content, saved, debris, pc, target, todo>>
    BY DEF PlaceHold, ReleaseHold, vars
  <1>11. ASSUME NEW r \in Run, RunStep(r) PROVE Counted'
    BY <1>3, <1>11, CountedLookUp, CountedRecordBlock DEF RunStep
  <1>12. ASSUME NEW a \in Actor, DeleteStep(a) PROVE Counted'
    BY <1>5, <1>12, CountedReleaseRef DEF DeleteStep
  <1> QED
    BY <1>4, <1>7, <1>8, <1>9, <1>10, <1>11, <1>12 DEF Next

LEMMA LeakInit == Init => LeakInv
  <1> SUFFICES ASSUME Init PROVE LeakInv
    OBVIOUS
  <1>1. ManifestRead /\ BytesExplained
    BY Actors DEF Init, ManifestRead, BytesExplained
  <1>2. Counted
    <2> SUFFICES ASSUME NEW b \in Block
                 PROVE  IsFiniteSet(Entries(b)) /\ refs[b] <= Cardinality(Counting(b))
      BY DEF Counted
    <2>1. \A s \in Run : Len(content[s]) = 0
      BY DEF Init
    <2>2. Entries(b) = {} /\ Counting(b) = {}
      BY <2>1 DEF Entries, Counting
    <2>3. refs[b] = 0
      BY DEF Init
    <2> QED
      BY <2>2, <2>3, FS_EmptySet
  <1> QED
    BY <1>1, <1>2, HandsInit DEF LeakInv

LEMMA LeakNext == LeakInv /\ [Next]_vars => LeakInv'
  <1> SUFFICES ASSUME LeakInv, [Next]_vars PROVE LeakInv'
    OBVIOUS
  <1> USE DEF LeakInv
  <1>1. HandsInv'
    BY HandsNext
  <1>2. BytesExplained'
    BY <1>1, BytesNext
  <1>3. ManifestRead' /\ Counted'
    BY ReadNext, CountedNext
  <1> QED
    BY <1>1, <1>2, <1>3

\* Every refcount is covered by manifest entries that are not released yet, or
\* is a stopped task's, in every reachable state.
THEOREM LeakInvariant == Spec => []LeakInv
  BY LeakInit, LeakNext, PTL DEF Spec

\* What is kept without a snapshot was left by a task that stopped, or is in
\* the hands of one.
THEOREM LeaksAreExplained == Spec => []LeaksExplained
  <1>1. LeakInv => LeaksExplained
    <2> SUFFICES ASSUME LeakInv, NEW b \in Block, refs[b] > 0, b \notin debris
                 PROVE  \/ \E s \in saved : b \in Blocks(s)
                        \/ \E r \in Run : pc[r] \in Collecting /\ b \in Blocks(r)
      BY DEF LeaksExplained, RefcountsExplained, LeakInv
    <2> USE DEF LeakInv, HandsInv, BaseInv
    <2>1. refs[b] \in Nat /\ refs[b] <= Cardinality(Counting(b)) /\ IsFiniteSet(Entries(b))
      BY Types DEF Counted
    <2>2. Counting(b) # {}
      <3>1. Cardinality({}) = 0
        BY FS_EmptySet
      <3> QED
        BY <2>1, <3>1
    <2>3. PICK s \in Run, i \in Nat : <<s, i>> \in Counting(b)
      BY <2>2, AreEntries
    <2>4. i \in 1..Len(content[s]) /\ content[s][i] = b /\ Counts(s, i)
      BY <2>3, EntryIs
    <2>5. b \in Blocks(s)
      BY <2>4 DEF Blocks
    <2> QED
      BY <2>4, <2>5 DEF Counts
  <1> QED
    BY <1>1, LeakInvariant, PTL
=============================================================================
