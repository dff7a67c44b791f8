---------------------------- MODULE StorageProofs ----------------------------
(***************************************************************************)
(* Safety of what keeps and returns backups' data, each proved for its own *)
(* specification and for every value of its constants: the blocks of a     *)
(* storage backend, the restores of single files, the tapes, the           *)
(* connections of exports, the images of VMs and all their readers, and    *)
(* the chunks of data.                                                     *)
(***************************************************************************)
EXTENDS BlockStore, FileRestore, Tape, VmImage, DiskWire, Chunker, FiniteSetTheorems,
        SequenceTheorems, WellFoundedInduction, TLAPS

(***************************************************************************)
(* The backends keep the promise of AtomicBlocks for any number of ids and *)
(* calls.                                                                  *)
(*                                                                         *)
(* What is in place, and what the disk has of it, was synced before it was *)
(* renamed, so a failure of the machine chooses between two whole states.  *)
(* That an acknowledged write is there needs two facts more: a call that   *)
(* was answered ok is over, and only a call of the same id disturbs an id. *)
(***************************************************************************)
\* Everything a reader may see is whole, and lasts.
AllSynced ==
    \A b \in BlockId : /\ inPlace[b].whole /\ inPlace[b].synced
                       /\ onDisk[b].whole /\ onDisk[b].synced

\* A service that stores objects has no state of its own to fall back to.
ObjectsLast == backend # "local" => onDisk = inPlace

\* What the place of a call in its code says of the call.
CallsSound ==
    \A c \in StoreCall :
        /\ scall[c].at # "new" => scall[c].id \in BlockId
        /\ scall[c].at \in {"put", "delete"} => backend # "local"
        /\ scall[c].at \in {"created", "written", "synced", "remove"} => backend = "local"
        /\ scall[c].at \in {"remove", "delete"} => scall[c].op = "delete"
        /\ heard[c] = "ok" => scall[c].at = "over"

\* Another call that has taken up the id of this one.
Rivals(c) == {d \in StoreCall \ {c} : scall[d].at # "new" /\ scall[d].id = scall[c].id}

\* WriteKept, for calls that no other call has got in the way of so far.
Undisturbed ==
    \A c \in StoreCall :
        heard[c] = "ok" /\ scall[c].op = "write" /\ scall[c].id \notin reverted /\ Rivals(c) = {}
        => inPlace[scall[c].id].of = c

BlockInv == BlockTypeOK /\ AllSynced /\ ObjectsLast /\ CallsSound /\ Undisturbed
-----------------------------------------------------------------------------
\* The initial state satisfies the invariant.
LEMMA BlockInvInit == BlockInit => BlockInv
  <1> SUFFICES ASSUME BlockInit PROVE BlockInv
    OBVIOUS
  <1>1. BlockTypeOK
    BY DEF BlockInit, BlockTypeOK, Absent, FileState, NewStoreCall
  <1>2. AllSynced /\ ObjectsLast
    BY DEF BlockInit, AllSynced, ObjectsLast, Absent
  <1>3. CallsSound /\ Undisturbed
    BY DEF BlockInit, CallsSound, Undisturbed, NewStoreCall
  <1> QED
    BY <1>1, <1>2, <1>3 DEF BlockInv

\* What a call has stored, or what it leaves when it has deleted, is whole and lasts.
LEMMA Lasting ==
    /\ Absent \in FileState /\ Absent.whole /\ Absent.synced /\ Absent.of = NoBytes
    /\ \A c \in StoreCall : LET f == BytesOf(c, TRUE) IN
            f \in FileState /\ f.whole /\ f.synced /\ f.of = c
  BY DEF Absent, BytesOf, FileState

\* A step of one call.
CallStep(c) ==
    \/ \E b \in BlockId : BeginLocal(c, b) \/ BeginObject(c, b)
    \/ WriteFile(c) \/ SyncFile(c) \/ RenameFile(c) \/ DeleteLocal(c) \/ AbortLocal(c)
    \/ StoreObject(c) \/ DeleteObject(c) \/ LoseObject(c)

\* A step that answers nothing to a writer and changes nothing a reader may see.
Quiet(c) == heard'[c] # "ok" /\ UNCHANGED <<inPlace, onDisk>>

\* A step that puts file in place and ends the call; a service that stores objects has nothing else.
Leaves(c, file) ==
    /\ scall[c].at # "new" /\ scall'[c].at = "over" /\ scall[c].id \in BlockId
    /\ inPlace' = [inPlace EXCEPT ![scall[c].id] = file]
    /\ \/ backend # "local" /\ onDisk' = inPlace'
       \/ backend = "local" /\ onDisk' = onDisk

\* What a step of a call does to the call: it goes on with the id and the operation it began with.
GoesOn(c) ==
    /\ scall[c].at # "over" /\ scall'[c].at # "new" /\ scall'[c].id \in BlockId
    /\ scall[c].at # "new" => scall'[c].id = scall[c].id /\ scall'[c].op = scall[c].op
    /\ scall'[c].at \in {"put", "delete"} => backend # "local"
    /\ scall'[c].at \in {"created", "written", "synced", "remove"} => backend = "local"
    /\ scall'[c].at \in {"remove", "delete"} => scall'[c].op = "delete"

Call == [at : {"new", "created", "written", "synced", "put", "remove", "delete", "over"},
         op : {"", "write", "delete"}, id : BlockId \cup {""}]

\* The calls besides the one that takes a step.
Others(c) ==
    /\ scall' \in [StoreCall -> Call] /\ heard' \in [StoreCall -> {"", "ok", "error"}]
    /\ \A d \in StoreCall \ {c} : scall'[d] = scall[d] /\ heard'[d] = heard[d]

Effect(c) ==
    /\ UNCHANGED <<backend, reverted>> /\ GoesOn(c) /\ Others(c)
    /\ \/ Quiet(c) \/ Leaves(c, BytesOf(c, TRUE))
       \/ Leaves(c, Absent) /\ scall[c].op = "delete"

\* A call that begins.
LEMMA BeginEffect ==
    ASSUME BlockInv, NEW c \in StoreCall, NEW b \in BlockId, BeginLocal(c, b) \/ BeginObject(c, b)
    PROVE  Effect(c)
  <1>1. BlockTypeOK /\ CallsSound /\ scall \in [StoreCall -> Call]
    BY DEF BlockInv, BlockTypeOK, Call
  <1>2. scall[c] = NewStoreCall
    BY DEF BeginLocal, BeginObject
  <1>3. scall[c].at = "new"
    <2>1. NewStoreCall.at = "new"
      BY DEF NewStoreCall
    <2> QED
      BY <1>2, <2>1
  <1>4. heard[c] # "ok"
    BY <1>1, <1>3 DEF CallsSound
  <1>a. ASSUME NEW at, NEW op, scall' = [scall EXCEPT ![c] = [at |-> at, op |-> op, id |-> b]],
               \/ backend = "local" /\ at = "created" /\ op = "write"
               \/ backend = "local" /\ at = "remove" /\ op = "delete"
               \/ backend # "local" /\ at = "put" /\ op = "write"
               \/ backend # "local" /\ at = "delete" /\ op = "delete"
        PROVE  \E t \in {"created", "remove", "put", "delete"}, o \in {"write", "delete"} :
            /\ scall' = [scall EXCEPT ![c] = [at |-> t, op |-> o, id |-> b]]
            /\ t \in {"put", "delete"} => backend # "local"
            /\ t \in {"created", "remove"} => backend = "local"
            /\ t \in {"remove", "delete"} => o = "delete"
    <2>1. at \in {"created", "remove", "put", "delete"} /\ op \in {"write", "delete"}
      BY <1>a
    <2> QED
      BY <1>a, <2>1
  <1>5. PICK at \in {"created", "remove", "put", "delete"}, op \in {"write", "delete"} :
            /\ scall' = [scall EXCEPT ![c] = [at |-> at, op |-> op, id |-> b]]
            /\ at \in {"put", "delete"} => backend # "local"
            /\ at \in {"created", "remove"} => backend = "local"
            /\ at \in {"remove", "delete"} => op = "delete"
    <2>1. CASE BeginLocal(c, b)
      BY <1>a, <2>1 DEF BeginLocal
    <2>2. CASE BeginObject(c, b)
      BY <1>a, <2>2 DEF BeginObject
    <2> QED
      BY <2>1, <2>2
  <1>6. UNCHANGED <<backend, inPlace, onDisk, heard, reverted>>
    BY DEF BeginLocal, BeginObject
  <1>7. scall'[c] = [at |-> at, op |-> op, id |-> b] /\ [at |-> at, op |-> op, id |-> b] \in Call
    BY <1>1, <1>5 DEF Call
  <1>8. GoesOn(c)
    BY <1>3, <1>5, <1>6, <1>7 DEF GoesOn
  <1>9. Others(c)
    BY <1>1, <1>5, <1>6, <1>7 DEF Others, BlockTypeOK
  <1> QED
    BY <1>4, <1>6, <1>8, <1>9 DEF Effect, Quiet

\* A call that goes on to another place in its code.
LEMMA TurnEffect ==
    ASSUME BlockInv, NEW c \in StoreCall,
           NEW to \in {"written", "synced", "put", "delete", "over"}, NEW what \in {"", "ok", "error"},
           scall' = [scall EXCEPT ![c].at = to], scall[c].at \notin {"new", "over"},
           to \in {"put", "delete"} => to = scall[c].at,
           to \in {"written", "synced"} => scall[c].at \in {"created", "written"},
           heard' = [heard EXCEPT ![c] = what]
    PROVE  GoesOn(c) /\ Others(c) /\ heard'[c] = what /\ scall'[c].at = to
  <1>1. BlockTypeOK /\ CallsSound /\ scall \in [StoreCall -> Call]
    BY DEF BlockInv, BlockTypeOK, Call
  <1>2. scall'[c] = [scall[c] EXCEPT !.at = to] /\ [scall[c] EXCEPT !.at = to] \in Call
    BY <1>1 DEF Call
  <1>3. /\ scall'[c].at = to /\ scall'[c].id = scall[c].id /\ scall'[c].op = scall[c].op
        /\ scall[c].id \in BlockId
    BY <1>1, <1>2 DEF CallsSound, Call
  <1>4. GoesOn(c)
    BY <1>1, <1>3 DEF GoesOn, CallsSound
  <1>5. Others(c) /\ heard'[c] = what
    BY <1>1, <1>2 DEF Others, BlockTypeOK
  <1> QED
    BY <1>3, <1>4, <1>5

\* What a step answers is one of three things, whatever was answered before.
LEMMA CallAnswered ==
    ASSUME BlockInv, NEW c \in StoreCall, NEW what \in {"ok", "error"}, Answer(c, what)
    PROVE  \E w \in {"", "ok", "error"} :
              /\ heard' = [heard EXCEPT ![c] = w]
              /\ w = what \/ w = heard[c]
  <1>1. heard \in [StoreCall -> {"", "ok", "error"}]
    BY DEF BlockInv, BlockTypeOK
  <1>2. CASE heard[c] = ""
    BY <1>2 DEF Answer
  <1>3. CASE heard[c] # ""
    BY <1>1, <1>3 DEF Answer
  <1> QED
    BY <1>2, <1>3

\* What any step of a call does.
LEMMA CallEffect == ASSUME BlockInv, NEW c \in StoreCall, CallStep(c) PROVE Effect(c)
  <1>1. BlockTypeOK /\ CallsSound /\ ObjectsLast
    BY DEF BlockInv
  <1>2. heard = [heard EXCEPT ![c] = heard[c]] /\ heard[c] \in {"", "ok", "error"}
    BY <1>1 DEF BlockTypeOK
  <1>3. scall[c].at \notin {"new", "over"} => heard[c] # "ok" /\ scall[c].id \in BlockId
    BY <1>1 DEF CallsSound
  <1>4. ASSUME NEW b \in BlockId, BeginLocal(c, b) \/ BeginObject(c, b) PROVE Effect(c)
    BY <1>4, BeginEffect
  <1>5. CASE WriteFile(c) \/ SyncFile(c)
    <2>1. PICK to \in {"written", "synced"} : scall' = [scall EXCEPT ![c].at = to]
      BY <1>5 DEF WriteFile, SyncFile, Turn
    <2>2. /\ scall[c].at \in {"created", "written"}
          /\ UNCHANGED <<backend, inPlace, onDisk, heard, reverted>>
      BY <1>5 DEF WriteFile, SyncFile, Turn
    <2>3. GoesOn(c) /\ Others(c)
      BY <1>2, <2>1, <2>2, TurnEffect
    <2> QED
      BY <1>3, <2>2, <2>3 DEF Effect, Quiet
  <1>6. CASE RenameFile(c) \/ StoreObject(c)
    <2>1. PICK what \in {"ok", "error"} : Answer(c, what)
      BY <1>6 DEF RenameFile, StoreObject
    <2>2. PICK w \in {"", "ok", "error"} : heard' = [heard EXCEPT ![c] = w]
      BY <2>1, CallAnswered
    <2>3. scall' = [scall EXCEPT ![c].at = "over"] /\ scall[c].at \notin {"new", "over"}
      BY <1>6 DEF RenameFile, StoreObject, Turn
    <2>4. GoesOn(c) /\ Others(c) /\ scall'[c].at = "over"
      BY <2>2, <2>3, TurnEffect
    <2>5. Leaves(c, BytesOf(c, TRUE)) /\ UNCHANGED <<backend, reverted>>
      <3>1. /\ scall[c].at = "synced" => backend = "local"
            /\ scall[c].at = "put" => backend # "local"
        BY <1>1 DEF CallsSound
      <3>2. /\ inPlace' = [inPlace EXCEPT ![scall[c].id] = BytesOf(c, TRUE)]
            /\ \/ scall[c].at = "put" /\ onDisk' = inPlace'
               \/ scall[c].at = "synced" /\ onDisk' = onDisk
            /\ UNCHANGED <<backend, reverted>>
        BY <1>6 DEF RenameFile, StoreObject, Turn
      <3> QED
        BY <1>3, <2>3, <2>4, <3>1, <3>2 DEF Leaves
    <2> QED
      BY <2>4, <2>5 DEF Effect
  <1>7. CASE DeleteLocal(c) \/ DeleteObject(c)
    <2>1. PICK what \in {"ok", "error"} : Answer(c, what)
      BY <1>7 DEF DeleteLocal, DeleteObject
    <2>2. PICK w \in {"", "ok", "error"} : heard' = [heard EXCEPT ![c] = w]
      BY <2>1, CallAnswered
    <2>3. scall' = [scall EXCEPT ![c].at = "over"] /\ scall[c].at \in {"remove", "delete"}
      BY <1>7 DEF DeleteLocal, DeleteObject, Turn
    <2>4. GoesOn(c) /\ Others(c) /\ scall'[c].at = "over"
      BY <2>2, <2>3, TurnEffect
    <2>5. scall[c].op = "delete"
      BY <1>1, <2>3 DEF CallsSound
    <2>6. Leaves(c, Absent) /\ UNCHANGED <<backend, reverted>>
      <3>1. /\ scall[c].at = "remove" => backend = "local"
            /\ scall[c].at = "delete" => backend # "local"
        BY <1>1 DEF CallsSound
      <3>2. /\ inPlace' = [inPlace EXCEPT ![scall[c].id] = Absent]
            /\ \/ scall[c].at = "delete" /\ onDisk' = inPlace'
               \/ scall[c].at = "remove" /\ onDisk' = onDisk
            /\ UNCHANGED <<backend, reverted>>
        BY <1>7 DEF DeleteLocal, DeleteObject, Turn
      <3> QED
        BY <1>3, <2>3, <2>4, <3>1, <3>2 DEF Leaves
    <2> QED
      BY <2>4, <2>5, <2>6 DEF Effect
  <1>8. CASE AbortLocal(c) \/ LoseObject(c)
    <2>1. Answer(c, "error") /\ UNCHANGED <<backend, inPlace, onDisk, reverted>>
      BY <1>8 DEF AbortLocal, LoseObject
    <2>2. scall[c].at \notin {"new", "over"}
      BY <1>8 DEF AbortLocal, LoseObject
    <2>3. PICK w \in {"", "ok", "error"} :
              heard' = [heard EXCEPT ![c] = w] /\ (w = "error" \/ w = heard[c])
      BY <2>1, CallAnswered
    <2>4. PICK to \in {"put", "delete", "over"} :
              scall' = [scall EXCEPT ![c].at = to] /\ (to = scall[c].at \/ to = "over")
      <3>1. CASE AbortLocal(c)
        BY <3>1 DEF AbortLocal
      <3>2. CASE LoseObject(c) /\ scall' = scall
        <4>1. scall[c].at \in {"put", "delete"} /\ scall = [scall EXCEPT ![c].at = scall[c].at]
          BY <1>1, <3>2 DEF LoseObject, BlockTypeOK
        <4> QED
          BY <3>2, <4>1
      <3>3. CASE LoseObject(c) /\ scall' # scall
        BY <3>3 DEF LoseObject
      <3> QED
        BY <1>8, <3>1, <3>2, <3>3
    <2>5. GoesOn(c) /\ Others(c) /\ heard'[c] = w
      BY <2>2, <2>3, <2>4, TurnEffect
    <2>6. heard'[c] # "ok"
      BY <1>3, <2>2, <2>3, <2>5
    <2> QED
      BY <2>1, <2>5, <2>6 DEF Effect, Quiet
  <1> QED
    BY <1>4, <1>5, <1>6, <1>7, <1>8 DEF CallStep
-----------------------------------------------------------------------------
\* A file that a call leaves is whole and lasts.
LEMMA LeavesLasting ==
    ASSUME BlockInv, NEW c \in StoreCall, NEW file \in FileState, file.whole, file.synced, Leaves(c, file)
    PROVE  /\ inPlace' \in [BlockId -> FileState] /\ onDisk' \in [BlockId -> FileState]
           /\ inPlace'[scall[c].id] = file
           /\ \A b \in BlockId : b # scall[c].id => inPlace'[b] = inPlace[b]
           /\ AllSynced' /\ (backend # "local" => onDisk' = inPlace')
  <1>1. /\ inPlace \in [BlockId -> FileState] /\ onDisk \in [BlockId -> FileState]
        /\ AllSynced /\ scall[c].id \in BlockId
    BY DEF BlockInv, BlockTypeOK, Leaves
  <1>2. inPlace' = [inPlace EXCEPT ![scall[c].id] = file]
    BY DEF Leaves
  <1>3. /\ inPlace' \in [BlockId -> FileState] /\ inPlace'[scall[c].id] = file
        /\ \A b \in BlockId : b # scall[c].id => inPlace'[b] = inPlace[b]
    BY <1>1, <1>2
  <1>4. \A b \in BlockId : inPlace'[b].whole /\ inPlace'[b].synced
    BY <1>1, <1>3 DEF AllSynced
  <1>5. /\ onDisk' \in [BlockId -> FileState]
        /\ \A b \in BlockId : onDisk'[b].whole /\ onDisk'[b].synced
    BY <1>1, <1>3, <1>4 DEF AllSynced, Leaves
  <1> QED
    BY <1>3, <1>4, <1>5 DEF AllSynced, Leaves

\* No step of a call breaks the invariant.
LEMMA CallPreserves == ASSUME BlockInv, NEW c \in StoreCall, Effect(c) PROVE BlockInv'
  <1>1. BlockTypeOK /\ AllSynced /\ ObjectsLast /\ CallsSound /\ Undisturbed
    BY DEF BlockInv
  <1>2. UNCHANGED <<backend, reverted>> /\ GoesOn(c) /\ Others(c)
    BY DEF Effect
  <1>3. PICK file \in FileState :
            /\ file.whole /\ file.synced
            /\ Quiet(c) \/ Leaves(c, file)
            /\ Leaves(c, file) => file.of = c \/ scall[c].op = "delete"
    <2>1. Absent \in FileState /\ BytesOf(c, TRUE) \in FileState
      BY Lasting
    <2>2. CASE Quiet(c) \/ Leaves(c, BytesOf(c, TRUE))
      BY <2>1, <2>2, Lasting
    <2>3. CASE Leaves(c, Absent) /\ scall[c].op = "delete"
      BY <2>1, <2>3, Lasting
    <2> QED
      BY <2>2, <2>3 DEF Effect
  <1>4. /\ inPlace' \in [BlockId -> FileState] /\ onDisk' \in [BlockId -> FileState]
        /\ AllSynced' /\ ObjectsLast'
    <2>1. CASE Quiet(c)
      BY <1>1, <1>2, <2>1 DEF Quiet, BlockTypeOK, AllSynced, ObjectsLast
    <2>2. CASE Leaves(c, file)
      BY <1>2, <1>3, <2>2, LeavesLasting DEF ObjectsLast
    <2> QED
      BY <1>3, <2>1, <2>2
  <1>5. BlockTypeOK'
    BY <1>1, <1>2, <1>4 DEF BlockTypeOK, Others, Call
  <1>6. CallsSound'
    <2>1. heard'[c] = "ok" => scall'[c].at = "over"
      BY <1>1, <1>2, <1>3 DEF Quiet, Leaves
    <2> QED
      BY <1>1, <1>2, <2>1, ZenonT(30) DEF CallsSound, GoesOn, Others
  <1>7. Undisturbed'
    <2> SUFFICES ASSUME NEW d \in StoreCall, heard'[d] = "ok", scall'[d].op = "write",
                        scall'[d].id \notin reverted, Rivals(d)' = {}
                 PROVE  inPlace'[scall'[d].id].of = d
      BY <1>2 DEF Undisturbed
    <2>1. CASE d = c
      <3>1. Leaves(c, file) /\ scall'[c].id = scall[c].id /\ scall'[c].op = scall[c].op
        BY <1>2, <1>3, <2>1 DEF Quiet, Leaves, GoesOn
      <3>2. file.of = c
        BY <1>3, <2>1, <3>1
      <3> QED
        BY <1>3, <2>1, <3>1, <3>2, LeavesLasting
    <2>2. CASE d # c
      <3>1. scall'[d] = scall[d] /\ heard'[d] = heard[d] /\ scall[d].at = "over" /\ scall[d].id \in BlockId
        BY <1>1, <1>2, <2>2 DEF Others, CallsSound
      <3>2. c \notin Rivals(d)'
        OBVIOUS
      <3>3. scall'[c].id # scall[d].id
        BY <1>2, <2>2, <3>1, <3>2 DEF Rivals, GoesOn
      <3>4. c \notin Rivals(d)
        BY <1>2, <3>3 DEF Rivals, GoesOn
      <3>5. Rivals(d) = {}
        <4> SUFFICES ASSUME NEW e \in Rivals(d) PROVE FALSE
          OBVIOUS
        <4>1. e \in StoreCall \ {d} /\ scall[e].at # "new" /\ scall[e].id = scall[d].id /\ e # c
          BY <3>4 DEF Rivals
        <4>2. scall'[e] = scall[e]
          BY <1>2, <4>1 DEF Others
        <4>3. e \in Rivals(d)'
          BY <3>1, <4>1, <4>2 DEF Rivals
        <4> QED
          BY <4>3
      <3>6. inPlace[scall[d].id].of = d
        BY <1>1, <1>2, <3>1, <3>5 DEF Undisturbed
      <3>7. inPlace'[scall[d].id] = inPlace[scall[d].id]
        <4>1. CASE Quiet(c)
          BY <4>1 DEF Quiet
        <4>2. CASE Leaves(c, file)
          <5>1. scall[c].id # scall[d].id
            BY <1>2, <3>3, <4>2 DEF GoesOn, Leaves
          <5> QED
            BY <1>3, <3>1, <4>2, <5>1, LeavesLasting
        <4> QED
          BY <1>3, <4>1, <4>2
      <3> QED
        BY <3>1, <3>6, <3>7
    <2> QED
      BY <2>1, <2>2
  <1> QED
    BY <1>4, <1>5, <1>6, <1>7 DEF BlockInv

\* The journal writes what is in place.
LEMMA JournalPreserves == ASSUME BlockInv, NEW b \in BlockId, Journal(b) PROVE BlockInv'
  <1>1. BlockTypeOK /\ AllSynced /\ CallsSound /\ Undisturbed
    BY DEF BlockInv
  <1>2. /\ UNCHANGED <<backend, inPlace, scall, heard, reverted>> /\ backend = "local"
        /\ onDisk' = [onDisk EXCEPT ![b] = inPlace[b]]
    BY DEF Journal
  <1>3. BlockTypeOK' /\ AllSynced' /\ ObjectsLast'
    BY <1>1, <1>2 DEF BlockTypeOK, AllSynced, ObjectsLast
  <1>4. CallsSound' /\ Undisturbed'
    BY <1>1, <1>2 DEF CallsSound, Undisturbed, Rivals
  <1> QED
    BY <1>3, <1>4 DEF BlockInv

\* A failure of the machine leaves what was in place or what the disk had: both are whole.
LEMMA FailureChooses ==
    ASSUME BlockInv, MachineFailure
    PROVE  \A b \in BlockId : inPlace'[b] \in {inPlace[b], onDisk[b]}
  <1>1. ASSUME NEW b \in BlockId
        PROVE  AfterFailure(inPlace[b]) = {inPlace[b]} /\ AfterFailure(onDisk[b]) = {onDisk[b]}
    BY DEF BlockInv, AllSynced, AfterFailure
  <1>2. \A b \in BlockId : inPlace'[b] \in AfterFailure(inPlace[b]) \cup AfterFailure(onDisk[b])
    BY DEF MachineFailure
  <1> QED
    BY <1>1, <1>2

LEMMA FailurePreserves == ASSUME BlockInv, MachineFailure PROVE BlockInv'
  <1>1. BlockTypeOK /\ AllSynced /\ CallsSound /\ Undisturbed
    BY DEF BlockInv
  <1>2. /\ UNCHANGED <<backend, heard>> /\ backend = "local" /\ inPlace' \in [BlockId -> FileState]
        /\ onDisk' = inPlace' /\ reverted' = reverted \cup {b \in BlockId : inPlace'[b] # inPlace[b]}
    BY DEF MachineFailure
  <1>3. /\ \A c \in StoreCall : scall'[c] = IF scall[c].at = "new" THEN NewStoreCall
                                            ELSE [scall[c] EXCEPT !.at = "over"]
        /\ DOMAIN scall' = StoreCall /\ scall' = [c \in StoreCall |-> scall'[c]]
    BY DEF MachineFailure
  <1>4. ASSUME NEW c \in StoreCall
        PROVE  /\ scall'[c] \in Call
               /\ scall[c].at = "new" => scall'[c].at = "new"
               /\ scall[c].at # "new" => /\ scall'[c].at = "over" /\ scall'[c].id = scall[c].id
                                         /\ scall'[c].op = scall[c].op
    <2>1. scall[c] \in Call
      BY <1>1 DEF BlockTypeOK, Call
    <2>2. NewStoreCall \in Call /\ NewStoreCall.at = "new"
      BY DEF NewStoreCall, Call
    <2>3. CASE scall[c].at = "new"
      BY <1>3, <2>2, <2>3
    <2>4. CASE scall[c].at # "new"
      <3>1. scall'[c] = [scall[c] EXCEPT !.at = "over"]
        BY <1>3, <2>4
      <3> QED
        BY <2>1, <2>4, <3>1 DEF Call
    <2> QED
      BY <2>3, <2>4
  <1>5. scall' \in [StoreCall -> Call]
    BY <1>3, <1>4
  <1>6. \A b \in BlockId : inPlace'[b].whole /\ inPlace'[b].synced
    BY <1>1, FailureChooses DEF AllSynced
  <1>7. BlockTypeOK' /\ AllSynced' /\ ObjectsLast'
    BY <1>1, <1>2, <1>5, <1>6 DEF BlockTypeOK, AllSynced, ObjectsLast, Call
  <1>8. CallsSound'
    BY <1>1, <1>2, <1>4 DEF CallsSound
  <1>9. Undisturbed'
    <2> SUFFICES ASSUME NEW c \in StoreCall, heard'[c] = "ok", scall'[c].op = "write",
                        scall'[c].id \notin reverted', Rivals(c)' = {}
                 PROVE  inPlace'[scall'[c].id].of = c
      BY DEF Undisturbed
    <2>1. scall[c].at = "over" /\ heard[c] = "ok" /\ scall[c].id \in BlockId
      BY <1>1, <1>2 DEF CallsSound
    <2>2. scall'[c].id = scall[c].id /\ scall[c].op = "write"
      BY <1>4, <2>1
    <2>3. Rivals(c) = {}
      <3> SUFFICES ASSUME NEW d \in Rivals(c) PROVE FALSE
        OBVIOUS
      <3>1. d \in StoreCall \ {c} /\ scall[d].at # "new" /\ scall[d].id = scall[c].id
        BY DEF Rivals
      <3>2. d \in Rivals(c)'
        BY <1>4, <2>2, <3>1 DEF Rivals
      <3> QED
        BY <3>2
    <2>4. scall[c].id \notin reverted /\ inPlace'[scall[c].id] = inPlace[scall[c].id]
      BY <1>2, <2>1, <2>2
    <2> QED
      BY <1>1, <2>1, <2>2, <2>3, <2>4 DEF Undisturbed
  <1> QED
    BY <1>7, <1>8, <1>9 DEF BlockInv

\* Every step is one of a call, of the journal or of the machine.
LEMMA BlockSteps ==
    ASSUME BlockNext
    PROVE  \/ \E c \in StoreCall : CallStep(c)
           \/ \E b \in BlockId : Journal(b)
           \/ MachineFailure
  BY Zenon DEF BlockNext, CallStep

\* Every step preserves the invariant.
LEMMA BlockInvStep == BlockInv /\ [BlockNext]_blockVars => BlockInv'
  <1> SUFFICES ASSUME BlockInv, [BlockNext]_blockVars PROVE BlockInv'
    OBVIOUS
  <1>1. ASSUME NEW c \in StoreCall, CallStep(c) PROVE BlockInv'
    BY <1>1, CallEffect, CallPreserves
  <1>2. ASSUME NEW b \in BlockId, Journal(b) PROVE BlockInv'
    BY <1>2, JournalPreserves
  <1>3. CASE MachineFailure
    BY <1>3, FailurePreserves
  <1>4. CASE UNCHANGED blockVars
    <2>1. BlockTypeOK' /\ AllSynced' /\ ObjectsLast'
      BY <1>4 DEF blockVars, BlockInv, BlockTypeOK, AllSynced, ObjectsLast
    <2>2. CallsSound'
      BY <1>4 DEF blockVars, BlockInv, CallsSound
    <2>3. Undisturbed'
      BY <1>4 DEF blockVars, BlockInv, Undisturbed, Rivals
    <2> QED
      BY <2>1, <2>2, <2>3 DEF BlockInv
  <1>5. CASE BlockNext
    BY <1>1, <1>2, <1>3, <1>5, BlockSteps
  <1> QED
    BY <1>4, <1>5

\* The invariant holds in every reachable state: what a reader sees is whole and synced.
THEOREM BlockInvariant == BlockSpec => []BlockInv
  BY BlockInvInit, BlockInvStep, PTL DEF BlockSpec
-----------------------------------------------------------------------------
(* The promise *)

\* What a reader sees of files that are all whole.
LEMMA ViewOfWhole ==
    ASSUME NEW files, \A b \in BlockId : files[b].whole
    PROVE  View(files) = [b \in BlockId |-> files[b].of]
  BY DEF View

LEMMA PromiseInit == BlockInit => Promise!Init
  <1> SUFFICES ASSUME BlockInit PROVE Promise!Init
    OBVIOUS
  <1>1. inPlace = [b \in BlockId |-> Absent] /\ onDisk = inPlace
    BY DEF BlockInit
  <1>2. View(inPlace) = [b \in BlockId |-> inPlace[b].of]
    BY <1>1, Lasting, ViewOfWhole
  <1>3. View(inPlace) = [b \in BlockId |-> NoBytes]
    BY <1>1, <1>2, Lasting
  <1> QED
    BY <1>1, <1>3 DEF Promise!Init

\* The views of an invariant state.
LEMMA Views ==
    ASSUME BlockInv
    PROVE  /\ View(inPlace) = [b \in BlockId |-> inPlace[b].of]
           /\ View(onDisk) = [b \in BlockId |-> onDisk[b].of]
  BY ViewOfWhole DEF BlockInv, AllSynced

\* A call that leaves a file changes what is held under its id, and what is settled with it or not.
LEMMA PromiseLeaves ==
    ASSUME BlockInv, BlockInv', NEW c \in StoreCall, NEW file \in FileState, Leaves(c, file)
    PROVE  Promise!Becomes(scall[c].id, file.of)
  <1> DEFINE b == scall[c].id
  <1>1. b \in BlockId /\ inPlace \in [BlockId -> FileState] /\ onDisk \in [BlockId -> FileState]
    BY DEF Leaves, BlockInv, BlockTypeOK
  <1>2. inPlace' = [inPlace EXCEPT ![b] = file]
    BY DEF Leaves
  <1>3. /\ View(inPlace) = [x \in BlockId |-> inPlace[x].of]
        /\ View(onDisk) = [x \in BlockId |-> onDisk[x].of]
    BY Views
  <1>4. /\ View(inPlace)' = [x \in BlockId |-> inPlace'[x].of]
        /\ View(onDisk)' = [x \in BlockId |-> onDisk'[x].of]
    BY ViewOfWhole DEF BlockInv, AllSynced, View
  <1>5. View(inPlace)' = [View(inPlace) EXCEPT ![b] = file.of]
    BY <1>1, <1>2, <1>3, <1>4
  <1>6. View(onDisk)' = View(onDisk) \/ View(onDisk)' = [View(onDisk) EXCEPT ![b] = file.of]
    <2>1. CASE onDisk' = onDisk
      BY <1>3, <1>4, <2>1
    <2>2. CASE backend # "local" /\ onDisk' = inPlace'
      <3>1. onDisk = inPlace
        BY <2>2 DEF BlockInv, ObjectsLast
      <3> QED
        BY <1>3, <1>4, <1>5, <2>2, <3>1
    <2> QED
      BY <2>1, <2>2 DEF Leaves
  <1> QED
    BY <1>5, <1>6 DEF Promise!Becomes

\* A step of a call puts its bytes, removes the block, or changes nothing a reader may see.
LEMMA PromiseCall ==
    ASSUME BlockInv, BlockInv', NEW c \in StoreCall, Effect(c)
    PROVE  Promise!Next \/ UNCHANGED <<View(inPlace), View(onDisk)>>
  <1>1. CASE Quiet(c)
    BY <1>1 DEF Quiet, View
  <1>2. CASE Leaves(c, BytesOf(c, TRUE))
    <2>1. Promise!Becomes(scall[c].id, c) /\ scall[c].id \in BlockId
      BY <1>2, Lasting, PromiseLeaves DEF Leaves
    <2> QED
      BY <2>1 DEF Promise!Put, Promise!Next
  <1>3. CASE Leaves(c, Absent)
    <2>1. Promise!Becomes(scall[c].id, NoBytes) /\ scall[c].id \in BlockId
      BY <1>3, Lasting, PromiseLeaves DEF Leaves
    <2> QED
      BY <2>1 DEF Promise!Remove, Promise!Next
  <1> QED
    BY <1>1, <1>2, <1>3 DEF Effect

LEMMA PromiseJournal ==
    ASSUME BlockInv, BlockInv', NEW b \in BlockId, Journal(b) PROVE Promise!Next
  <1>1. inPlace' = inPlace /\ onDisk' = [onDisk EXCEPT ![b] = inPlace[b]] /\ onDisk \in [BlockId -> FileState]
    BY DEF Journal, BlockInv, BlockTypeOK
  <1>2. /\ View(inPlace) = [x \in BlockId |-> inPlace[x].of]
        /\ View(onDisk) = [x \in BlockId |-> onDisk[x].of]
    BY Views
  <1>3. View(inPlace)' = View(inPlace) /\ View(onDisk)' = [x \in BlockId |-> onDisk'[x].of]
    BY <1>1, ViewOfWhole DEF BlockInv, AllSynced, View
  <1>4. View(onDisk)' = [View(onDisk) EXCEPT ![b] = View(inPlace)[b]]
    BY <1>1, <1>2, <1>3
  <1> QED
    BY <1>3, <1>4 DEF Promise!Settle, Promise!Next

LEMMA PromiseFailure == ASSUME BlockInv, BlockInv', MachineFailure PROVE Promise!Next
  <1>1. /\ \A b \in BlockId : inPlace'[b] \in {inPlace[b], onDisk[b]}
        /\ onDisk' = inPlace' /\ inPlace' \in [BlockId -> FileState]
    BY FailureChooses DEF MachineFailure
  <1>2. /\ View(inPlace) = [x \in BlockId |-> inPlace[x].of]
        /\ View(onDisk) = [x \in BlockId |-> onDisk[x].of]
    BY Views
  <1>3. View(inPlace)' = [x \in BlockId |-> inPlace'[x].of] /\ View(onDisk)' = View(inPlace)'
    BY <1>1, ViewOfWhole DEF BlockInv, AllSynced, View
  <1>4. \A b \in BlockId : inPlace'[b].of \in StoreCall \cup {NoBytes}
    BY <1>1 DEF FileState
  <1>5. View(inPlace)' \in [BlockId -> StoreCall \cup {NoBytes}]
    BY <1>3, <1>4
  <1>6. \A b \in BlockId : View(inPlace)'[b] \in {View(inPlace)[b], View(onDisk)[b]}
    BY <1>1, <1>2, <1>3
  <1> QED
    BY <1>3, <1>5, <1>6 DEF Promise!MachineFails, Promise!Next

\* Every step is one of the promise, or shows nothing to a reader.
LEMMA PromiseStep ==
    BlockInv /\ BlockInv' /\ [BlockNext]_blockVars => [Promise!Next]_<<View(inPlace), View(onDisk)>>
  <1> SUFFICES ASSUME BlockInv, BlockInv', [BlockNext]_blockVars
               PROVE  Promise!Next \/ UNCHANGED <<View(inPlace), View(onDisk)>>
    OBVIOUS
  <1>1. ASSUME NEW c \in StoreCall, CallStep(c)
        PROVE  Promise!Next \/ UNCHANGED <<View(inPlace), View(onDisk)>>
    BY <1>1, CallEffect, PromiseCall
  <1>2. ASSUME NEW b \in BlockId, Journal(b) PROVE Promise!Next
    BY <1>2, PromiseJournal
  <1>3. CASE MachineFailure
    BY <1>3, PromiseFailure
  <1>4. CASE UNCHANGED blockVars
    BY <1>4 DEF blockVars, View
  <1>5. CASE BlockNext
    BY <1>1, <1>2, <1>3, <1>5, BlockSteps
  <1> QED
    BY <1>4, <1>5

\* What was answered is kept.
LEMMA KeptByInvariant == BlockInv => WriteKept
  BY DEF BlockInv, Undisturbed, Rivals, WriteKept

(* The promise, for any number of ids and calls: a reader sees the bytes of one write or nothing
   through concurrent writers, aborted calls, lost answers and failures of the machine, and what was
   answered ok is there unless another call or a failure took it back. *)
THEOREM PromiseKept == BlockSpec => KeepsPromise
  <1>1. BlockInit => Promise!Init
    BY PromiseInit
  <1>2. BlockInv /\ BlockInv' /\ [BlockNext]_blockVars
          => [Promise!Next]_<<View(inPlace), View(onDisk)>>
    BY PromiseStep
  <1>3. BlockInv => WriteKept
    BY KeptByInvariant
  <1>4. BlockInv' => WriteKept'
    BY <1>3, PTL
  <1>5. BlockInv' => [WriteKept']_blockVars
    BY <1>4
  <1> QED
    BY <1>1, <1>2, <1>5, BlockInvariant, PTL DEF BlockSpec, KeepsPromise, Promise!Spec

-----------------------------------------------------------------------------
(***************************************************************************)
(* Restores and downloads of files.                                        *)
(***************************************************************************)
CallFields == {"at", "how", "of", "left", "path", "done"}
AtFile == {"next", "create", "write", "completed"}
Pieces == BlockIds \cup {"none", "own", "hole", "rotten"}

RestoreShape ==
    /\ blockIs \in [BlockIds -> {"good", "rotten", "mismarked", "gone"}]
    /\ DOMAIN onTarget = Path /\ DOMAIN fcall = RestoreCall /\ DOMAIN got = RestoreCall
    /\ \A p \in Path : onTarget[p] \in Seq(Pieces)
    /\ opened \subseteq RestoreCall \X Path /\ shared \subseteq opened
    /\ cutOff \subseteq Path /\ mingled \subseteq Path

FcallShape(c) ==
    /\ DOMAIN fcall[c] = CallFields /\ fcall[c].at \in AtFile \cup {"new", "failed"}
    /\ fcall[c].at = "new" => got[c] = <<>>
    /\ fcall[c].at \in AtFile => fcall[c].of \in Snapshots /\ fcall[c].left \subseteq FilesOf(fcall[c].of)
    /\ fcall[c].at \in {"next", "create"} => fcall[c].done = 0
    /\ fcall[c].at = "create" => fcall[c].path \in FilesOf(fcall[c].of)
    /\ fcall[c].at = "write" => /\ fcall[c].path \in FilesOf(fcall[c].of)
                                /\ fcall[c].done \in 0 .. Len(FileOf(c)) - 1

\* As many pieces of its file as a download has read.
GotOf(c, n) ==
    /\ got[c] \in Seq(Pieces) /\ Len(got[c]) = n
    /\ \A i \in 1 .. n :
           got[c][i] = FileOf(c)[i] \/ (got[c][i] = "rotten" /\ MayRot(FileOf(c)[i]))

DownloadAt(c) ==
    fcall[c].at \in AtFile /\ fcall[c].how = "download" =>
        \/ fcall[c].at = "next" /\ got[c] = <<>> /\ \E p \in FilesOf(fcall[c].of) : fcall[c].left = {p}
        \/ fcall[c].at = "write" /\ fcall[c].left = {} /\ GotOf(c, fcall[c].done)
        \/ /\ fcall[c].at \in {"next", "completed"} /\ fcall[c].left = {}
           /\ fcall[c].path \in FilesOf(fcall[c].of) /\ GotOf(c, Len(FileOf(c)))

\* A file whose restores have not mingled holds what its only writer has written so far.
PrefixAt(p) ==
    p \notin mingled =>
        \A c \in Writers(p) :
            /\ Writers(p) = {c} /\ Len(onTarget[p]) = fcall[c].done
            /\ \A i \in 1 .. fcall[c].done : onTarget[p][i] = FileOf(c)[i]

RestsAt(p) ==
    Writers(p) = {} /\ p \notin cutOff \cup mingled =>
        \/ onTarget[p] \in {NoFile, OwnFile}
        \/ \E s \in Snapshots : p \in FilesOf(s) /\ onTarget[p] = BlocksOfFile[s][p]

CleanAt(p) == \A i \in DOMAIN onTarget[p] : onTarget[p][i] # "rotten"

FileAt(p) == PrefixAt(p) /\ RestsAt(p) /\ CleanAt(p)

\* A restore that had its file to itself is writing it, or has written it and nobody else has since.
OpenedAt(c, p) ==
    <<c, p>> \in opened \ shared =>
        /\ fcall[c].at \in AtFile /\ fcall[c].how # "download" /\ p \in FilesOf(fcall[c].of)
        /\ p \notin mingled
        /\ c \notin Writers(p) =>
               Writers(p) = {} /\ onTarget[p] = BlocksOfFile[fcall[c].of][p]

RestoreInv ==
    /\ RestoreShape
    /\ \A c \in RestoreCall : FcallShape(c) /\ DownloadAt(c)
    /\ \A p \in Path : FileAt(p)
    /\ \A c \in RestoreCall, p \in Path : OpenedAt(c, p)

-----------------------------------------------------------------------------
FcallStep(c, at, how, of, left, path, done) ==
    /\ DOMAIN fcall' = RestoreCall /\ \A d \in RestoreCall \ {c} : fcall'[d] = fcall[d]
    /\ DOMAIN fcall'[c] = CallFields
    /\ fcall'[c].at = at /\ fcall'[c].how = how /\ fcall'[c].of = of /\ fcall'[c].left = left
    /\ fcall'[c].path = path /\ fcall'[c].done = done

LEMMA FcallTaken ==
    ASSUME RestoreShape, NEW c \in RestoreCall, FcallShape(c), NEW p, NEW at, Take(c, p, at)
    PROVE  FcallStep(c, at, fcall[c].how, fcall[c].of, fcall[c].left \ {p}, p, fcall[c].done)
    BY DEF RestoreShape, FcallShape, Take, FcallStep, CallFields

LEMMA FcallTruncated ==
    ASSUME RestoreShape, NEW c \in RestoreCall, FcallShape(c), TruncateFile(c)
    PROVE  FcallStep(c, "write", fcall[c].how, fcall[c].of, fcall[c].left, fcall[c].path,
                     fcall[c].done)
    BY DEF RestoreShape, FcallShape, TruncateFile, FcallStep, CallFields

LEMMA FcallSkipped ==
    ASSUME RestoreShape, NEW c \in RestoreCall, FcallShape(c), NEW p, SkipFile(c, p)
    PROVE  FcallStep(c, "next", fcall[c].how, fcall[c].of, fcall[c].left \ {p}, fcall[c].path,
                     fcall[c].done)
    BY DEF RestoreShape, FcallShape, SkipFile, FcallStep, CallFields

LEMMA FcallFurther ==
    ASSUME RestoreShape, NEW c \in RestoreCall, FcallShape(c), fcall[c].at = "write", Further(c)
    PROVE  \/ /\ fcall[c].done + 1 < Len(FileOf(c))
              /\ FcallStep(c, "write", fcall[c].how, fcall[c].of, fcall[c].left, fcall[c].path,
                           fcall[c].done + 1)
           \/ /\ fcall[c].done + 1 = Len(FileOf(c))
              /\ FcallStep(c, "next", fcall[c].how, fcall[c].of, fcall[c].left, fcall[c].path, 0)
<1>1. CASE fcall[c].done + 1 < Len(FileOf(c))
  <2>1. fcall' = [fcall EXCEPT ![c].done = @ + 1]
    BY <1>1 DEF Further
  <2> QED
    BY <1>1, <2>1 DEF RestoreShape, FcallShape, FcallStep, CallFields
<1>2. CASE ~(fcall[c].done + 1 < Len(FileOf(c)))
  <2>1. fcall' = [fcall EXCEPT ![c].at = "next", ![c].done = 0]
    BY <1>2 DEF Further
  <2>2. fcall[c].done + 1 = Len(FileOf(c))
    BY <1>2 DEF FcallShape
  <2> QED
    BY <2>1, <2>2 DEF RestoreShape, FcallShape, FcallStep, CallFields
<1> QED
  BY <1>1, <1>2

LEMMA NewFcallIs ==
    /\ DOMAIN NewFcall = CallFields
    /\ NewFcall.at = "new" /\ NewFcall.how = "" /\ NewFcall.of = "" /\ NewFcall.left = {}
    /\ NewFcall.path = "" /\ NewFcall.done = 0
<1>1. DOMAIN NewFcall = CallFields
  BY DEF NewFcall, CallFields
<1>2. NewFcall.at = "new" /\ NewFcall.how = "" /\ NewFcall.of = "" /\ NewFcall.path = ""
  BY DEF NewFcall
<1>3. NewFcall.left = {} /\ NewFcall.done = 0
  BY DEF NewFcall
<1> QED
  BY <1>1, <1>2, <1>3

LEMMA FcallAsked ==
    ASSUME RestoreShape, NEW c \in RestoreCall, FcallShape(c), NEW s, NEW how, NEW files,
           AskFiles(c, s, how, files)
    PROVE  /\ fcall[c].at = "new"
           /\ \/ FcallStep(c, "next", how, s, files, "", 0)
              \/ FcallStep(c, "failed", "", "", {}, "", 0)
<1>1. fcall[c].at = "new"
  BY NewFcallIs DEF AskFiles
<1>2. CASE fcall' = [fcall EXCEPT ![c] = [NewFcall EXCEPT !.at = "failed"]]
  <2>1. fcall'[c] = [NewFcall EXCEPT !.at = "failed"]
    BY <1>2 DEF RestoreShape
  <2>2. DOMAIN fcall'[c] = CallFields /\ fcall'[c].at = "failed" /\ fcall'[c].how = ""
        /\ fcall'[c].of = "" /\ fcall'[c].left = {} /\ fcall'[c].path = "" /\ fcall'[c].done = 0
    BY <2>1, NewFcallIs DEF CallFields
  <2> QED
    BY <1>1, <1>2, <2>2 DEF RestoreShape, FcallStep
<1>3. CASE fcall' = [fcall EXCEPT ![c] =
                        [NewFcall EXCEPT !.at = "next", !.how = how, !.of = s, !.left = files]]
  <2>1. fcall'[c] = [NewFcall EXCEPT !.at = "next", !.how = how, !.of = s, !.left = files]
    BY <1>3 DEF RestoreShape
  <2>2. DOMAIN fcall'[c] = CallFields /\ fcall'[c].at = "next" /\ fcall'[c].how = how
        /\ fcall'[c].of = s /\ fcall'[c].left = files /\ fcall'[c].path = ""
        /\ fcall'[c].done = 0
    BY <2>1, NewFcallIs DEF CallFields
  <2> QED
    BY <1>1, <1>3, <2>2 DEF RestoreShape, FcallStep
<1> QED
  BY <1>1, <1>2, <1>3 DEF AskFiles

\* Calls that end write nothing any more.
LEMMA FcallEnded ==
    ASSUME RestoreShape, NEW calls \in SUBSET RestoreCall, EndAsFailed(calls)
    PROVE  /\ DOMAIN fcall' = RestoreCall /\ DOMAIN got' = RestoreCall
           /\ \A c \in RestoreCall \ calls : fcall'[c] = fcall[c] /\ got'[c] = got[c]
           /\ \A c \in calls : DOMAIN fcall'[c] = CallFields /\ fcall'[c].at = "failed"
           /\ onTarget' = onTarget /\ mingled' = mingled
           /\ opened' = {o \in opened : o[1] \notin calls}
           /\ shared' = {o \in shared : o[1] \notin calls}
           /\ cutOff' = cutOff \cup {p \in Path : calls \cap Writers(p) # {}}
<1>1. \A c \in calls : fcall'[c] = [NewFcall EXCEPT !.at = "failed"]
  BY DEF EndAsFailed
<1>2. \A c \in calls : DOMAIN fcall'[c] = CallFields /\ fcall'[c].at = "failed"
  BY <1>1 DEF NewFcall, CallFields
<1> QED
  BY <1>2 DEF EndAsFailed

\* What a call that is not among the changed ones is known to have read.
LEMMA FcallKept ==
    ASSUME NEW c, FcallShape(c), DownloadAt(c), fcall'[c] = fcall[c], got'[c] = got[c],
           \A b : MayRot(b) => MayRot(b)'
    PROVE  FcallShape(c)' /\ DownloadAt(c)'
<1>1. FileOf(c)' = FileOf(c)
  BY DEF FileOf
<1>2. \A n : GotOf(c, n) => GotOf(c, n)'
  BY <1>1 DEF GotOf
<1>3. FcallShape(c)'
  BY <1>1 DEF FcallShape
<1>4. DownloadAt(c)'
  BY <1>1, <1>2 DEF DownloadAt
<1> QED
  BY <1>3, <1>4

\* Who else writes to a file is not changed by the step of one call.
LEMMA OtherWriters ==
    ASSUME NEW c \in RestoreCall, \A d \in RestoreCall \ {c} : fcall'[d] = fcall[d], NEW p
    PROVE  /\ Writers(p)' \ {c} = Writers(p) \ {c}
           /\ c \in Writers(p)' <=> /\ fcall'[c].at = "write" /\ fcall'[c].how # "download"
                                    /\ fcall'[c].path = p
           /\ c \in Writers(p) <=> /\ fcall[c].at = "write" /\ fcall[c].how # "download"
                                   /\ fcall[c].path = p
    BY DEF Writers

\* The files of a snapshot.
LEMMA FilesHaveBlocks ==
    ASSUME RestoreAssumption, NEW c \in RestoreCall, FcallShape(c), fcall[c].at \in AtFile,
           NEW p \in FilesOf(fcall[c].of)
    PROVE  /\ p \in Path /\ BlocksOfFile[fcall[c].of][p] \in Seq(BlockIds)
           /\ Len(BlocksOfFile[fcall[c].of][p]) \in Nat \ {0}
<1>1. BlocksOfFile[fcall[c].of][p] \in Seq(BlockIds) \ {<<>>} /\ p \in Path
  BY DEF FcallShape, RestoreAssumption
<1>2. \A s \in Seq(BlockIds) : s # <<>> => Len(s) \in Nat \ {0}
  OBVIOUS
<1> QED
  BY <1>1, <1>2

\* A step that leaves the files and their writers as they are.
LEMMA FilesKept ==
    ASSUME RestoreInv, \A p \in Path : Writers(p)' = Writers(p),
           \A p \in Path : \A c \in Writers(p) : FileOf(c)' = FileOf(c) /\ fcall'[c].done = fcall[c].done,
           UNCHANGED <<onTarget, opened, shared, cutOff, mingled>>,
           \A c \in RestoreCall :
               fcall[c].at \in AtFile =>
                   fcall'[c].at \in AtFile /\ fcall'[c].how = fcall[c].how /\ fcall'[c].of = fcall[c].of
    PROVE  /\ \A p \in Path : FileAt(p)'
           /\ \A c \in RestoreCall, p \in Path : OpenedAt(c, p)'
<1>1. ASSUME NEW p \in Path PROVE FileAt(p)'
  <2>1. PrefixAt(p) /\ RestsAt(p) /\ CleanAt(p)
    BY DEF RestoreInv, FileAt
  <2>2. PrefixAt(p)'
    BY <2>1 DEF PrefixAt
  <2>3. RestsAt(p)'
    BY <2>1 DEF RestsAt
  <2>4. CleanAt(p)'
    BY <2>1 DEF CleanAt
  <2> QED
    BY <2>2, <2>3, <2>4 DEF FileAt
<1>2. ASSUME NEW c \in RestoreCall, NEW p \in Path PROVE OpenedAt(c, p)'
  BY DEF RestoreInv, OpenedAt
<1> QED
  BY <1>1, <1>2

LEMMA AskStep ==
    ASSUME RestoreAssumption, RestoreInv, NEW c \in RestoreCall, NEW s \in Snapshots,
           NEW how \in Hows, NEW files \in SUBSET FilesOf(s) \ {{}}, AskFiles(c, s, how, files)
    PROVE  RestoreInv'
<1>1. RestoreShape /\ FcallShape(c) /\ \A d \in RestoreCall : FcallShape(d) /\ DownloadAt(d)
  BY DEF RestoreInv
<1>2. /\ fcall[c].at = "new" /\ DOMAIN fcall' = RestoreCall /\ DOMAIN fcall'[c] = CallFields
      /\ \A d \in RestoreCall \ {c} : fcall'[d] = fcall[d]
      /\ \/ fcall'[c].at = "next" /\ fcall'[c].how = how /\ fcall'[c].of = s
            /\ fcall'[c].left = files /\ fcall'[c].done = 0
         \/ fcall'[c].at = "failed"
  BY <1>1, FcallAsked DEF FcallStep
<1>3. UNCHANGED <<blockIs, onTarget, got, opened, shared, cutOff, mingled>>
  BY DEF AskFiles
<1>4. RestoreShape'
  BY <1>1, <1>2, <1>3 DEF RestoreShape
<1>5. FcallShape(c)' /\ DownloadAt(c)'
  <2>1. got[c] = <<>> /\ (how = "download" => \E p \in files : files = {p})
    BY <1>1, <1>2 DEF FcallShape, AskFiles
  <2> QED
    BY <1>2, <1>3, <2>1 DEF FcallShape, DownloadAt, AtFile
<1>6. \A d \in RestoreCall : FcallShape(d)' /\ DownloadAt(d)'
  BY <1>1, <1>2, <1>3, <1>5, FcallKept DEF MayRot
<1>7. ASSUME NEW p \in Path PROVE Writers(p)' = Writers(p)
  <2>1. c \notin Writers(p) /\ c \notin Writers(p)' /\ Writers(p)' \ {c} = Writers(p) \ {c}
    BY <1>2, OtherWriters
  <2>2. \A d : d \in Writers(p)' <=> d \in Writers(p)
    BY <2>1
  <2> QED
    BY <2>2
<1>8. /\ \A p \in Path : FileAt(p)' /\ \A d \in RestoreCall, q \in Path : OpenedAt(d, q)'
  <2>1. \A p \in Path : \A d \in Writers(p) : d # c
    BY <1>2 DEF Writers
  <2>2. \A p \in Path : \A d \in Writers(p) : FileOf(d)' = FileOf(d) /\ fcall'[d].done = fcall[d].done
    BY <1>2, <2>1 DEF FileOf, Writers
  <2> QED
    BY <1>2, <1>3, <1>7, <2>2, FilesKept DEF AtFile
<1> QED
  BY <1>4, <1>6, <1>8 DEF RestoreInv

LEMMA SkipStep ==
    ASSUME RestoreInv, NEW c \in RestoreCall, NEW p \in Path, SkipFile(c, p)
    PROVE  RestoreInv'
<1>1. RestoreShape /\ FcallShape(c) /\ \A d \in RestoreCall : FcallShape(d) /\ DownloadAt(d)
  BY DEF RestoreInv
<1>2. FcallStep(c, "next", fcall[c].how, fcall[c].of, fcall[c].left \ {p}, fcall[c].path, fcall[c].done)
  BY <1>1, FcallSkipped
<1>3. /\ UNCHANGED <<blockIs, onTarget, got, opened, shared, cutOff, mingled>>
      /\ fcall[c].at = "next" /\ fcall[c].how # "download"
  BY DEF SkipFile
<1>4. RestoreShape'
  BY <1>1, <1>2, <1>3 DEF RestoreShape, FcallStep
<1>5. FcallShape(c)' /\ DownloadAt(c)'
  BY <1>1, <1>2, <1>3 DEF FcallShape, DownloadAt, AtFile, FcallStep
<1>6. \A d \in RestoreCall : FcallShape(d)' /\ DownloadAt(d)'
  BY <1>1, <1>2, <1>3, <1>5, FcallKept DEF FcallStep, MayRot
<1>7. ASSUME NEW q \in Path PROVE Writers(q)' = Writers(q)
  <2>1. c \notin Writers(q) /\ c \notin Writers(q)' /\ Writers(q)' \ {c} = Writers(q) \ {c}
    BY <1>2, <1>3, OtherWriters DEF FcallStep
  <2>2. \A d : d \in Writers(q)' <=> d \in Writers(q)
    BY <2>1
  <2> QED
    BY <2>2
<1>8. /\ \A q \in Path : FileAt(q)' /\ \A d \in RestoreCall, r \in Path : OpenedAt(d, r)'
  <2>1. \A q \in Path : \A d \in Writers(q) : d # c
    BY <1>3 DEF Writers
  <2>2. \A q \in Path : \A d \in Writers(q) : FileOf(d)' = FileOf(d) /\ fcall'[d].done = fcall[d].done
    BY <1>2, <2>1 DEF FileOf, Writers, FcallStep
  <2> QED
    BY <1>2, <1>3, <1>7, <2>2, FilesKept DEF AtFile, FcallStep
<1> QED
  BY <1>4, <1>6, <1>8 DEF RestoreInv

LEMMA LookStep ==
    ASSUME RestoreInv, NEW c \in RestoreCall, NEW p \in Path, LookAt(c, p)
    PROVE  RestoreInv'
<1>1. RestoreShape /\ FcallShape(c) /\ \A d \in RestoreCall : FcallShape(d) /\ DownloadAt(d)
  BY DEF RestoreInv
<1>2. FcallStep(c, "create", fcall[c].how, fcall[c].of, fcall[c].left \ {p}, p, fcall[c].done)
  BY <1>1, FcallTaken DEF LookAt
<1>3. /\ UNCHANGED <<blockIs, onTarget, got, opened, shared, cutOff, mingled>>
      /\ fcall[c].at = "next" /\ fcall[c].how # "download" /\ p \in fcall[c].left
  BY DEF LookAt, Take
<1>4. RestoreShape'
  BY <1>1, <1>2, <1>3 DEF RestoreShape, FcallStep
<1>5. FcallShape(c)' /\ DownloadAt(c)'
  BY <1>1, <1>2, <1>3 DEF FcallShape, DownloadAt, AtFile, FcallStep
<1>6. \A d \in RestoreCall : FcallShape(d)' /\ DownloadAt(d)'
  BY <1>1, <1>2, <1>3, <1>5, FcallKept DEF FcallStep, MayRot
<1>7. ASSUME NEW q \in Path PROVE Writers(q)' = Writers(q)
  <2>1. c \notin Writers(q) /\ c \notin Writers(q)' /\ Writers(q)' \ {c} = Writers(q) \ {c}
    BY <1>2, <1>3, OtherWriters DEF FcallStep
  <2>2. \A d : d \in Writers(q)' <=> d \in Writers(q)
    BY <2>1
  <2> QED
    BY <2>2
<1>8. /\ \A q \in Path : FileAt(q)' /\ \A d \in RestoreCall, r \in Path : OpenedAt(d, r)'
  <2>1. \A q \in Path : \A d \in Writers(q) : d # c
    BY <1>3 DEF Writers
  <2>2. \A q \in Path : \A d \in Writers(q) : FileOf(d)' = FileOf(d) /\ fcall'[d].done = fcall[d].done
    BY <1>2, <2>1 DEF FileOf, Writers, FcallStep
  <2> QED
    BY <1>2, <1>3, <1>7, <2>2, FilesKept DEF AtFile, FcallStep
<1> QED
  BY <1>4, <1>6, <1>8 DEF RestoreInv

LEMMA BeginExtractStep ==
    ASSUME RestoreAssumption, RestoreInv, NEW c \in RestoreCall, NEW p \in Path, BeginExtract(c, p)
    PROVE  RestoreInv'
<1>1. RestoreShape /\ FcallShape(c) /\ \A d \in RestoreCall : FcallShape(d) /\ DownloadAt(d)
  BY DEF RestoreInv
<1>2. FcallStep(c, "write", fcall[c].how, fcall[c].of, fcall[c].left \ {p}, p, fcall[c].done)
  BY <1>1, FcallTaken DEF BeginExtract
<1>3. /\ UNCHANGED <<blockIs, onTarget, got, opened, shared, cutOff, mingled>>
      /\ fcall[c].at = "next" /\ fcall[c].how = "download" /\ p \in fcall[c].left
  BY DEF BeginExtract, Take
<1>4. RestoreShape'
  BY <1>1, <1>2, <1>3 DEF RestoreShape, FcallStep
<1>5. FcallShape(c)' /\ DownloadAt(c)'
  <2>1. got[c] = <<>> /\ fcall[c].left = {p} /\ p \in FilesOf(fcall[c].of) /\ fcall[c].done = 0
    BY <1>1, <1>3 DEF FcallShape, DownloadAt, AtFile
  <2>2. FileOf(c)' = BlocksOfFile[fcall[c].of][p] /\ Len(FileOf(c)') \in Nat \ {0}
    BY <1>1, <1>2, <1>3, <2>1, FilesHaveBlocks DEF FileOf, FcallStep, AtFile
  <2>3. FcallShape(c)'
    BY <1>1, <1>2, <1>3, <2>1, <2>2 DEF FcallShape, AtFile, FcallStep
  <2>4. GotOf(c, 0)'
    BY <1>3, <2>1 DEF GotOf
  <2> QED
    BY <1>2, <2>1, <2>3, <2>4 DEF DownloadAt, AtFile, FcallStep
<1>6. \A d \in RestoreCall : FcallShape(d)' /\ DownloadAt(d)'
  BY <1>1, <1>2, <1>3, <1>5, FcallKept DEF FcallStep, MayRot
<1>7. ASSUME NEW q \in Path PROVE Writers(q)' = Writers(q)
  <2>1. c \notin Writers(q) /\ c \notin Writers(q)' /\ Writers(q)' \ {c} = Writers(q) \ {c}
    BY <1>2, <1>3, OtherWriters DEF FcallStep
  <2>2. \A d : d \in Writers(q)' <=> d \in Writers(q)
    BY <2>1
  <2> QED
    BY <2>2
<1>8. /\ \A q \in Path : FileAt(q)' /\ \A d \in RestoreCall, r \in Path : OpenedAt(d, r)'
  <2>1. \A q \in Path : \A d \in Writers(q) : d # c
    BY <1>3 DEF Writers
  <2>2. \A q \in Path : \A d \in Writers(q) : FileOf(d)' = FileOf(d) /\ fcall'[d].done = fcall[d].done
    BY <1>2, <2>1 DEF FileOf, Writers, FcallStep
  <2> QED
    BY <1>2, <1>3, <1>7, <2>2, FilesKept DEF AtFile, FcallStep
<1> QED
  BY <1>4, <1>6, <1>8 DEF RestoreInv

LEMMA TruncateStep ==
    ASSUME RestoreAssumption, RestoreInv, NEW c \in RestoreCall, TruncateFile(c)
    PROVE  RestoreInv'
<1>0. PICK p : p = fcall[c].path
  OBVIOUS
<1>1. RestoreShape /\ FcallShape(c) /\ \A d \in RestoreCall : FcallShape(d) /\ DownloadAt(d)
  BY DEF RestoreInv
<1>2. FcallStep(c, "write", fcall[c].how, fcall[c].of, fcall[c].left, p, fcall[c].done)
  BY <1>0, <1>1, FcallTruncated
<1>3. /\ blockIs' = blockIs /\ got' = got /\ onTarget' = [onTarget EXCEPT ![p] = <<>>]
      /\ fcall[c].at = "create"
      /\ opened' = opened \cup {<<c, p>>}
      /\ shared' = shared \cup {o \in opened : o[2] = p}
                          \cup (IF Writers(p) = {} THEN {} ELSE {<<c, p>>})
      /\ \/ Writers(p) = {} /\ cutOff' = cutOff \ {p} /\ mingled' = mingled \ {p}
         \/ Writers(p) # {} /\ cutOff' = cutOff /\ mingled' = mingled \cup {p}
  BY <1>0 DEF TruncateFile
<1>a. /\ p \in FilesOf(fcall[c].of) /\ fcall[c].done = 0 /\ fcall[c].of \in Snapshots
      /\ p \in Path /\ fcall[c].how # "download"
  <2>1. p \in FilesOf(fcall[c].of) /\ fcall[c].done = 0 /\ fcall[c].of \in Snapshots
    BY <1>0, <1>1, <1>3 DEF FcallShape, AtFile
  <2>2. p \in Path
    BY <1>1, <1>3, <2>1, FilesHaveBlocks DEF AtFile
  <2>3. fcall[c].how # "download"
    BY <1>1, <1>3 DEF DownloadAt, AtFile
  <2> QED
    BY <2>1, <2>2, <2>3
<1>4. RestoreShape'
  <2>1. \A q \in Path : onTarget'[q] \in Seq(Pieces)
    BY <1>1, <1>3, <1>a DEF RestoreShape
  <2>2. opened' \subseteq RestoreCall \X Path /\ shared' \subseteq opened'
    BY <1>1, <1>3, <1>a DEF RestoreShape
  <2> QED
    BY <1>1, <1>2, <1>3, <2>1, <2>2 DEF RestoreShape, FcallStep
<1>6. FcallShape(c)' /\ DownloadAt(c)'
  <2>1. FileOf(c)' = BlocksOfFile[fcall[c].of][p] /\ Len(FileOf(c)') \in Nat \ {0}
    BY <1>1, <1>2, <1>3, <1>a, FilesHaveBlocks DEF FileOf, FcallStep, AtFile
  <2> QED
    BY <1>1, <1>2, <1>3, <1>a, <2>1 DEF FcallShape, DownloadAt, AtFile, FcallStep
<1>7. \A d \in RestoreCall : FcallShape(d)' /\ DownloadAt(d)'
  BY <1>1, <1>2, <1>3, <1>6, FcallKept DEF FcallStep, MayRot
<1>8. \A q \in Path : Writers(q)' = IF q = p THEN Writers(q) \cup {c} ELSE Writers(q)
  <2> SUFFICES ASSUME NEW q \in Path, NEW d
               PROVE  d \in Writers(q)' <=> d \in Writers(q) \/ (d = c /\ q = p)
    OBVIOUS
  <2>1. c \notin Writers(q) /\ (c \in Writers(q)' <=> q = p)
    BY <1>2, <1>3, <1>a, OtherWriters DEF FcallStep
  <2>2. Writers(q)' \ {c} = Writers(q) \ {c}
    BY <1>2, OtherWriters DEF FcallStep
  <2> QED
    BY <2>1, <2>2
<1>9. \A q \in Path : \A d \in Writers(q) :
          d # c /\ FileOf(d)' = FileOf(d) /\ fcall'[d].done = fcall[d].done
  <2>1. \A q \in Path : \A d \in Writers(q) : d # c /\ d \in RestoreCall
    BY <1>3 DEF Writers
  <2> QED
    BY <1>2, <2>1 DEF FileOf, FcallStep
<1>10. ASSUME NEW q \in Path PROVE FileAt(q)'
  <2>1. PrefixAt(q) /\ RestsAt(q) /\ CleanAt(q)
    BY DEF RestoreInv, FileAt
  <2>2. CASE q = p
    <3>1. onTarget'[p] = <<>> /\ Writers(p)' = Writers(p) \cup {c}
      BY <1>1, <1>3, <1>8, <1>a DEF RestoreShape
    <3>2. PrefixAt(p)'
      BY <1>2, <1>3, <1>a, <3>1 DEF PrefixAt, FcallStep
    <3>3. RestsAt(p)' /\ CleanAt(p)'
      BY <3>1 DEF RestsAt, CleanAt
    <3> QED
      BY <2>2, <3>2, <3>3 DEF FileAt
  <2>3. CASE q # p
    <3>1. onTarget'[q] = onTarget[q] /\ Writers(q)' = Writers(q)
          /\ (q \in mingled' <=> q \in mingled) /\ (q \in cutOff' <=> q \in cutOff)
      BY <1>1, <1>3, <1>8, <2>3 DEF RestoreShape
    <3>2. PrefixAt(q)'
      BY <1>9, <2>1, <3>1 DEF PrefixAt
    <3>3. RestsAt(q)' /\ CleanAt(q)'
      BY <2>1, <3>1 DEF RestsAt, CleanAt
    <3> QED
      BY <3>2, <3>3 DEF FileAt
  <2> QED
    BY <2>2, <2>3
<1>11. ASSUME NEW d \in RestoreCall, NEW q \in Path PROVE OpenedAt(d, q)'
  <2>1. CASE q = p
    <3>1. <<d, q>> \in opened' \ shared' => d = c /\ Writers(p) = {}
      BY <1>3, <2>1
    <3> QED
      BY <1>2, <1>3, <1>a, <1>8, <2>1, <3>1 DEF OpenedAt, FcallStep, AtFile
  <2>2. CASE q # p
    <3>1. <<d, q>> \in opened' \ shared' => <<d, q>> \in opened \ shared
      BY <1>3, <2>2
    <3>2. onTarget'[q] = onTarget[q] /\ Writers(q)' = Writers(q) /\ (q \in mingled' <=> q \in mingled)
      BY <1>1, <1>3, <1>8, <2>2 DEF RestoreShape
    <3>3. fcall[d].at \in AtFile => fcall'[d].at \in AtFile /\ fcall'[d].how = fcall[d].how
                                    /\ fcall'[d].of = fcall[d].of
      BY <1>2 DEF FcallStep, AtFile
    <3> QED
      BY <3>1, <3>2, <3>3 DEF OpenedAt, RestoreInv
  <2> QED
    BY <2>1, <2>2
<1> QED
  BY <1>4, <1>7, <1>10, <1>11 DEF RestoreInv

\* The writers, when a call writes one block of its file and may be done with it.
LEMMA FurtherWriters ==
    ASSUME RestoreShape, NEW c \in RestoreCall, FcallShape(c), fcall[c].at = "write", Further(c),
           fcall[c].how # "download", NEW q \in Path
    PROVE  /\ q # fcall[c].path => Writers(q)' = Writers(q) /\ c \notin Writers(q)
           /\ q = fcall[c].path =>
                  /\ c \in Writers(q) /\ Writers(q)' \ {c} = Writers(q) \ {c}
                  /\ c \in Writers(q)' <=> fcall[c].done + 1 < Len(FileOf(c))
<1>1. /\ \A d \in RestoreCall \ {c} : fcall'[d] = fcall[d]
      /\ fcall'[c].how = fcall[c].how /\ fcall'[c].path = fcall[c].path
      /\ \/ fcall[c].done + 1 < Len(FileOf(c)) /\ fcall'[c].at = "write"
         \/ ~(fcall[c].done + 1 < Len(FileOf(c))) /\ fcall'[c].at = "next"
  BY FcallFurther DEF FcallStep, FcallShape
<1>2. Writers(q)' \ {c} = Writers(q) \ {c}
  BY <1>1, OtherWriters
<1>3. c \in Writers(q) <=> q = fcall[c].path
  BY <1>1, OtherWriters
<1>4. c \in Writers(q)' <=> q = fcall[c].path /\ fcall[c].done + 1 < Len(FileOf(c))
  BY <1>1, OtherWriters
<1>5. ASSUME q # fcall[c].path, NEW d PROVE d \in Writers(q)' <=> d \in Writers(q)
  BY <1>2, <1>3, <1>4, <1>5
<1> QED
  BY <1>2, <1>3, <1>4, <1>5

\* A file with one more piece at the end of what is there, or anywhere.
WithPiece(new, was, at, piece) ==
    /\ new \in Seq(Pieces) /\ Len(new) = IF Len(was) > at THEN Len(was) ELSE at
    /\ new[at] = piece
    /\ \A i \in DOMAIN new \ {at} :
           \/ i \in DOMAIN was /\ new[i] = was[i]
           \/ i \notin DOMAIN was /\ new[i] = "hole"

LEMMA WrittenIs ==
    ASSUME NEW was \in Seq(Pieces), NEW at \in Nat \ {0}, NEW piece \in Pieces
    PROVE  WithPiece(Written(was, at, piece), was, at, piece)
<1> DEFINE n == IF Len(was) > at THEN Len(was) ELSE at
           W == [i \in 1 .. n |-> IF i = at THEN piece ELSE IF i <= Len(was) THEN was[i] ELSE "hole"]
<1>1. n \in Nat /\ at \in 1 .. n /\ DOMAIN was = 1 .. Len(was) /\ Len(was) \in Nat /\ Len(was) <= n
  OBVIOUS
<1>2. "hole" \in Pieces /\ \A i \in 1 .. Len(was) : was[i] \in Pieces
  BY DEF Pieces
<1>3. \A i \in 1 .. n : (IF i = at THEN piece ELSE IF i <= Len(was) THEN was[i] ELSE "hole") \in Pieces
  BY <1>1, <1>2
<1>4. W \in [1 .. n -> Pieces]
  BY <1>3
<1>5. W \in Seq(Pieces) /\ Len(W) = n
  BY <1>1, <1>4
<1>6. W = Written(was, at, piece)
  BY DEF Written
<1> HIDE DEF n
<1>7. W[at] = piece /\ \A i \in 1 .. n : i # at => W[i] = IF i <= Len(was) THEN was[i] ELSE "hole"
  BY <1>1
<1> HIDE DEF W
<1> QED
  BY <1>1, <1>4, <1>5, <1>6, <1>7 DEF n, WithPiece

\* What a call reads next is a block of its file.
LEMMA NextIsBlock ==
    ASSUME RestoreAssumption, NEW c \in RestoreCall, FcallShape(c), fcall[c].at = "write"
    PROVE  /\ fcall[c].path \in Path /\ NextBlock(c) \in BlockIds
           /\ FileOf(c) \in Seq(BlockIds) /\ NextBlock(c) # "rotten"
           /\ fcall[c].done \in Nat /\ Len(FileOf(c)) \in Nat /\ fcall[c].done < Len(FileOf(c))
           /\ FileOf(c) = BlocksOfFile[fcall[c].of][fcall[c].path]
           /\ NextBlock(c) = FileOf(c)[fcall[c].done + 1]
<1>1. FileOf(c) \in Seq(BlockIds) /\ fcall[c].path \in Path
  BY FilesHaveBlocks DEF FcallShape, FileOf, AtFile
<1>2. fcall[c].done \in 0 .. Len(FileOf(c)) - 1 /\ Len(FileOf(c)) \in Nat
  BY <1>1 DEF FcallShape
<1>3. FileOf(c)[fcall[c].done + 1] \in BlockIds
  BY <1>1, <1>2
<1>4. NextBlock(c) = FileOf(c)[fcall[c].done + 1]
  BY DEF NextBlock
<1>5. NextBlock(c) # "rotten"
  BY <1>3, <1>4 DEF RestoreAssumption
<1>6. FileOf(c) = BlocksOfFile[fcall[c].of][fcall[c].path]
  BY DEF FileOf
<1>7. fcall[c].done \in Nat /\ fcall[c].done < Len(FileOf(c))
  BY <1>2
<1> QED
  BY <1>1, <1>2, <1>3, <1>4, <1>5, <1>6, <1>7

LEMMA FurtherShape ==
    ASSUME RestoreShape, NEW c \in RestoreCall, FcallShape(c), fcall[c].at = "write", Further(c)
    PROVE  /\ FcallShape(c)' /\ DOMAIN fcall' = RestoreCall /\ FileOf(c)' = FileOf(c)
           /\ \A d \in RestoreCall \ {c} : fcall'[d] = fcall[d]
           /\ fcall'[c].how = fcall[c].how /\ fcall'[c].of = fcall[c].of
           /\ fcall'[c].left = fcall[c].left /\ fcall'[c].path = fcall[c].path
           /\ fcall'[c].at \in {"next", "write"}
           /\ \/ fcall'[c].at = "write" /\ fcall[c].done + 1 < Len(FileOf(c))
                 /\ fcall'[c].done = fcall[c].done + 1
              \/ fcall'[c].at = "next" /\ fcall[c].done + 1 = Len(FileOf(c))
<1>1. /\ DOMAIN fcall' = RestoreCall /\ \A d \in RestoreCall \ {c} : fcall'[d] = fcall[d]
      /\ DOMAIN fcall'[c] = CallFields
      /\ fcall'[c].how = fcall[c].how /\ fcall'[c].of = fcall[c].of
      /\ fcall'[c].left = fcall[c].left /\ fcall'[c].path = fcall[c].path
      /\ \/ fcall'[c].at = "write" /\ fcall[c].done + 1 < Len(FileOf(c))
            /\ fcall'[c].done = fcall[c].done + 1
         \/ fcall'[c].at = "next" /\ fcall[c].done + 1 = Len(FileOf(c)) /\ fcall'[c].done = 0
  BY FcallFurther DEF FcallStep
<1>2. FileOf(c)' = FileOf(c)
  BY <1>1 DEF FileOf
<1>3. FcallShape(c)'
  BY <1>1, <1>2 DEF FcallShape, AtFile
<1> QED
  BY <1>1, <1>2, <1>3

LEMMA WriteStep ==
    ASSUME RestoreAssumption, RestoreInv, NEW c \in RestoreCall, WriteNext(c)
    PROVE  RestoreInv'
<1>0. PICK p, n : p = fcall[c].path /\ n = fcall[c].done
  OBVIOUS
<1>1. RestoreShape /\ FcallShape(c) /\ fcall[c].at = "write" /\ fcall[c].how # "download"
      /\ Further(c) /\ \A d \in RestoreCall : FcallShape(d) /\ DownloadAt(d)
  BY DEF RestoreInv, WriteNext
<1>2. /\ p \in Path /\ NextBlock(c) \in BlockIds /\ FileOf(c) \in Seq(BlockIds)
      /\ NextBlock(c) # "rotten" /\ n \in Nat /\ Len(FileOf(c)) \in Nat /\ n < Len(FileOf(c))
      /\ FileOf(c) = BlocksOfFile[fcall[c].of][p] /\ NextBlock(c) = FileOf(c)[n + 1]
  BY <1>0, <1>1, NextIsBlock
<1>3. /\ UNCHANGED <<blockIs, got, opened, shared, cutOff, mingled>>
      /\ onTarget' = [onTarget EXCEPT ![p] = Written(onTarget[p], n + 1, NextBlock(c))]
  BY <1>0 DEF WriteNext, Verified, Piece
<1>4. onTarget[p] \in Seq(Pieces) /\ NextBlock(c) \in Pieces /\ n + 1 \in Nat \ {0}
      /\ onTarget'[p] = Written(onTarget[p], n + 1, NextBlock(c))
      /\ \A q \in Path : q # p => onTarget'[q] = onTarget[q]
  BY <1>1, <1>2, <1>3 DEF RestoreShape, Pieces
<1>5. WithPiece(onTarget'[p], onTarget[p], n + 1, NextBlock(c))
  BY <1>4, WrittenIs
<1>6. /\ FcallShape(c)' /\ DOMAIN fcall' = RestoreCall /\ FileOf(c)' = FileOf(c)
      /\ \A d \in RestoreCall \ {c} : fcall'[d] = fcall[d]
      /\ fcall'[c].how = fcall[c].how /\ fcall'[c].of = fcall[c].of /\ fcall'[c].at \in {"next", "write"}
      /\ (n + 1 < Len(FileOf(c)) => fcall'[c].done = n + 1)
  <2>1. /\ FcallShape(c)' /\ DOMAIN fcall' = RestoreCall /\ FileOf(c)' = FileOf(c)
        /\ \A d \in RestoreCall \ {c} : fcall'[d] = fcall[d]
        /\ fcall'[c].how = fcall[c].how /\ fcall'[c].of = fcall[c].of
        /\ fcall'[c].at \in {"next", "write"}
    BY <1>1, FurtherShape
  <2>2. \/ fcall'[c].done = n + 1
        \/ n + 1 = Len(FileOf(c))
    BY <1>0, <1>1, <1>2, FurtherShape
  <2> QED
    BY <1>2, <2>1, <2>2
<1>7. \A q \in Path :
          /\ q # p => Writers(q)' = Writers(q) /\ c \notin Writers(q)
          /\ q = p => /\ c \in Writers(q) /\ Writers(q)' \ {c} = Writers(q) \ {c}
                      /\ c \in Writers(q)' <=> n + 1 < Len(FileOf(c))
  BY <1>0, <1>1, FurtherWriters
<1>8. RestoreShape'
  BY <1>1, <1>3, <1>4, <1>5, <1>6 DEF RestoreShape, WithPiece
<1>9. \A d \in RestoreCall : FcallShape(d)' /\ DownloadAt(d)'
  BY <1>1, <1>3, <1>6, FcallKept DEF DownloadAt, MayRot
<1>10. \A q \in Path : \A d \in Writers(q) \ {c} :
           FileOf(d)' = FileOf(d) /\ fcall'[d].done = fcall[d].done
  <2>1. \A q \in Path : \A d \in Writers(q) : d \in RestoreCall
    BY DEF Writers
  <2> QED
    BY <1>6, <2>1 DEF FileOf
\* Where it writes alone, what is there is what it has written, one block longer now.
<1>11. ASSUME p \notin mingled
       PROVE  /\ Writers(p) = {c} /\ Len(onTarget'[p]) = n + 1
              /\ \A i \in 1 .. n + 1 : onTarget'[p][i] = FileOf(c)[i]
  <2>1. /\ Writers(p) = {c} /\ Len(onTarget[p]) = n
        /\ \A i \in 1 .. n : onTarget[p][i] = FileOf(c)[i]
    BY <1>0, <1>2, <1>7, <1>11, SMTT(20) DEF RestoreInv, FileAt, PrefixAt
  <2>2. DOMAIN onTarget[p] = 1 .. n /\ Len(onTarget'[p]) = n + 1 /\ DOMAIN onTarget'[p] = 1 .. n + 1
    BY <1>2, <1>4, <1>5, <2>1 DEF WithPiece
  <2>3. ASSUME NEW i \in 1 .. n + 1 PROVE onTarget'[p][i] = FileOf(c)[i]
    <3>1. CASE i = n + 1
      BY <1>2, <1>5, <3>1 DEF WithPiece
    <3>2. CASE i # n + 1
      <4>1. i \in 1 .. n
        BY <1>2, <3>2
      <4> QED
        BY <1>5, <2>1, <2>2, <3>2, <4>1 DEF WithPiece
    <3> QED
      BY <3>1, <3>2
  <2> QED
    BY <2>1, <2>2, <2>3
\* After its last block the file is the snapshot's.
<1>12. ASSUME p \notin mingled, ~(n + 1 < Len(FileOf(c)))
       PROVE  onTarget'[p] = FileOf(c) /\ Writers(p)' = {}
  <2>1. n + 1 = Len(FileOf(c)) /\ FileOf(c) \in Seq(Pieces)
    BY <1>2, <1>12 DEF Pieces
  <2>2. onTarget'[p] = FileOf(c)
    BY <1>5, <1>11, <1>12, <2>1, SeqEqual DEF WithPiece
  <2>3. \A d : d \notin Writers(p)'
    BY <1>2, <1>7, <1>11, <1>12
  <2> QED
    BY <2>2, <2>3
<1>13. ASSUME NEW q \in Path PROVE FileAt(q)'
  <2>1. PrefixAt(q) /\ RestsAt(q) /\ CleanAt(q)
    BY DEF RestoreInv, FileAt
  <2>2. CASE q # p
    <3>1. Writers(q)' = Writers(q) /\ onTarget'[q] = onTarget[q] /\ c \notin Writers(q)
      BY <1>4, <1>7, <2>2
    <3>2. PrefixAt(q)'
      BY <1>3, <1>10, <2>1, <3>1 DEF PrefixAt
    <3>3. RestsAt(q)' /\ CleanAt(q)'
      BY <1>3, <2>1, <3>1 DEF RestsAt, CleanAt
    <3> QED
      BY <3>2, <3>3 DEF FileAt
  <2>3. CASE q = p
    <3>1. PrefixAt(p)'
      <4> SUFFICES ASSUME p \notin mingled, NEW d \in Writers(p)'
                   PROVE  /\ Writers(p)' = {d} /\ Len(onTarget'[p]) = fcall'[d].done
                          /\ \A i \in 1 .. fcall'[d].done : onTarget'[p][i] = FileOf(d)'[i]
        BY <1>3, <2>3 DEF PrefixAt
      <4>1. d = c /\ n + 1 < Len(FileOf(c)) /\ Writers(p)' = {c}
        BY <1>2, <1>7, <1>11
      <4> QED
        BY <1>6, <1>11, <4>1
    <3>2. RestsAt(p)'
      <4> SUFFICES ASSUME Writers(p)' = {}, p \notin cutOff \cup mingled
                   PROVE  \E s \in Snapshots : p \in FilesOf(s) /\ onTarget'[p] = BlocksOfFile[s][p]
        BY <1>3, <2>3 DEF RestsAt
      <4>1. onTarget'[p] = BlocksOfFile[fcall[c].of][p]
        BY <1>2, <1>7, <1>12
      <4> QED
        BY <1>0, <1>1, <4>1 DEF FcallShape, AtFile
    <3>3. CleanAt(p)'
      BY <1>2, <1>5, <2>1, <2>3 DEF CleanAt, WithPiece
    <3> QED
      BY <2>3, <3>1, <3>2, <3>3 DEF FileAt
  <2> QED
    BY <2>2, <2>3
<1>14. ASSUME NEW d \in RestoreCall, NEW q \in Path PROVE OpenedAt(d, q)'
  <2> SUFFICES ASSUME <<d, q>> \in opened \ shared
               PROVE  OpenedAt(d, q)'
    BY <1>3 DEF OpenedAt
  <2>1. /\ fcall[d].at \in AtFile /\ fcall[d].how # "download" /\ q \in FilesOf(fcall[d].of)
        /\ q \notin mingled
        /\ d \notin Writers(q) => Writers(q) = {} /\ onTarget[q] = BlocksOfFile[fcall[d].of][q]
    BY DEF RestoreInv, OpenedAt
  <2>2. fcall'[d].at \in AtFile /\ fcall'[d].how = fcall[d].how /\ fcall'[d].of = fcall[d].of
    BY <1>6, <2>1 DEF AtFile
  <2>3. CASE q # p
    <3>1. Writers(q)' = Writers(q) /\ onTarget'[q] = onTarget[q]
      BY <1>4, <1>7, <2>3
    <3> QED
      BY <1>3, <2>1, <2>2, <3>1 DEF OpenedAt
  <2>4. CASE q = p
    <3>1. d = c
      BY <1>7, <1>11, <2>1, <2>4
    <3>2. c \notin Writers(p)' => Writers(p)' = {} /\ onTarget'[p] = BlocksOfFile[fcall[c].of][p]
      BY <1>2, <1>7, <1>12, <2>1, <2>4
    <3> QED
      BY <1>3, <2>1, <2>2, <2>4, <3>1, <3>2 DEF OpenedAt
  <2> QED
    BY <2>3, <2>4
<1> QED
  BY <1>8, <1>9, <1>13, <1>14 DEF RestoreInv

LEMMA ExtractStep ==
    ASSUME RestoreAssumption, RestoreInv, NEW c \in RestoreCall, ExtractNext(c)
    PROVE  RestoreInv'
<1>1. RestoreShape /\ FcallShape(c) /\ fcall[c].at = "write" /\ fcall[c].how = "download"
      /\ Further(c) /\ \A d \in RestoreCall : FcallShape(d) /\ DownloadAt(d)
  BY DEF RestoreInv, ExtractNext
<1>2. /\ FcallShape(c)' /\ DOMAIN fcall' = RestoreCall /\ FileOf(c)' = FileOf(c)
      /\ \A d \in RestoreCall \ {c} : fcall'[d] = fcall[d]
      /\ fcall'[c].how = fcall[c].how /\ fcall'[c].of = fcall[c].of
      /\ fcall'[c].left = fcall[c].left /\ fcall'[c].path = fcall[c].path
      /\ fcall'[c].at \in {"next", "write"}
      /\ \/ fcall'[c].at = "write" /\ fcall[c].done + 1 < Len(FileOf(c))
            /\ fcall'[c].done = fcall[c].done + 1
         \/ fcall'[c].at = "next" /\ fcall[c].done + 1 = Len(FileOf(c))
  BY <1>1, FurtherShape
<1>3. /\ UNCHANGED <<blockIs, onTarget, opened, shared, cutOff, mingled>>
      /\ got' = [got EXCEPT ![c] = Append(got[c], Piece(NextBlock(c)))]
  BY DEF ExtractNext
<1>4. RestoreShape'
  BY <1>1, <1>2, <1>3 DEF RestoreShape
\* What is read is the block, or it is rotten and may be.
<1>5. /\ Piece(NextBlock(c)) \in Pieces
      /\ \/ Piece(NextBlock(c)) = FileOf(c)[fcall[c].done + 1]
         \/ /\ Piece(NextBlock(c)) = "rotten"
            /\ MayRot(FileOf(c)[fcall[c].done + 1])
  BY <1>1, NextIsBlock DEF ExtractNext, Extractable, Piece, Pieces, MayRot
<1>6. fcall[c].left = {} /\ GotOf(c, fcall[c].done) /\ fcall[c].done \in Nat
  BY <1>1, NextIsBlock DEF DownloadAt, AtFile
<1>7. PICK n \in Nat : n = fcall[c].done
  BY <1>6
<1>8. GotOf(c, n + 1)'
  <2>2. got'[c] = Append(got[c], Piece(NextBlock(c))) /\ got[c] \in Seq(Pieces) /\ Len(got[c]) = n
    BY <1>1, <1>3, <1>6, <1>7 DEF RestoreShape, GotOf
  <2>3. /\ got'[c] \in Seq(Pieces) /\ Len(got'[c]) = n + 1
        /\ got'[c][n + 1] = Piece(NextBlock(c)) /\ \A i \in 1 .. n : got'[c][i] = got[c][i]
    BY <1>5, <2>2
  <2>4. \A i \in 1 .. n : got[c][i] = FileOf(c)[i]
                          \/ (got[c][i] = "rotten" /\ MayRot(FileOf(c)[i]))
    BY <1>6, <1>7 DEF GotOf
  <2>5. \A i \in 1 .. n + 1 : i = n + 1 \/ i \in 1 .. n
    OBVIOUS
  <2>6. \A i \in 1 .. n + 1 : got'[c][i] = FileOf(c)[i]
                              \/ (got'[c][i] = "rotten" /\ MayRot(FileOf(c)[i]))
    BY <1>5, <1>7, <2>3, <2>4, <2>5
  <2> QED
    BY <1>2, <1>3, <2>3, <2>6 DEF GotOf, MayRot
<1>9. DownloadAt(c)'
  <2>1. fcall[c].path \in FilesOf(fcall[c].of)
    BY <1>1 DEF FcallShape
  <2>2. CASE fcall'[c].at = "write"
    BY <1>2, <1>6, <1>7, <1>8, <2>2 DEF DownloadAt
  <2>3. CASE fcall'[c].at = "next"
    <3>1. n + 1 = Len(FileOf(c)) /\ Len(FileOf(c))' = n + 1
      BY <1>2, <1>7, <2>3
    <3>2. GotOf(c, Len(FileOf(c)))'
      BY <1>8, <3>1
    <3> QED
      BY <1>2, <1>6, <2>1, <2>3, <3>2 DEF DownloadAt
  <2> QED
    BY <1>2, <2>2, <2>3
<1>10. \A d \in RestoreCall : FcallShape(d)' /\ DownloadAt(d)'
  BY <1>1, <1>2, <1>3, <1>9, FcallKept DEF RestoreShape, MayRot
<1>11. ASSUME NEW q \in Path PROVE Writers(q)' = Writers(q)
  <2>1. c \notin Writers(q) /\ c \notin Writers(q)' /\ Writers(q)' \ {c} = Writers(q) \ {c}
    BY <1>1, <1>2, OtherWriters
  <2>2. \A d : d \in Writers(q)' <=> d \in Writers(q)
    BY <2>1
  <2> QED
    BY <2>2
<1>12. /\ \A q \in Path : FileAt(q)' /\ \A d \in RestoreCall, r \in Path : OpenedAt(d, r)'
  <2>1. \A q \in Path : \A d \in Writers(q) : d # c /\ d \in RestoreCall
    BY <1>1 DEF Writers
  <2>2. \A q \in Path : \A d \in Writers(q) : FileOf(d)' = FileOf(d) /\ fcall'[d].done = fcall[d].done
    BY <1>2, <2>1 DEF FileOf
  <2> QED
    BY <1>1, <1>2, <1>3, <1>11, <2>2, FilesKept DEF AtFile
<1> QED
  BY <1>4, <1>10, <1>12 DEF RestoreInv

\* Calls fail: of what they were writing it is known from then on that it was cut off.
LEMMA EndStep ==
    ASSUME RestoreInv, NEW calls \in SUBSET RestoreCall, EndAsFailed(calls), blockIs' = blockIs
    PROVE  RestoreInv'
<1>1. RestoreShape /\ \A d \in RestoreCall : FcallShape(d) /\ DownloadAt(d)
  BY DEF RestoreInv
<1>2. /\ DOMAIN fcall' = RestoreCall /\ DOMAIN got' = RestoreCall
      /\ \A c \in RestoreCall \ calls : fcall'[c] = fcall[c] /\ got'[c] = got[c]
      /\ \A c \in calls : DOMAIN fcall'[c] = CallFields /\ fcall'[c].at = "failed"
      /\ onTarget' = onTarget /\ mingled' = mingled
      /\ opened' = {o \in opened : o[1] \notin calls}
      /\ shared' = {o \in shared : o[1] \notin calls}
      /\ cutOff' = cutOff \cup {p \in Path : calls \cap Writers(p) # {}}
  BY <1>1, FcallEnded
<1>3. RestoreShape'
  BY <1>1, <1>2 DEF RestoreShape
<1>4. \A d \in RestoreCall : FcallShape(d)' /\ DownloadAt(d)'
  <2>1. \A d \in calls : FcallShape(d)' /\ DownloadAt(d)'
    BY <1>2 DEF FcallShape, DownloadAt, AtFile
  <2> QED
    BY <1>1, <1>2, <2>1, FcallKept DEF MayRot
<1>5. \A q : Writers(q)' = Writers(q) \ calls
  <2> SUFFICES ASSUME NEW q, NEW d PROVE d \in Writers(q)' <=> d \in Writers(q) /\ d \notin calls
    OBVIOUS
  <2>1. CASE d \in calls
    BY <1>2, <2>1 DEF Writers
  <2>2. CASE d \notin calls
    BY <1>2, <2>2 DEF Writers
  <2> QED
    BY <2>1, <2>2
<1>6. ASSUME NEW q \in Path PROVE FileAt(q)'
  <2>1. PrefixAt(q) /\ RestsAt(q) /\ CleanAt(q)
    BY DEF RestoreInv, FileAt
  <2>2. \A d \in Writers(q) \ calls : FileOf(d)' = FileOf(d) /\ fcall'[d].done = fcall[d].done
    <3>1. \A d \in Writers(q) \ calls : d \in RestoreCall \ calls
      BY DEF Writers
    <3> QED
      BY <1>2, <3>1 DEF FileOf
  <2>3. PrefixAt(q)'
    BY <1>2, <1>5, <2>1, <2>2 DEF PrefixAt
  <2>4. RestsAt(q)'
    <3> SUFFICES ASSUME Writers(q)' = {}, q \notin cutOff' \cup mingled'
                 PROVE  RestsAt(q)'
      BY DEF RestsAt
    <3>1. calls \cap Writers(q) = {} /\ q \notin cutOff \cup mingled
      BY <1>2
    <3>2. Writers(q) = {}
      BY <1>5, <3>1
    <3> QED
      BY <1>2, <2>1, <3>1, <3>2 DEF RestsAt
  <2>5. CleanAt(q)'
    BY <1>2, <2>1 DEF CleanAt
  <2> QED
    BY <2>3, <2>4, <2>5 DEF FileAt
<1>7. ASSUME NEW d \in RestoreCall, NEW q \in Path PROVE OpenedAt(d, q)'
  <2> SUFFICES ASSUME <<d, q>> \in opened' \ shared' PROVE OpenedAt(d, q)'
    BY DEF OpenedAt
  <2>1. d \notin calls /\ <<d, q>> \in opened \ shared
    BY <1>2
  <2>2. fcall'[d] = fcall[d]
    BY <1>2, <2>1
  <2>3. OpenedAt(d, q)
    BY DEF RestoreInv
  <2> QED
    BY <1>2, <1>5, <2>1, <2>2, <2>3 DEF OpenedAt
<1> QED
  BY <1>3, <1>4, <1>6, <1>7 DEF RestoreInv

LEMMA CompleteStep ==
    ASSUME RestoreInv, NEW c \in RestoreCall, fcall[c].at = "next", fcall[c].left = {},
           fcall' = [fcall EXCEPT ![c].at = "completed"],
           UNCHANGED <<blockIs, onTarget, got, opened, shared, cutOff, mingled>>
    PROVE  RestoreInv'
<1>1. RestoreShape /\ FcallShape(c) /\ \A d \in RestoreCall : FcallShape(d) /\ DownloadAt(d)
  BY DEF RestoreInv
<1>2. FcallStep(c, "completed", fcall[c].how, fcall[c].of, fcall[c].left, fcall[c].path, fcall[c].done)
  BY <1>1 DEF RestoreShape, FcallShape, FcallStep, CallFields
<1>3. RestoreShape'
  BY <1>1, <1>2 DEF RestoreShape, FcallStep
<1>4. FcallShape(c)'
  BY <1>1, <1>2 DEF FcallShape, AtFile, FcallStep
<1>5. DownloadAt(c)'
  <2>1. FileOf(c)' = FileOf(c)
    BY <1>2 DEF FileOf, FcallStep
  <2>2. GotOf(c, Len(FileOf(c))) => GotOf(c, Len(FileOf(c)))'
    BY <1>2, <2>1 DEF GotOf, FcallStep, MayRot
  <2>3. DownloadAt(c)
    BY <1>1
  <2> QED
    BY <1>2, <2>1, <2>2, <2>3 DEF DownloadAt, AtFile, FcallStep
<1>6. \A d \in RestoreCall : FcallShape(d)' /\ DownloadAt(d)'
  BY <1>1, <1>2, <1>4, <1>5, FcallKept DEF FcallStep, MayRot
<1>7. ASSUME NEW q \in Path PROVE Writers(q)' = Writers(q)
  <2>1. c \notin Writers(q) /\ c \notin Writers(q)' /\ Writers(q)' \ {c} = Writers(q) \ {c}
    BY <1>2, OtherWriters DEF FcallStep
  <2>2. \A d : d \in Writers(q)' <=> d \in Writers(q)
    BY <2>1
  <2> QED
    BY <2>2
<1>8. /\ \A q \in Path : FileAt(q)' /\ \A d \in RestoreCall, r \in Path : OpenedAt(d, r)'
  <2>1. \A q \in Path : \A d \in Writers(q) : d # c /\ d \in RestoreCall
    BY DEF Writers
  <2>2. \A q \in Path : \A d \in Writers(q) : FileOf(d)' = FileOf(d) /\ fcall'[d].done = fcall[d].done
    BY <1>2, <2>1 DEF FileOf, FcallStep
  <2> QED
    BY <1>2, <1>7, <2>2, FilesKept DEF AtFile, FcallStep
<1> QED
  BY <1>3, <1>6, <1>8 DEF RestoreInv

\* What becomes of the blocks, and a step that changes nothing.
LEMMA BlocksStep ==
    ASSUME RestoreInv, blockIs' \in [BlockIds -> {"good", "rotten", "mismarked", "gone"}],
           \A b : MayRot(b) => MayRot(b)',
           UNCHANGED <<onTarget, fcall, got, opened, shared, cutOff, mingled>>
    PROVE  RestoreInv'
<1>1. RestoreShape'
  BY DEF RestoreInv, RestoreShape
<1>2. \A d \in RestoreCall : FcallShape(d)' /\ DownloadAt(d)'
  BY FcallKept DEF RestoreInv
<1>3. \A q \in Path : Writers(q)' = Writers(q)
  BY DEF Writers
<1>4. \A d : FileOf(d)' = FileOf(d)
  BY DEF FileOf
<1>5. /\ \A q \in Path : FileAt(q)' /\ \A d \in RestoreCall, r \in Path : OpenedAt(d, r)'
  BY <1>3, <1>4, FilesKept
<1> QED
  BY <1>1, <1>2, <1>5 DEF RestoreInv

(* What each restore and each download has delivered at every moment is known, whatever becomes of
   the blocks and whoever else writes: for any snapshots, files and calls. *)
THEOREM RestoreInvariant == RestoreSpec => [](RestoreInv /\ RestoreTypeOK)
<1> USE RestoreAssumption
<1>1. RestoreInit => RestoreInv
  <2> SUFFICES ASSUME RestoreInit PROVE RestoreInv
    OBVIOUS
  <2>1. PICK was \in {NoFile, OwnFile} : onTarget = [p \in Path |-> was]
    BY DEF RestoreInit
  <2>2. was \in Seq(Pieces) /\ \A i \in DOMAIN was : was[i] # "rotten"
    <3>1. \A b \in Pieces \ {"rotten"} :
              <<b>> \in Seq(Pieces) /\ \A i \in DOMAIN <<b>> : <<b>>[i] # "rotten"
      OBVIOUS
    <3> QED
      BY <3>1 DEF NoFile, OwnFile, Pieces
  <2>3. RestoreShape
    BY <2>1, <2>2 DEF RestoreInit, RestoreShape
  <2>4. \A c \in RestoreCall : fcall[c] = NewFcall /\ got[c] = <<>>
    BY DEF RestoreInit
  <2>5. \A c \in RestoreCall : FcallShape(c) /\ DownloadAt(c)
    BY <2>4, NewFcallIs DEF FcallShape, DownloadAt, AtFile
  <2>6. ASSUME NEW p \in Path PROVE FileAt(p) /\ \A c \in RestoreCall : OpenedAt(c, p)
    <3>1. Writers(p) = {}
      BY <2>4, NewFcallIs DEF Writers
    <3>2. onTarget[p] = was
      BY <2>1
    <3> QED
      BY <2>2, <3>1, <3>2 DEF FileAt, PrefixAt, RestsAt, CleanAt, OpenedAt, RestoreInit
  <2> QED
    BY <2>3, <2>5, <2>6 DEF RestoreInv
<1>2. RestoreInv /\ [RestoreNext]_restoreVars => RestoreInv'
  <2> SUFFICES ASSUME RestoreInv, [RestoreNext]_restoreVars PROVE RestoreInv'
    OBVIOUS
  <2>1. ASSUME NEW c \in NextFcall, NEW s \in Snapshots, NEW how \in Hows,
               NEW files \in SUBSET FilesOf(s) \ {{}}, AskFiles(c, s, how, files)
        PROVE  RestoreInv'
    <3>1. c \in RestoreCall
      BY DEF NextFcall
    <3> QED
      BY <2>1, <3>1, AskStep
  <2>2. ASSUME NEW c \in RestoreCall, NEW p \in Path,
               SkipFile(c, p) \/ LookAt(c, p) \/ BeginExtract(c, p)
        PROVE  RestoreInv'
    BY <2>2, SkipStep, LookStep, BeginExtractStep
  <2>3. ASSUME NEW c \in RestoreCall, TruncateFile(c) \/ WriteNext(c) \/ ExtractNext(c)
        PROVE  RestoreInv'
    BY <2>3, TruncateStep, WriteStep, ExtractStep
  <2>4. ASSUME NEW c \in RestoreCall, RestoreFails(c) \/ ExtractFails(c) PROVE RestoreInv'
    BY <2>4, EndStep DEF RestoreFails, ExtractFails
  <2>5. ASSUME NEW c \in RestoreCall, EndFiles(c) PROVE RestoreInv'
    BY <2>5, EndStep, CompleteStep DEF EndFiles
  <2>6. ASSUME NEW b \in BlockIds, LoseBlock(b) PROVE RestoreInv'
    <3>1. blockIs' \in [BlockIds -> {"good", "rotten", "mismarked", "gone"}]
      BY <2>6 DEF LoseBlock, RestoreInv, RestoreShape
    <3>2. \A d \in BlockIds : blockIs[d] = "mismarked" => blockIs'[d] = "mismarked"
      BY <2>6 DEF LoseBlock, RestoreInv, RestoreShape
    <3>3. \A d : MayRot(d) => MayRot(d)'
      BY <3>2, RestoreAssumption DEF MayRot
    <3> QED
      BY <2>6, <3>1, <3>3, BlocksStep DEF LoseBlock
  <2>7. CASE RestoreRestart
    BY <2>7, EndStep DEF RestoreRestart
  <2>8. CASE UNCHANGED restoreVars
    BY <2>8, BlocksStep DEF restoreVars, RestoreInv, RestoreShape, MayRot
  <2> QED
    BY <2>1, <2>2, <2>3, <2>4, <2>5, <2>6, <2>7, <2>8 DEF RestoreNext
<1>3. RestoreInv => RestoreTypeOK
  <2> SUFFICES ASSUME RestoreInv PROVE RestoreTypeOK
    OBVIOUS
  <2>1. \A p \in Path : onTarget[p] \in Seq(BlockIds \cup {"none", "own", "hole", "rotten"})
    BY DEF RestoreInv, RestoreShape, Pieces
  <2>2. \A c \in RestoreCall : fcall[c].at \in {"new", "next", "create", "write", "completed", "failed"}
    BY DEF RestoreInv, FcallShape, AtFile
  <2> QED
    BY <2>1, <2>2 DEF RestoreInv, RestoreShape, RestoreTypeOK
<1> QED
  BY <1>1, <1>2, <1>3, PTL DEF RestoreSpec

(* RestoreSound for any snapshots: what a restore calls completed is the snapshot's, what lies on
   the target is explained, and nothing rotten gets there. *)
THEOREM RestoresStaySound == RestoreSpec => []RestoreSound
<1>1. RestoreInv => RestoreSound
  <2> SUFFICES ASSUME RestoreInv PROVE RestoreSound
    OBVIOUS
  <2>1. CompletedWhole
    <3> SUFFICES ASSUME NEW o \in opened \ shared, fcall[o[1]].at = "completed"
                 PROVE  onTarget[o[2]] = BlocksOfFile[fcall[o[1]].of][o[2]]
      BY DEF CompletedWhole
    <3>1. PICK c \in RestoreCall, p \in Path : o = <<c, p>>
      BY DEF RestoreInv, RestoreShape
    <3>2. OpenedAt(c, p) /\ c \notin Writers(p)
      BY <3>1 DEF RestoreInv, Writers
    <3> QED
      BY <3>1, <3>2 DEF OpenedAt
  <2>2. RemainsExplained
    BY DEF RestoreInv, FileAt, RestsAt, RemainsExplained
  <2>3. NothingRotten
    <3>1. \A p \in Path : \A i \in DOMAIN onTarget[p] : onTarget[p][i] # "rotten"
      BY DEF RestoreInv, FileAt, CleanAt
    <3>2. ASSUME NEW c \in RestoreCall, fcall[c].at = "completed", fcall[c].how = "download",
                 NEW i \in DOMAIN FileOf(c)
          PROVE  got[c][i] = FileOf(c)[i] \/ (got[c][i] = "rotten" /\ MayRot(FileOf(c)[i]))
      <4>1. GotOf(c, Len(FileOf(c))) /\ fcall[c].path \in FilesOf(fcall[c].of) /\ FcallShape(c)
        BY <3>2 DEF RestoreInv, DownloadAt, AtFile
      <4>2. FileOf(c) \in Seq(BlockIds)
        BY <3>2, <4>1, RestoreAssumption, FilesHaveBlocks DEF AtFile, FileOf
      <4> QED
        BY <4>1, <4>2 DEF GotOf
    <3> QED
      BY <3>1, <3>2 DEF NothingRotten
  <2> QED
    BY <2>1, <2>2, <2>3 DEF RestoreSound
<1> QED
  BY <1>1, RestoreInvariant, PTL

-----------------------------------------------------------------------------
(***************************************************************************)
(* The tapes.  While one write at most is on a tape, and none of the       *)
(* things that unsettle it has happened, the entry at a place of the index *)
(* is for the data at that place, on the tape or, while the file is open   *)
(* and empty, in the hands of the write that opened it.                    *)
(***************************************************************************)
\* An index whose entries have names of files.
IsIndex(index) ==
    /\ index \in Seq({index[i] : i \in DOMAIN index})
    /\ \A i \in DOMAIN index : index[i].name \in TapeName

\* Data in the places the index says.
Aligned(index, data) ==
    Len(index) = Len(data) /\ \A i \in DOMAIN index : index[i].offset = i - 1

Has(index, data, name, c) == \E i \in DOMAIN index : index[i].name = name /\ data[i] = c

\* All that has been written to a tape is in this index and this data.
HasWritten(p, index, data) == \A w \in written : w.to = p => Has(index, data, w.name, w.by)

Filling(p) == {c \in OnTape(p) : writing[c].at \in {"fill", "loose fill"}}

ContentShape(t) ==
    /\ DOMAIN t = {"whole", "index", "data"} /\ t.whole \in BOOLEAN
    /\ IsIndex(t.index) /\ t.data \in Seq(TapeCall)

WriteFields == {"at", "on", "to", "name", "index", "data"}

WriteShape(c) ==
    /\ DOMAIN writing[c] = WriteFields
    /\ writing[c].at \in Steps \cup {"new", "over"}
    /\ writing[c].at \in Steps => writing[c].to \in Device /\ writing[c].name \in TapeName
    /\ IsIndex(writing[c].index) /\ writing[c].data \in Seq(TapeCall)

FormatShape(f) ==
    /\ DOMAIN formatting[f] = {"at", "to", "barcode"}
    /\ formatting[f].at \in {"idle", "fill", "loose fill", "register"}
    /\ formatting[f].at # "idle" => formatting[f].to \in Device /\ formatting[f].barcode \in Barcode

\* A write has its medium, which is in use on a tape that is settled.
MediumHeld(c) ==
    Waiting(c) =>
        /\ writing[c].on \in DOMAIN pool /\ pool[writing[c].on].at = writing[c].to
        /\ writing[c].to \notin unsettled => pool[writing[c].on].status = "inuse"

\* What a write on a settled tape has read of it, or put there.
WriteAt(c) ==
    writing[c].at \in Steps /\ writing[c].to \notin unsettled =>
        LET t == tape[writing[c].to] IN
        /\ writing[c].at = "data" => writing[c].index = t.index
        /\ writing[c].at = "open" => writing[c].index = t.index /\ writing[c].data = t.data
        /\ writing[c].at \in {"fill", "loose fill"} =>
               /\ t = Unread /\ Aligned(writing[c].index, writing[c].data)
               /\ HasWritten(writing[c].to, writing[c].index, writing[c].data)
        /\ writing[c].at = "done" => Has(t.index, t.data, writing[c].name, c)

TapeAt(p) ==
    p \notin unsettled =>
        /\ \A c, d \in OnTape(p) : c = d
        /\ Filling(p) = {} /\ BeingFormatted(p) = {} =>
               /\ Aligned(tape[p].index, tape[p].data)
               /\ HasWritten(p, tape[p].index, tape[p].data)
               /\ tape[p].index # <<>> => tape[p].whole

\* A format has a settled tape to itself, which is empty from beginning to end.
FormatAt(f) ==
    /\ formatting[f].at = "loose fill" => formatting[f].to \in unsettled
    /\ formatting[f].at # "idle" /\ formatting[f].to \notin unsettled =>
         /\ OnTape(formatting[f].to) = {} /\ BeingFormatted(formatting[f].to) = {f}
         /\ tape[formatting[f].to].index = <<>> /\ tape[formatting[f].to].data = <<>>

TapeShape ==
    /\ DOMAIN tape = Device /\ DOMAIN writing = TapeCall /\ DOMAIN formatting = FormatCall
    /\ \A f \in FormatCall : FormatShape(f)
    /\ \A p \in Device : ContentShape(tape[p])
    /\ \A c \in TapeCall : WriteShape(c)
    /\ \A w \in written : w.to \in Device
    /\ unsettled \subseteq Device /\ reused \subseteq Barcode

PoolShape ==
    /\ DOMAIN loaded \subseteq Drive /\ \A d \in DOMAIN loaded : loaded[d] \in Barcode \cup {Nothing}
    /\ DOMAIN pool \subseteq Barcode /\ \A b \in DOMAIN pool : pool[b] \in Media

\* A medium in use has room, unless it was reused or its tape is unsettled.
RoomLeft(b) ==
    b \notin reused /\ pool[b].at \notin unsettled =>
        /\ pool[b].used <= MediaSize
        /\ pool[b].status \in {"available", "inuse"} => pool[b].used < MediaSize

TapeInv ==
    /\ TapeShape /\ PoolShape /\ \A b \in DOMAIN pool : RoomLeft(b)
    /\ \A c \in TapeCall : MediumHeld(c) /\ WriteAt(c)
    /\ \A p \in Device : TapeAt(p)
    /\ \A f \in FormatCall : FormatAt(f)

-----------------------------------------------------------------------------
\* The records of writes, and their fields.
LEMMA OverIs ==
    /\ DOMAIN Over = WriteFields /\ Over.at = "over" /\ Over.index = <<>> /\ Over.data = <<>>
    /\ DOMAIN NoWrite = WriteFields /\ NoWrite.at = "new"
    /\ NoWrite.index = <<>> /\ NoWrite.data = <<>>
<1>1. DOMAIN NoWrite = WriteFields
  BY DEF NoWrite, WriteFields
<1>2. NoWrite.at = "new" /\ NoWrite.index = <<>> /\ NoWrite.data = <<>>
  BY DEF NoWrite
<1>3. Over = [NoWrite EXCEPT !.at = "over"]
  BY DEF Over
<1>4. DOMAIN Over = DOMAIN NoWrite /\ Over.at = "over" /\ Over.index = NoWrite.index
      /\ Over.data = NoWrite.data
  BY <1>1, <1>3 DEF WriteFields
<1> QED
  BY <1>1, <1>2, <1>4

LEMMA EmptyIs ==
    /\ IsIndex(<<>>) /\ <<>> \in Seq(TapeCall)
    /\ DOMAIN Unread = {"whole", "index", "data"} /\ Unread.whole = FALSE
    /\ Unread.index = <<>> /\ Unread.data = <<>>
<1>1. IsIndex(<<>>) /\ <<>> \in Seq(TapeCall)
  BY DEF IsIndex
<1> QED
  BY <1>1 DEF Unread

LEMMA EmptyAligned == ASSUME NEW index, NEW data, index = <<>>, data = <<>> PROVE Aligned(index, data)
BY DEF Aligned

\* An index with one more entry.
LEMMA IndexGrows ==
    ASSUME NEW index, IsIndex(index), NEW e, e.name \in TapeName
    PROVE  LET new == Append(index, e) IN
           /\ IsIndex(new) /\ Len(index) \in Nat /\ DOMAIN index = 1 .. Len(index)
           /\ DOMAIN new = 1 .. Len(index) + 1 /\ Len(new) = Len(index) + 1
           /\ \A i \in DOMAIN index : new[i] = index[i]
           /\ new[Len(index) + 1] = e
<1> DEFINE S == {index[i] : i \in DOMAIN index} \cup {e}
<1>0. e \in S
  OBVIOUS
<1> DEFINE new == Append(index, e)
<1>1. index \in Seq({index[i] : i \in DOMAIN index}) /\ \A i \in DOMAIN index : index[i] \in S
  BY DEF IsIndex
<1>2. Len(index) \in Nat /\ DOMAIN index = 1 .. Len(index)
  BY <1>1
<1>3. index \in Seq(S)
  BY <1>1, <1>2
<1> HIDE DEF S
<1>4. /\ new \in Seq(S) /\ Len(new) = Len(index) + 1 /\ new[Len(index) + 1] = e
      /\ \A i \in 1 .. Len(index) : new[i] = index[i]
  BY <1>0, <1>3, <1>2
<1> HIDE DEF new
<1>5. DOMAIN new = 1 .. Len(index) + 1
  BY <1>2, <1>4
<1>6. \A i \in DOMAIN new : new[i].name \in TapeName
  <2> SUFFICES ASSUME NEW i \in DOMAIN new PROVE new[i].name \in TapeName
    OBVIOUS
  <2>1. CASE i = Len(index) + 1
    BY <1>4, <2>1
  <2>2. CASE i \in 1 .. Len(index)
    BY <1>2, <1>4, <2>2 DEF IsIndex
  <2> QED
    BY <1>2, <1>5, <2>1, <2>2
<1>7. new \in Seq({new[i] : i \in DOMAIN new})
  BY <1>2, <1>4, <1>5
<1> QED
  BY <1>2, <1>4, <1>5, <1>6, <1>7 DEF IsIndex, new

\* The data of an index that is in line with it ends with its last entry.
LEMMA AlignedEnds ==
    ASSUME NEW index, IsIndex(index), NEW data \in Seq(TapeCall), Aligned(index, data)
    PROVE  DataEnd(index) = Len(index)
<1>1. PICK n \in Nat : n = Len(index)
  BY DEF IsIndex
<1>2. DOMAIN index = 1 .. n
  BY <1>1 DEF IsIndex
<1>3. \A e : e \in {index[i].offset + 1 : i \in DOMAIN index} <=> e \in 1 .. n
  BY <1>2 DEF Aligned
<1>4. {index[i].offset + 1 : i \in DOMAIN index} = 1 .. n
  BY <1>3
<1>5. DataEnd(index) = IF 1 .. n = {} THEN 0 ELSE CHOOSE e \in 1 .. n : \A f \in 1 .. n : f <= e
  <2> DEFINE ends == {index[i].offset + 1 : i \in DOMAIN index}
  <2>1. DataEnd(index) = IF ends = {} THEN 0 ELSE CHOOSE e \in ends : \A f \in ends : f <= e
    BY DEF DataEnd
  <2> HIDE DEF ends
  <2>2. ends = 1 .. n
    BY <1>4 DEF ends
  <2> QED
    BY <2>1, <2>2
<1>6. \A e \in 1 .. n : (\A f \in 1 .. n : f <= e) <=> e = n
  OBVIOUS
<1>7. CASE n = 0
  BY <1>1, <1>5, <1>7
<1>8. CASE n # 0
  <2>1. n \in 1 .. n
    BY <1>8
  <2> QED
    BY <1>1, <1>5, <1>6, <2>1
<1> QED
  BY <1>7, <1>8

\* What a write puts on the tape, and what that is when the index it read was in line.
LEMMA AppendedIs ==
    ASSUME TapeShape, NEW c \in TapeCall, writing[c].at \in Steps
    PROVE  /\ DOMAIN Appended(c) = {"whole", "index", "data"} /\ Appended(c).whole = TRUE
           /\ IsIndex(Appended(c).index) /\ Appended(c).data \in Seq(TapeCall)
           /\ \E e : /\ e.name = writing[c].name /\ e.offset = DataEnd(writing[c].index)
                     /\ Appended(c).index = Append(writing[c].index, e)
           /\ SubSeq(Appended(c).data, 1, Len(writing[c].data)) \in Seq(TapeCall)
           /\ tape[writing[c].to].data = <<>> =>
                  Appended(c).data = Append(writing[c].data, c)
<1>0. PICK entry : entry = [name |-> writing[c].name, offset |-> DataEnd(writing[c].index)]
  OBVIOUS
<1> DEFINE t == tape[writing[c].to]
           data == Append(writing[c].data, c)
           rest == SubSeq(t.data, Len(data) + 1, Len(t.data))
           new == Append(writing[c].index, entry)
<1>1. /\ writing[c].to \in Device /\ writing[c].name \in TapeName /\ IsIndex(writing[c].index)
      /\ writing[c].data \in Seq(TapeCall) /\ t.data \in Seq(TapeCall)
  BY DEF TapeShape, WriteShape, ContentShape
<1>2. data \in Seq(TapeCall) /\ Len(data) = Len(writing[c].data) + 1 /\ Len(writing[c].data) \in Nat
      /\ Len(data) \in Nat
  BY <1>1
<1>3. Len(t.data) \in Nat /\ \A i \in Len(data) + 1 .. Len(t.data) : t.data[i] \in TapeCall
  <2>1. Len(t.data) \in Nat /\ \A i \in 1 .. Len(t.data) : t.data[i] \in TapeCall
    BY <1>1
  <2>2. \A i \in Len(data) + 1 .. Len(t.data) : i \in 1 .. Len(t.data)
    BY <1>2, <2>1
  <2> QED
    BY <2>1, <2>2
<1>4. rest \in Seq(TapeCall)
  BY <1>1, <1>2, <1>3, SubSeqProperties
<1>5. Appended(c) = [whole |-> TRUE, index |-> new, data |-> data \o rest]
  BY <1>0 DEF Appended
<1>6. IsIndex(new)
  BY <1>0, <1>1, IndexGrows
<1>7. ASSUME t.data = <<>> PROVE data \o rest = data
  <2>1. rest = <<>>
    BY <1>2, <1>7, SubSeqProperties
  <2> QED
    BY <1>2, <2>1, ConcatEmptySeq
<1> HIDE DEF data, rest, new
<1>8. data \o rest \in Seq(TapeCall) /\ Len(data \o rest) = Len(data) + Len(rest)
  BY <1>2, <1>4, ConcatProperties
<1>9. SubSeq(data \o rest, 1, Len(writing[c].data)) \in Seq(TapeCall)
  <2>1. Len(rest) \in Nat
    BY <1>4
  <2>2. \A i \in 1 .. Len(writing[c].data) : (data \o rest)[i] \in TapeCall
    BY <1>2, <1>8, <2>1
  <2> QED
    BY <1>2, <2>2, SubSeqProperties
<1>10. /\ DOMAIN Appended(c) = {"whole", "index", "data"} /\ Appended(c).whole = TRUE
       /\ Appended(c).index = new /\ Appended(c).data = data \o rest
  BY <1>5
<1> QED
  BY <1>0, <1>6, <1>7, <1>8, <1>9, <1>10 DEF data, new

-----------------------------------------------------------------------------
\* A step of one write: to another place, with what it has read by then, or over.
WriteGoes(c, at, index, data) ==
    /\ DOMAIN writing' = TapeCall /\ \A d \in TapeCall \ {c} : writing'[d] = writing[d]
    /\ DOMAIN writing'[c] = WriteFields /\ writing'[c].at = at
    /\ writing'[c].on = writing[c].on /\ writing'[c].to = writing[c].to
    /\ writing'[c].name = writing[c].name
    /\ writing'[c].index = index /\ writing'[c].data = data

WriteOver(c) ==
    /\ DOMAIN writing' = TapeCall /\ \A d \in TapeCall \ {c} : writing'[d] = writing[d]
    /\ writing'[c] = Over

LEMMA GoIs ==
    ASSUME TapeShape, NEW c \in TapeCall, NEW at, Go(c, at)
    PROVE  WriteGoes(c, at, writing[c].index, writing[c].data)
<1>1. DOMAIN writing[c] = WriteFields /\ DOMAIN writing = TapeCall
  BY DEF TapeShape, WriteShape
<1>2. writing' = [writing EXCEPT ![c] = [writing[c] EXCEPT !.at = at]]
  BY DEF Go
<1>3. /\ DOMAIN writing' = TapeCall /\ \A d \in TapeCall \ {c} : writing'[d] = writing[d]
      /\ writing'[c] = [writing[c] EXCEPT !.at = at]
  BY <1>1, <1>2
<1>4. DOMAIN writing'[c] = WriteFields
  BY <1>1, <1>3
<1>5. writing'[c].at = at
  BY <1>1, <1>3 DEF WriteFields
<1>6. /\ writing'[c].on = writing[c].on /\ writing'[c].to = writing[c].to
      /\ writing'[c].name = writing[c].name /\ writing'[c].index = writing[c].index
      /\ writing'[c].data = writing[c].data
  BY <1>1, <1>3 DEF WriteFields
<1> QED
  BY <1>3, <1>4, <1>5, <1>6 DEF WriteGoes

LEMMA LeaveIs ==
    ASSUME TapeShape, NEW c \in TapeCall, Leave(c)
    PROVE  WriteOver(c)
BY DEF Leave, WriteOver, TapeShape

LEMMA ReadIndexIs ==
    ASSUME TapeShape, NEW c \in TapeCall,
           writing' = [writing EXCEPT ![c].at = "data", ![c].index = tape[writing[c].to].index]
    PROVE  WriteGoes(c, "data", tape[writing[c].to].index, writing[c].data)
<1>1. DOMAIN writing[c] = WriteFields /\ DOMAIN writing = TapeCall
  BY DEF TapeShape, WriteShape
<1>2. /\ DOMAIN writing' = TapeCall /\ \A d \in TapeCall \ {c} : writing'[d] = writing[d]
      /\ writing'[c] = [[writing[c] EXCEPT !.at = "data"]
                           EXCEPT !.index = tape[writing[c].to].index]
  BY <1>1
<1>3. DOMAIN writing'[c] = WriteFields
  BY <1>1, <1>2
<1>4. writing'[c].at = "data" /\ writing'[c].index = tape[writing[c].to].index
  BY <1>1, <1>2 DEF WriteFields
<1>5. /\ writing'[c].on = writing[c].on /\ writing'[c].to = writing[c].to
      /\ writing'[c].name = writing[c].name /\ writing'[c].data = writing[c].data
  BY <1>1, <1>2 DEF WriteFields
<1> QED
  BY <1>2, <1>3, <1>4, <1>5 DEF WriteGoes

LEMMA ReadTapeIs ==
    ASSUME TapeShape, NEW c \in TapeCall,
           writing' = [writing EXCEPT ![c].at = "open", ![c].data = tape[writing[c].to].data]
    PROVE  WriteGoes(c, "open", writing[c].index, tape[writing[c].to].data)
<1>1. DOMAIN writing[c] = WriteFields /\ DOMAIN writing = TapeCall
  BY DEF TapeShape, WriteShape
<1>2. /\ DOMAIN writing' = TapeCall /\ \A d \in TapeCall \ {c} : writing'[d] = writing[d]
      /\ writing'[c] = [[writing[c] EXCEPT !.at = "open"]
                           EXCEPT !.data = tape[writing[c].to].data]
  BY <1>1
<1>3. DOMAIN writing'[c] = WriteFields
  BY <1>1, <1>2
<1>4. writing'[c].at = "open" /\ writing'[c].data = tape[writing[c].to].data
  BY <1>1, <1>2 DEF WriteFields
<1>5. /\ writing'[c].on = writing[c].on /\ writing'[c].to = writing[c].to
      /\ writing'[c].name = writing[c].name /\ writing'[c].index = writing[c].index
  BY <1>1, <1>2 DEF WriteFields
<1> QED
  BY <1>2, <1>3, <1>4, <1>5 DEF WriteGoes

\* The shape of the writes after the step of one of them.
LEMMA WritesKeepShape ==
    ASSUME TapeShape, NEW c \in TapeCall,
           \/ WriteOver(c)
           \/ \E at, index, data :
                  /\ at \in Steps /\ writing[c].at \in Steps /\ IsIndex(index) /\ data \in Seq(TapeCall)
                  /\ WriteGoes(c, at, index, data)
    PROVE  DOMAIN writing' = TapeCall /\ \A d \in TapeCall : WriteShape(d)'
<1>1. DOMAIN writing' = TapeCall /\ \A d \in TapeCall \ {c} : writing'[d] = writing[d]
  BY DEF WriteGoes, WriteOver
<1>2. \A d \in TapeCall : WriteShape(d)
  BY DEF TapeShape
<1>3. \A d \in TapeCall \ {c} : WriteShape(d)'
  BY <1>1, <1>2 DEF WriteShape
<1>4. WriteShape(c)'
  <2>1. CASE WriteOver(c)
    <3>1. writing'[c] = Over
      BY <2>1 DEF WriteOver
    <3>2. IsIndex(writing'[c].index) /\ writing'[c].data \in Seq(TapeCall)
      BY <3>1, OverIs, EmptyIs
    <3>3. DOMAIN writing'[c] = WriteFields /\ writing'[c].at = "over"
      BY <3>1, OverIs
    <3> QED
      BY <3>2, <3>3 DEF WriteShape, Steps
  <2>2. ASSUME NEW at \in Steps, NEW index, NEW data, writing[c].at \in Steps, IsIndex(index),
               data \in Seq(TapeCall), WriteGoes(c, at, index, data)
        PROVE  WriteShape(c)'
    <3>1. writing[c].to \in Device /\ writing[c].name \in TapeName
      BY <1>2, <2>2 DEF WriteShape
    <3>2. writing'[c].index = index /\ IsIndex(writing'[c].index)
      BY <2>2 DEF WriteGoes
    <3> QED
      BY <2>2, <3>1, <3>2 DEF WriteGoes, WriteShape
  <2> QED
    BY <2>1, <2>2
<1> QED
  BY <1>1, <1>3, <1>4

\* The media, while the pool stays as it is and no write begins.
LEMMA MediaStay ==
    ASSUME PoolShape, \A b \in DOMAIN pool : RoomLeft(b), \A d \in TapeCall : MediumHeld(d),
           UNCHANGED <<loaded, pool, reused>>, unsettled \subseteq unsettled',
           \A d \in TapeCall : Waiting(d)' => /\ Waiting(d) /\ writing'[d].on = writing[d].on
                                              /\ writing'[d].to = writing[d].to
    PROVE  /\ PoolShape' /\ \A b \in DOMAIN pool' : RoomLeft(b)'
           /\ \A d \in TapeCall : MediumHeld(d)'
<1>1. PoolShape'
  BY DEF PoolShape
<1>2. \A b \in DOMAIN pool' : RoomLeft(b)'
  BY DEF RoomLeft
<1>3. ASSUME NEW d \in TapeCall PROVE MediumHeld(d)'
  BY DEF MediumHeld
<1> QED
  BY <1>1, <1>2, <1>3

\* The formats, when something else happens: a settled tape that is formatted is left alone.
LEMMA FormatsStay ==
    ASSUME TapeInv, formatting' = formatting, unsettled \subseteq unsettled',
           \A q \in Device \ unsettled' : BeingFormatted(q) # {} =>
               OnTape(q)' = {} /\ tape'[q] = tape[q]
    PROVE  \A f \in FormatCall : FormatAt(f)'
<1> SUFFICES ASSUME NEW f \in FormatCall PROVE FormatAt(f)'
  OBVIOUS
<1>1. FormatAt(f) /\ FormatShape(f)
  BY DEF TapeInv, TapeShape
<1>2. CASE formatting[f].at # "idle" /\ formatting[f].to \notin unsettled'
  <2> DEFINE q == formatting[f].to
  <2>1. q \in Device \ unsettled' /\ BeingFormatted(q) = {f} /\ BeingFormatted(q)' = BeingFormatted(q)
    BY <1>1, <1>2 DEF FormatShape, FormatAt, BeingFormatted
  <2> QED
    BY <1>1, <1>2, <2>1 DEF FormatAt
<1> QED
  BY <1>1, <1>2 DEF FormatAt

\* No format is on a settled tape that a write is on.
LEMMA NoneFormats ==
    ASSUME TapeInv, NEW p, p \notin unsettled, OnTape(p) # {}
    PROVE  BeingFormatted(p) = {}
BY DEF TapeInv, FormatAt, BeingFormatted

\* The tapes and the other writes, when one write takes a step on its tape.
LEMMA OthersStay ==
    ASSUME TapeInv, NEW c \in TapeCall, NEW p \in Device, writing[c].at \in Steps,
           p = writing[c].to, formatting' = formatting,
           \A d \in TapeCall \ {c} : writing'[d] = writing[d],
           writing'[c].at \in Steps => writing'[c].to = p,
           \A q \in Device \ {p} : tape'[q] = tape[q],
           unsettled \subseteq unsettled',
           \A w \in written' : w.to = p \/ w \in written,
           p \notin unsettled' =>
               /\ writing'[c].at \in Steps => WriteAt(c)'
               /\ Filling(p)' = {} => /\ Aligned(tape'[p].index, tape'[p].data)
                                      /\ HasWritten(p, tape[p].index, tape[p].data)'
                                      /\ tape'[p].index # <<>> => tape'[p].whole
    PROVE  /\ \A d \in TapeCall : WriteAt(d)'
           /\ \A q \in Device : TapeAt(q)'
           /\ \A f \in FormatCall : FormatAt(f)'
<1>1. ASSUME NEW d \in TapeCall \ {c} PROVE WriteAt(d)'
  <2>1. CASE writing[d].at \in Steps /\ writing[d].to = p
    <3>1. c \in OnTape(p) /\ d \in OnTape(p) /\ TapeAt(p)
      BY <1>1, <2>1 DEF OnTape, TapeInv
    <3>2. p \in unsettled
      BY <1>1, <3>1 DEF TapeAt
    <3> QED
      BY <2>1, <3>2 DEF WriteAt
  <2>2. CASE writing[d].at \in Steps /\ writing[d].to # p
    <3>1. writing'[d] = writing[d] /\ WriteAt(d) /\ writing[d].to \in Device
      BY <2>2 DEF TapeInv, TapeShape, WriteShape
    <3>2. tape'[writing[d].to] = tape[writing[d].to]
      BY <2>2, <3>1
    <3>3. \A w \in written' : w.to = writing[d].to => w \in written
      BY <2>2
    <3>4. HasWritten(writing[d].to, writing[d].index, writing[d].data) =>
              HasWritten(writing[d].to, writing[d].index, writing[d].data)'
      BY <3>1, <3>3 DEF HasWritten
    <3> QED
      BY <3>1, <3>2, <3>4 DEF WriteAt
  <2>3. CASE writing[d].at \notin Steps
    BY <1>1, <2>3 DEF WriteAt
  <2> QED
    BY <2>1, <2>2, <2>3
<1>2. WriteAt(c)'
  BY DEF WriteAt
<1>3. ASSUME NEW q \in Device PROVE TapeAt(q)'
  <2>1. \A d \in TapeCall : d \in OnTape(q)' => d \in OnTape(q)
    BY DEF OnTape
  <2>2. CASE q = p
    <3>1. TapeAt(p)
      BY DEF TapeInv
    <3> QED
      BY <2>1, <2>2, <3>1 DEF TapeAt, OnTape
  <2>3. CASE q # p
    <3>1. \A d \in TapeCall : d \in Filling(q)' <=> d \in Filling(q)
      <4>1. ASSUME NEW d \in TapeCall \ {c} PROVE d \in Filling(q)' <=> d \in Filling(q)
        BY DEF OnTape, Filling
      <4>2. c \notin Filling(q) /\ c \notin Filling(q)'
        BY <2>3 DEF OnTape, Filling
      <4> QED
        BY <4>1, <4>2
    <3>2. Filling(q)' = Filling(q)
      BY <3>1 DEF Filling, OnTape
    <3>3. TapeAt(q) /\ tape'[q] = tape[q] /\ BeingFormatted(q)' = BeingFormatted(q)
      BY <2>3 DEF TapeInv, BeingFormatted
    <3>4. \A w \in written' : w.to = q => w \in written
      BY <2>3
    <3> QED
      BY <2>1, <3>2, <3>3, <3>4 DEF TapeAt, HasWritten, Has, Aligned, OnTape
  <2> QED
    BY <2>2, <2>3
<1>4. ASSUME NEW q \in Device \ unsettled', BeingFormatted(q) # {}
      PROVE  OnTape(q)' = {} /\ tape'[q] = tape[q]
  <2>1. OnTape(q) = {}
    BY <1>4, NoneFormats
  <2>2. q # p
    BY <2>1 DEF OnTape
  <2>3. \A d \in TapeCall : d \in OnTape(q)' => d \in OnTape(q)
    BY <2>2 DEF OnTape
  <2> QED
    BY <2>1, <2>2, <2>3 DEF OnTape
<1> QED
  BY <1>1, <1>2, <1>3, <1>4, FormatsStay

LEMMA TapeWriteStep ==
    ASSUME TapeInv, NEW c \in TapeCall, NEW p \in Device, writing[c].at \in Steps,
           p = writing[c].to, formatting' = formatting,
           \/ WriteOver(c)
           \/ \E at \in Steps : \E index, data :
                  IsIndex(index) /\ data \in Seq(TapeCall) /\ WriteGoes(c, at, index, data),
           DOMAIN tape' = Device, \A q \in Device \ {p} : tape'[q] = tape[q],
           ContentShape(tape'[p]), reused' \subseteq Barcode,
           unsettled \subseteq unsettled', unsettled' \subseteq unsettled \cup {p},
           \A w \in written' : w.to = p \/ w \in written,
           p \notin unsettled' =>
               /\ writing'[c].at \in Steps => WriteAt(c)'
               /\ Filling(p)' = {} => /\ Aligned(tape'[p].index, tape'[p].data)
                                      /\ HasWritten(p, tape[p].index, tape[p].data)'
                                      /\ tape'[p].index # <<>> => tape'[p].whole,
           PoolShape', \A b \in DOMAIN pool' : RoomLeft(b)', \A d \in TapeCall : MediumHeld(d)'
    PROVE  TapeInv'
<1>1. DOMAIN writing' = TapeCall /\ \A d \in TapeCall : WriteShape(d)'
  BY WritesKeepShape DEF TapeInv
<1>2. TapeShape'
  <2>1. \A q \in Device : ContentShape(tape'[q])
    BY DEF TapeInv, TapeShape
  <2>2. \A w \in written' : w.to \in Device
    BY DEF TapeInv, TapeShape
  <2>3. unsettled' \subseteq Device
    BY DEF TapeInv, TapeShape
  <2>4. DOMAIN formatting' = FormatCall /\ \A f \in FormatCall : FormatShape(f)'
    BY DEF TapeInv, TapeShape, FormatShape
  <2> QED
    BY <1>1, <2>1, <2>2, <2>3, <2>4 DEF TapeShape
<1>3. \A d \in TapeCall \ {c} : writing'[d] = writing[d]
  BY DEF WriteOver, WriteGoes
<1>4. writing'[c].at \in Steps => writing'[c].to = p
  <2>1. CASE WriteOver(c)
    BY <2>1, OverIs DEF WriteOver, Steps
  <2>2. CASE \E at \in Steps : \E index, data : WriteGoes(c, at, index, data)
    BY <2>2 DEF WriteGoes
  <2> QED
    BY <2>1, <2>2
<1>5. /\ \A d \in TapeCall : WriteAt(d)'
      /\ \A q \in Device : TapeAt(q)'
      /\ \A f \in FormatCall : FormatAt(f)'
  BY <1>3, <1>4, OthersStay
<1> QED
  BY <1>2, <1>5 DEF TapeInv

\* A write that has its tape to itself: what is on the tape, and what it knows of it.
LEMMA WriterHas ==
    ASSUME TapeInv, NEW c \in TapeCall, writing[c].at \in Steps
    PROVE  /\ writing[c].to \in Device /\ writing[c].name \in TapeName
           /\ IsIndex(writing[c].index) /\ writing[c].data \in Seq(TapeCall)
           /\ DOMAIN tape = Device /\ ContentShape(tape[writing[c].to]) /\ reused \subseteq Barcode
           /\ writing[c].to \notin unsettled =>
                  /\ WriteAt(c) /\ \A d \in OnTape(writing[c].to) : d = c
                  /\ writing[c].at \notin {"fill", "loose fill"} =>
                         LET t == tape[writing[c].to] IN
                         /\ Aligned(t.index, t.data) /\ HasWritten(writing[c].to, t.index, t.data)
                         /\ t.index # <<>> => t.whole
<1>1. /\ writing[c].to \in Device /\ writing[c].name \in TapeName
      /\ IsIndex(writing[c].index) /\ writing[c].data \in Seq(TapeCall)
      /\ DOMAIN tape = Device /\ ContentShape(tape[writing[c].to]) /\ reused \subseteq Barcode
  BY DEF TapeInv, TapeShape, WriteShape
<1>2. ASSUME writing[c].to \notin unsettled
      PROVE  WriteAt(c) /\ \A d \in OnTape(writing[c].to) : d = c
  BY <1>1, <1>2 DEF TapeInv, TapeAt, OnTape
<1>3. ASSUME writing[c].to \notin unsettled, writing[c].at \notin {"fill", "loose fill"}
      PROVE  LET t == tape[writing[c].to] IN
             /\ Aligned(t.index, t.data) /\ HasWritten(writing[c].to, t.index, t.data)
             /\ t.index # <<>> => t.whole
  <2>1. Filling(writing[c].to) = {} /\ BeingFormatted(writing[c].to) = {}
    <3>1. OnTape(writing[c].to) # {}
      BY DEF OnTape
    <3> QED
      BY <1>2, <1>3, <3>1, NoneFormats DEF Filling
  <2> QED
    BY <1>1, <1>3, <2>1 DEF TapeInv, TapeAt
<1> QED
  BY <1>1, <1>2, <1>3

\* A write reads, fails to, or is left, and the tapes and the pool stay as they are.
LEMMA ReadStep ==
    ASSUME TapeInv, NEW c \in TapeCall, writing[c].at \in Steps,
           \/ WriteOver(c)
           \/ \E at \in Steps : \E index, data :
                  IsIndex(index) /\ data \in Seq(TapeCall) /\ WriteGoes(c, at, index, data),
           writing[c].at \in {"fill", "loose fill"} => writing'[c].at = "loose fill",
           Waiting(c)' => Waiting(c),
           UNCHANGED <<loaded, pool, tape, formatting, written, unsettled, reused>>,
           writing[c].to \notin unsettled /\ writing'[c].at \in Steps => WriteAt(c)'
    PROVE  TapeInv'
<1>0. PICK p : p = writing[c].to
  OBVIOUS
<1>1. /\ p \in Device /\ DOMAIN tape = Device /\ ContentShape(tape[p]) /\ reused \subseteq Barcode
      /\ p \notin unsettled /\ writing[c].at \notin {"fill", "loose fill"} =>
             /\ Aligned(tape[p].index, tape[p].data) /\ HasWritten(p, tape[p].index, tape[p].data)
             /\ tape[p].index # <<>> => tape[p].whole
  BY <1>0, WriterHas
<1>2. \A d \in TapeCall : Waiting(d)' => /\ Waiting(d) /\ writing'[d].on = writing[d].on
                                         /\ writing'[d].to = writing[d].to
  <2>1. \A d \in TapeCall \ {c} : writing'[d] = writing[d]
    BY DEF WriteOver, WriteGoes
  <2>2. CASE WriteOver(c)
    BY <2>1, <2>2, OverIs DEF WriteOver, Waiting, Steps
  <2>3. CASE \E at \in Steps : \E index, data : WriteGoes(c, at, index, data)
    BY <2>1, <2>3 DEF WriteGoes, Waiting
  <2> QED
    BY <2>2, <2>3
<1>3. PoolShape' /\ (\A b \in DOMAIN pool' : RoomLeft(b)') /\ \A d \in TapeCall : MediumHeld(d)'
  BY <1>2, MediaStay DEF TapeInv
<1>4. ASSUME p \notin unsettled', Filling(p)' = {}
      PROVE  /\ Aligned(tape'[p].index, tape'[p].data) /\ HasWritten(p, tape[p].index, tape[p].data)'
             /\ tape'[p].index # <<>> => tape'[p].whole
  <2>1. writing[c].at \notin {"fill", "loose fill"}
    <3> SUFFICES ASSUME writing[c].at \in {"fill", "loose fill"} PROVE FALSE
      OBVIOUS
    <3>1. writing'[c].at = "loose fill" /\ writing'[c].to = p
      BY <1>0, OverIs DEF WriteOver, WriteGoes
    <3> QED
      BY <1>4, <3>1 DEF Filling, OnTape, Steps
  <2> QED
    BY <1>1, <1>4, <2>1 DEF HasWritten
<1>5. writing[c].to \notin unsettled' => writing[c].to \notin unsettled
  OBVIOUS
<1> QED
  BY <1>0, <1>1, <1>3, <1>4, <1>5, TapeWriteStep

-----------------------------------------------------------------------------
LEMMA ReadIndexStep ==
    ASSUME TapeInv, NEW c \in TapeCall, ReadIndex(c)
    PROVE  TapeInv'
<1>1. TapeShape /\ writing[c].at = "index" /\ writing[c].at \in Steps /\ Waiting(c)
  BY DEF TapeInv, ReadIndex, Steps, Waiting
<1>2. UNCHANGED <<loaded, pool, tape, formatting, written, unsettled, reused>>
  BY DEF ReadIndex
<1>3. IsIndex(tape[writing[c].to].index) /\ IsIndex(writing[c].index)
      /\ writing[c].data \in Seq(TapeCall)
  BY <1>1, WriterHas DEF ContentShape
<1>4. CASE writing' = [writing EXCEPT ![c].at = "data", ![c].index = tape[writing[c].to].index]
  <2>1. WriteGoes(c, "data", tape[writing[c].to].index, writing[c].data)
    BY <1>1, <1>4, ReadIndexIs
  <2>2. WriteAt(c)'
    BY <1>2, <2>1 DEF WriteGoes, WriteAt
  <2>3. \E at \in Steps : \E index, data :
            IsIndex(index) /\ data \in Seq(TapeCall) /\ WriteGoes(c, at, index, data)
    BY <1>3, <2>1 DEF Steps
  <2> QED
    BY <1>1, <1>2, <2>2, <2>3, ReadStep
<1>5. CASE Go(c, "failed")
  <2>1. WriteGoes(c, "failed", writing[c].index, writing[c].data)
    BY <1>1, <1>5, GoIs
  <2>2. WriteAt(c)'
    BY <1>2, <2>1 DEF WriteGoes, WriteAt
  <2>3. \E at \in Steps : \E index, data :
            IsIndex(index) /\ data \in Seq(TapeCall) /\ WriteGoes(c, at, index, data)
    BY <1>3, <2>1 DEF Steps
  <2> QED
    BY <1>1, <1>2, <2>2, <2>3, ReadStep
<1> QED
  BY <1>4, <1>5 DEF ReadIndex

LEMMA ReadTapeStep ==
    ASSUME TapeInv, NEW c \in TapeCall, ReadTape(c)
    PROVE  TapeInv'
<1>1. TapeShape /\ writing[c].at = "data" /\ writing[c].at \in Steps /\ Waiting(c)
  BY DEF TapeInv, ReadTape, Steps, Waiting
<1>2. UNCHANGED <<loaded, pool, tape, formatting, written, unsettled, reused>>
  BY DEF ReadTape
<1>3. IsIndex(writing[c].index) /\ tape[writing[c].to].data \in Seq(TapeCall)
  BY <1>1, WriterHas DEF ContentShape
<1>4. WriteGoes(c, "open", writing[c].index, tape[writing[c].to].data)
  BY <1>1, ReadTapeIs DEF ReadTape
<1>5. writing[c].to \notin unsettled => WriteAt(c)'
  BY <1>1, <1>2, <1>4, WriterHas, ZenonT(30) DEF WriteGoes, WriteAt
<1>6. \E at \in Steps : \E index, data :
          IsIndex(index) /\ data \in Seq(TapeCall) /\ WriteGoes(c, at, index, data)
  BY <1>3, <1>4 DEF Steps
<1> QED
  BY <1>1, <1>2, <1>5, <1>6, ReadStep

LEMMA CallerLeavesStep ==
    ASSUME TapeInv, NEW c \in TapeCall, CallerLeaves(c)
    PROVE  TapeInv'
<1>1. TapeShape /\ writing[c].at \in Steps /\ Waiting(c) /\ writing[c].at # "loose fill"
  BY DEF TapeInv, CallerLeaves, Waiting
<1>2. UNCHANGED <<loaded, pool, tape, formatting, written, unsettled, reused>>
  BY DEF CallerLeaves
<1>3. CASE writing[c].at = "fill" /\ Go(c, "loose fill")
  <2>1. WriteGoes(c, "loose fill", writing[c].index, writing[c].data)
    BY <1>1, <1>3, GoIs
  <2>2. IsIndex(writing[c].index) /\ writing[c].data \in Seq(TapeCall)
    BY <1>1, WriterHas
  <2>3. ASSUME writing[c].to \notin unsettled PROVE WriteAt(c)'
    <3>1. WriteAt(c)
      BY <1>1, <2>3, WriterHas
    <3>2. HasWritten(writing[c].to, writing[c].index, writing[c].data)
          => HasWritten(writing[c].to, writing[c].index, writing[c].data)'
      BY <1>2, <2>1 DEF WriteGoes, HasWritten
    <3> QED
      BY <1>1, <1>2, <1>3, <2>1, <2>3, <3>1, <3>2 DEF WriteGoes, WriteAt
  <2>4. \E at \in Steps : \E index, data :
            IsIndex(index) /\ data \in Seq(TapeCall) /\ WriteGoes(c, at, index, data)
    BY <2>1, <2>2 DEF Steps
  <2>5. writing'[c].at = "loose fill"
    BY <2>1 DEF WriteGoes
  <2> QED
    BY <1>1, <1>2, <2>3, <2>4, <2>5, ReadStep
<1>4. CASE writing[c].at # "fill" /\ Leave(c)
  <2>1. WriteOver(c)
    BY <1>1, <1>4, LeaveIs
  <2>2. writing'[c].at \notin Steps
    BY <2>1, OverIs DEF WriteOver, Steps
  <2> QED
    BY <1>1, <1>2, <1>4, <2>1, <2>2, ReadStep
<1> QED
  BY <1>3, <1>4 DEF CallerLeaves

LEMMA OpenTapeStep ==
    ASSUME TapeInv, NEW c \in TapeCall, OpenTape(c)
    PROVE  TapeInv'
<1>0. PICK p : p = writing[c].to
  OBVIOUS
<1>1. TapeShape /\ writing[c].at = "open" /\ writing[c].at \in Steps /\ Waiting(c)
  BY DEF TapeInv, OpenTape, Steps, Waiting
<1>2. UNCHANGED <<loaded, pool, formatting, written, unsettled, reused>>
  BY DEF OpenTape
<1>3. WriteGoes(c, "fill", writing[c].index, writing[c].data)
  BY <1>1, GoIs DEF OpenTape
<1>4. /\ p \in Device /\ IsIndex(writing[c].index) /\ writing[c].data \in Seq(TapeCall)
      /\ DOMAIN tape = Device /\ reused \subseteq Barcode
  BY <1>0, <1>1, WriterHas
<1>5. DOMAIN tape' = Device /\ tape'[p] = Unread /\ \A q \in Device \ {p} : tape'[q] = tape[q]
  BY <1>0, <1>4 DEF OpenTape
<1>6. ContentShape(tape'[p])
  BY <1>5, EmptyIs DEF ContentShape
<1>7. ASSUME p \notin unsettled PROVE WriteAt(c)'
  <2>1. /\ WriteAt(c) /\ Aligned(tape[p].index, tape[p].data)
        /\ HasWritten(p, tape[p].index, tape[p].data)
    BY <1>0, <1>1, <1>7, WriterHas
  <2>2. writing[c].index = tape[p].index /\ writing[c].data = tape[p].data
    BY <1>0, <1>1, <1>7, <2>1 DEF WriteAt
  <2>3. Aligned(writing'[c].index, writing'[c].data)
        /\ HasWritten(writing[c].to, writing[c].index, writing[c].data)'
    BY <1>0, <1>2, <1>3, <2>1, <2>2 DEF WriteGoes, HasWritten
  <2> QED
    BY <1>0, <1>3, <1>5, <2>3 DEF WriteGoes, WriteAt
<1>8. c \in Filling(p)'
  BY <1>0, <1>3 DEF WriteGoes, Filling, OnTape, Steps
<1>9. \A d \in TapeCall : Waiting(d)' => /\ Waiting(d) /\ writing'[d].on = writing[d].on
                                         /\ writing'[d].to = writing[d].to
  <2>1. \A d \in TapeCall \ {c} : writing'[d] = writing[d]
    BY <1>3 DEF WriteGoes
  <2> QED
    BY <1>1, <1>3, <2>1 DEF WriteGoes, Waiting
<1>10. PoolShape' /\ (\A b \in DOMAIN pool' : RoomLeft(b)') /\ \A d \in TapeCall : MediumHeld(d)'
  BY <1>2, <1>9, MediaStay DEF TapeInv
<1>11. \E at \in Steps : \E index, data :
           IsIndex(index) /\ data \in Seq(TapeCall) /\ WriteGoes(c, at, index, data)
  BY <1>3, <1>4 DEF Steps
<1>12. /\ reused' \subseteq Barcode /\ unsettled \subseteq unsettled'
       /\ unsettled' \subseteq unsettled \cup {p} /\ \A w \in written' : w \in written
       /\ p \notin unsettled' => WriteAt(c)' /\ Filling(p)' # {}
  BY <1>2, <1>4, <1>7, <1>8
<1> QED
  BY <1>0, <1>1, <1>2, <1>4, <1>5, <1>6, <1>10, <1>11, <1>12, TapeWriteStep

LEMMA WriteFailsStep ==
    ASSUME TapeInv, NEW c \in TapeCall, WriteFails(c)
    PROVE  TapeInv'
<1>0. PICK p, b : p = writing[c].to /\ b = writing[c].on
  OBVIOUS
<1>1. /\ TapeShape /\ PoolShape /\ writing[c].at = "failed" /\ writing[c].at \in Steps
      /\ Waiting(c)
  BY DEF TapeInv, WriteFails, Steps, Waiting
<1>2. UNCHANGED <<loaded, tape, formatting, written, unsettled, reused>>
      /\ pool' = [pool EXCEPT ![b].status = "available"]
  BY <1>0 DEF WriteFails
<1>3. WriteOver(c)
  BY <1>1, LeaveIs DEF WriteFails
<1>4. /\ p \in Device /\ DOMAIN tape = Device /\ ContentShape(tape[p]) /\ reused \subseteq Barcode
      /\ p \notin unsettled => /\ Aligned(tape[p].index, tape[p].data)
                               /\ HasWritten(p, tape[p].index, tape[p].data)
                               /\ tape[p].index # <<>> => tape[p].whole
                               /\ \A d \in OnTape(p) : d = c
  BY <1>0, <1>1, WriterHas
<1>5. b \in DOMAIN pool /\ pool[b].at = p /\ (p \notin unsettled => pool[b].status = "inuse")
  BY <1>0, <1>1 DEF TapeInv, MediumHeld
<1>6. /\ DOMAIN pool' = DOMAIN pool /\ \A a \in DOMAIN pool : a # b => pool'[a] = pool[a]
      /\ pool'[b] \in Media /\ pool'[b].status = "available" /\ pool'[b].at = pool[b].at
      /\ pool'[b].used = pool[b].used
  BY <1>1, <1>2, <1>5 DEF PoolShape, Media
<1>7. PoolShape'
  BY <1>1, <1>2, <1>6 DEF PoolShape
<1>8. ASSUME NEW a \in DOMAIN pool' PROVE RoomLeft(a)'
  <2>1. RoomLeft(a)
    BY <1>6 DEF TapeInv
  <2>2. CASE a = b
    BY <1>2, <1>5, <1>6, <2>1, <2>2 DEF RoomLeft
  <2>3. CASE a # b
    BY <1>2, <1>6, <2>1, <2>3 DEF RoomLeft
  <2> QED
    BY <2>2, <2>3
<1>9. writing'[c].at \notin Steps
  BY <1>3, OverIs DEF WriteOver, Steps
<1>10. ASSUME NEW d \in TapeCall PROVE MediumHeld(d)'
  <2>1. CASE d = c
    BY <1>9, <2>1 DEF MediumHeld, Waiting
  <2>2. CASE d # c
    <3>1. writing'[d] = writing[d] /\ MediumHeld(d)
      BY <1>3, <2>2 DEF WriteOver, TapeInv
    <3>2. Waiting(d) /\ writing[d].to \notin unsettled => writing[d].on # b
      BY <1>4, <1>5, <2>2, <3>1 DEF MediumHeld, OnTape, Waiting
    <3> QED
      BY <1>2, <1>6, <3>1, <3>2, ZenonT(30) DEF MediumHeld, Waiting
  <2> QED
    BY <2>1, <2>2
<1>11. /\ DOMAIN tape' = Device /\ ContentShape(tape'[p]) /\ reused' \subseteq Barcode
       /\ \A q \in Device \ {p} : tape'[q] = tape[q]
       /\ unsettled \subseteq unsettled' /\ unsettled' \subseteq unsettled \cup {p}
       /\ \A w \in written' : w \in written
       /\ p \notin unsettled' => /\ Aligned(tape'[p].index, tape'[p].data)
                                 /\ HasWritten(p, tape[p].index, tape[p].data)'
                                 /\ tape'[p].index # <<>> => tape'[p].whole
  BY <1>2, <1>4 DEF HasWritten
<1> QED
  BY <1>0, <1>1, <1>2, <1>3, <1>4, <1>7, <1>8, <1>9, <1>10, <1>11, TapeWriteStep

-----------------------------------------------------------------------------
\* One more entry, and its data at the end.
LEMMA EntryAdded ==
    ASSUME NEW index, IsIndex(index), NEW data \in Seq(TapeCall), Aligned(index, data),
           NEW c \in TapeCall, NEW e, e.name \in TapeName, e.offset = DataEnd(index),
           NEW new, new = Append(index, e), NEW with, with = Append(data, c)
    PROVE  /\ Aligned(new, with) /\ Has(new, with, e.name, c)
           /\ \A n, d : Has(index, data, n, d) => Has(new, with, n, d)
<1>1. PICK m \in Nat : m = Len(index)
  BY DEF IsIndex
<1>2. e.offset = m /\ Len(data) = m
  BY <1>1, AlignedEnds DEF Aligned
<1>3. /\ IsIndex(new) /\ DOMAIN index = 1 .. m /\ DOMAIN new = 1 .. m + 1 /\ Len(new) = m + 1
      /\ \A i \in DOMAIN index : new[i] = index[i]
      /\ new[m + 1] = e
  BY <1>1, IndexGrows
<1>4. Len(with) = m + 1 /\ with[m + 1] = c /\ \A i \in 1 .. m : with[i] = data[i]
  BY <1>2
<1>5. ASSUME NEW i \in DOMAIN new PROVE new[i].offset = i - 1
  <2>1. CASE i = m + 1
    BY <1>2, <1>3, <2>1
  <2>2. CASE i \in 1 .. m
    BY <1>3, <2>2 DEF Aligned
  <2> QED
    BY <1>3, <2>1, <2>2
<1>6. Aligned(new, with)
  BY <1>3, <1>4, <1>5 DEF Aligned
<1>7. m + 1 \in DOMAIN new /\ \A i \in DOMAIN index : i \in DOMAIN new /\ i \in 1 .. m
  BY <1>3
<1>8. Has(new, with, e.name, c)
  BY <1>3, <1>4, <1>7 DEF Has
<1>9. \A n, d : Has(index, data, n, d) => Has(new, with, n, d)
  BY <1>3, <1>4, <1>7 DEF Has
<1> QED
  BY <1>6, <1>8, <1>9

LEMMA FillTapeStep ==
    ASSUME TapeInv, NEW c \in TapeCall, FillTape(c)
    PROVE  TapeInv'
<1>0. PICK p : p = writing[c].to
  OBVIOUS
<1>1. TapeShape /\ writing[c].at \in {"fill", "loose fill"} /\ writing[c].at \in Steps
  BY DEF TapeInv, FillTape, Steps
<1>2. UNCHANGED <<loaded, pool, formatting, written, reused>>
  BY DEF FillTape
<1>3. /\ p \in Device /\ IsIndex(writing[c].index) /\ writing[c].data \in Seq(TapeCall)
      /\ writing[c].name \in TapeName
      /\ DOMAIN tape = Device /\ ContentShape(tape[p]) /\ reused \subseteq Barcode
      /\ p \notin unsettled => WriteAt(c)
  BY <1>0, <1>1, WriterHas
<1>4. \/ WriteOver(c)
      \/ writing[c].at = "fill" /\ \E at \in {"done", "failed"} :
                              WriteGoes(c, at, writing[c].index, writing[c].data)
  BY <1>1, GoIs, LeaveIs DEF FillTape
<1>5. \/ WriteOver(c)
      \/ \E at \in Steps : \E index, data :
             IsIndex(index) /\ data \in Seq(TapeCall) /\ WriteGoes(c, at, index, data)
  BY <1>3, <1>4 DEF Steps
<1>6. \A d \in TapeCall : Waiting(d)' => /\ Waiting(d) /\ writing'[d].on = writing[d].on
                                         /\ writing'[d].to = writing[d].to
  <2>1. \A d \in TapeCall \ {c} : writing'[d] = writing[d]
    BY <1>4 DEF WriteOver, WriteGoes
  <2>2. CASE WriteOver(c)
    BY <2>1, <2>2, OverIs DEF WriteOver, Waiting, Steps
  <2>3. CASE writing[c].at = "fill" /\ \E at \in {"done", "failed"} :
                              WriteGoes(c, at, writing[c].index, writing[c].data)
    BY <2>1, <2>3 DEF WriteGoes, Waiting, Steps
  <2> QED
    BY <1>4, <2>2, <2>3
<1>7. writing'[c].at \in Steps =>
          /\ writing'[c].at \in {"done", "failed"} /\ writing'[c].to = p
          /\ writing'[c].name = writing[c].name
  BY <1>0, <1>4, OverIs DEF WriteOver, WriteGoes, Steps
<1>8. /\ DOMAIN Appended(c) = {"whole", "index", "data"} /\ Appended(c).whole = TRUE
      /\ IsIndex(Appended(c).index) /\ Appended(c).data \in Seq(TapeCall)
      /\ \E e : /\ e.name = writing[c].name /\ e.offset = DataEnd(writing[c].index)
                /\ Appended(c).index = Append(writing[c].index, e)
      /\ SubSeq(Appended(c).data, 1, Len(writing[c].data)) \in Seq(TapeCall)
      /\ tape[p].data = <<>> => Appended(c).data = Append(writing[c].data, c)
  BY <1>0, <1>1, AppendedIs
<1>9. unsettled \subseteq unsettled' /\ unsettled' \subseteq unsettled \cup {p}
  BY <1>0 DEF FillTape
<1>10. PoolShape' /\ (\A b \in DOMAIN pool' : RoomLeft(b)') /\ \A d \in TapeCall : MediumHeld(d)'
  BY <1>2, <1>6, <1>9, MediaStay DEF TapeInv
<1>11. CASE tape' = [tape EXCEPT ![p] = Appended(c)] /\ UNCHANGED unsettled
  <2>1. DOMAIN tape' = Device /\ tape'[p] = Appended(c) /\ \A q \in Device \ {p} : tape'[q] = tape[q]
    BY <1>3, <1>11
  <2>2. ContentShape(tape'[p])
    BY <1>8, <2>1 DEF ContentShape
  <2>3. ASSUME p \notin unsettled'
        PROVE  /\ Aligned(tape'[p].index, tape'[p].data)
               /\ HasWritten(p, tape[p].index, tape[p].data)'
               /\ tape'[p].index # <<>> => tape'[p].whole
               /\ Has(tape'[p].index, tape'[p].data, writing[c].name, c)
    <3>1. /\ tape[p] = Unread /\ Aligned(writing[c].index, writing[c].data)
          /\ HasWritten(p, writing[c].index, writing[c].data)
      BY <1>0, <1>1, <1>3, <1>11, <2>3 DEF WriteAt
    <3>2. tape'[p].data = Append(writing[c].data, c)
      BY <1>8, <2>1, <3>1, EmptyIs
    <3>3. /\ Aligned(tape'[p].index, tape'[p].data)
          /\ Has(tape'[p].index, tape'[p].data, writing[c].name, c)
          /\ \A n, d : Has(writing[c].index, writing[c].data, n, d) =>
                       Has(tape'[p].index, tape'[p].data, n, d)
      <4>1. PICK e : /\ e.name = writing[c].name /\ e.offset = DataEnd(writing[c].index)
                     /\ tape'[p].index = Append(writing[c].index, e)
        BY <1>8, <2>1
      <4>2. PICK index, data, new, with :
                /\ index = writing[c].index /\ data = writing[c].data
                /\ new = tape'[p].index /\ with = tape'[p].data
        OBVIOUS
      <4>3. /\ IsIndex(index) /\ data \in Seq(TapeCall) /\ Aligned(index, data)
            /\ e.name \in TapeName /\ e.offset = DataEnd(index)
            /\ new = Append(index, e) /\ with = Append(data, c)
        BY <1>3, <3>1, <3>2, <4>1, <4>2
      <4>4. /\ Aligned(new, with) /\ Has(new, with, e.name, c)
            /\ \A n, d : Has(index, data, n, d) => Has(new, with, n, d)
        BY <4>3, EntryAdded
      <4> QED
        BY <4>1, <4>2, <4>4
    <3>4. HasWritten(p, tape[p].index, tape[p].data)'
      BY <1>2, <3>1, <3>3 DEF HasWritten
    <3> QED
      BY <1>8, <2>1, <3>3, <3>4
  <2>4. p \notin unsettled' => (writing'[c].at \in Steps => WriteAt(c)')
    BY <1>7, <2>3 DEF WriteAt
  <2>5. reused' \subseteq Barcode /\ \A w \in written' : w \in written
    BY <1>2, <1>3
  <2> QED
    BY <1>0, <1>1, <1>2, <1>3, <1>5, <1>9, <1>10, <2>1, <2>2, <2>3, <2>4, <2>5, TapeWriteStep
<1>12. CASE /\ unsettled' = unsettled \cup {p}
            /\ \/ UNCHANGED tape
               \/ tape' = [tape EXCEPT ![p] = [Appended(c) EXCEPT
                               !.data = SubSeq(@, 1, Len(writing[c].data))]]
  <2>1. DOMAIN tape' = Device /\ \A q \in Device \ {p} : tape'[q] = tape[q]
    BY <1>3, <1>12
  <2>2. ContentShape(tape'[p])
    <3>1. CASE UNCHANGED tape
      BY <1>3, <3>1
    <3>2. CASE tape' = [tape EXCEPT ![p] = [Appended(c) EXCEPT
                            !.data = SubSeq(@, 1, Len(writing[c].data))]]
      <4>1. tape'[p] = [Appended(c) EXCEPT
                            !.data = SubSeq(Appended(c).data, 1, Len(writing[c].data))]
        BY <1>3, <3>2
      <4>2. /\ DOMAIN tape'[p] = {"whole", "index", "data"} /\ tape'[p].whole = TRUE
            /\ tape'[p].index = Appended(c).index
            /\ tape'[p].data = SubSeq(Appended(c).data, 1, Len(writing[c].data))
        BY <1>8, <4>1
      <4> QED
        BY <1>8, <4>2 DEF ContentShape
    <3> QED
      BY <1>12, <3>1, <3>2
  <2>3. reused' \subseteq Barcode /\ (\A w \in written' : w \in written) /\ p \in unsettled'
    BY <1>2, <1>3, <1>12
  <2> QED
    BY <1>0, <1>1, <1>2, <1>3, <1>5, <1>9, <1>10, <2>1, <2>2, <2>3, TapeWriteStep
<1> QED
  BY <1>0, <1>11, <1>12 DEF FillTape

LEMMA WriteEndsStep ==
    ASSUME TapeAssumption, TapeInv, NEW c \in TapeCall, WriteEnds(c)
    PROVE  TapeInv'
<1>0. PICK p, b : p = writing[c].to /\ b = writing[c].on
  OBVIOUS
<1>1. /\ TapeShape /\ PoolShape /\ writing[c].at = "done" /\ writing[c].at \in Steps
      /\ Waiting(c)
  BY DEF TapeInv, WriteEnds, Steps, Waiting
<1>2. /\ UNCHANGED <<loaded, tape, formatting, unsettled, reused>>
      /\ pool' = [pool EXCEPT ![b].used = pool[b].used + 1,
                              ![b].status = IF pool[b].used + 1 >= MediaSize THEN "full"
                                            ELSE "available"]
      /\ written' = written \cup {[by |-> c, to |-> p, name |-> writing[c].name]}
  BY <1>0 DEF WriteEnds
<1>3. WriteOver(c)
  BY <1>1, LeaveIs DEF WriteEnds
<1>4. /\ p \in Device /\ DOMAIN tape = Device /\ ContentShape(tape[p]) /\ reused \subseteq Barcode
      /\ p \notin unsettled => /\ Aligned(tape[p].index, tape[p].data)
                               /\ HasWritten(p, tape[p].index, tape[p].data)
                               /\ tape[p].index # <<>> => tape[p].whole
                               /\ WriteAt(c) /\ \A d \in OnTape(p) : d = c
  BY <1>0, <1>1, WriterHas
<1>5. b \in DOMAIN pool /\ pool[b].at = p /\ (p \notin unsettled => pool[b].status = "inuse")
  BY <1>0, <1>1 DEF TapeInv, MediumHeld
<1>6. /\ DOMAIN pool' = DOMAIN pool /\ \A a \in DOMAIN pool : a # b => pool'[a] = pool[a]
      /\ pool'[b] \in Media /\ pool'[b].at = pool[b].at
      /\ pool'[b].used = pool[b].used + 1 /\ pool[b].used \in Nat
      /\ pool'[b].status = IF pool[b].used + 1 >= MediaSize THEN "full" ELSE "available"
  <2>1. pool[b] \in Media /\ pool[b].used \in Nat
    BY <1>1, <1>5 DEF PoolShape, Media
  <2>2. PICK used, mode : /\ used = pool[b].used + 1
                          /\ mode = IF pool[b].used + 1 >= MediaSize THEN "full" ELSE "available"
    OBVIOUS
  <2>3. /\ DOMAIN pool' = DOMAIN pool /\ \A a \in DOMAIN pool : a # b => pool'[a] = pool[a]
        /\ pool'[b] = [[pool[b] EXCEPT !.used = used] EXCEPT !.status = mode]
    BY <1>2, <1>5, <2>2
  <2>4. used \in Nat /\ mode \in {"full", "available"}
    BY <2>1, <2>2
  <2>5. /\ pool'[b] \in Media /\ pool'[b].at = pool[b].at
        /\ pool'[b].used = used /\ pool'[b].status = mode
    BY <2>1, <2>3, <2>4 DEF Media
  <2> QED
    BY <2>1, <2>2, <2>3, <2>5
<1>7. PoolShape'
  BY <1>1, <1>2, <1>6 DEF PoolShape
<1>8. ASSUME NEW a \in DOMAIN pool' PROVE RoomLeft(a)'
  <2>1. RoomLeft(a)
    BY <1>6 DEF TapeInv
  <2>2. CASE a = b
    BY <1>2, <1>5, <1>6, <2>1, <2>2 DEF RoomLeft, TapeAssumption
  <2>3. CASE a # b
    BY <1>2, <1>6, <2>1, <2>3 DEF RoomLeft
  <2> QED
    BY <2>2, <2>3
<1>9. writing'[c].at \notin Steps
  BY <1>3, OverIs DEF WriteOver, Steps
<1>10. ASSUME NEW d \in TapeCall PROVE MediumHeld(d)'
  <2>1. CASE d = c
    BY <1>9, <2>1 DEF MediumHeld, Waiting
  <2>2. CASE d # c
    <3>1. writing'[d] = writing[d] /\ MediumHeld(d)
      BY <1>3, <2>2 DEF WriteOver, TapeInv
    <3>2. Waiting(d) /\ writing[d].to \notin unsettled => writing[d].on # b
      BY <1>4, <1>5, <2>2, <3>1 DEF MediumHeld, OnTape, Waiting
    <3> QED
      BY <1>2, <1>6, <3>1, <3>2 DEF MediumHeld, Waiting
  <2> QED
    BY <2>1, <2>2
<1>11. p \notin unsettled' => /\ Aligned(tape'[p].index, tape'[p].data)
                              /\ HasWritten(p, tape[p].index, tape[p].data)'
                              /\ tape'[p].index # <<>> => tape'[p].whole
  <2> SUFFICES ASSUME p \notin unsettled PROVE HasWritten(p, tape[p].index, tape[p].data)'
    BY <1>2, <1>4
  <2>1. Has(tape[p].index, tape[p].data, writing[c].name, c)
    BY <1>0, <1>1, <1>4 DEF WriteAt
  <2> QED
    BY <1>2, <1>4, <2>1 DEF HasWritten
<1>12. \A w \in written' : w.to = p \/ w \in written
  BY <1>2
<1>13. /\ DOMAIN tape' = Device /\ ContentShape(tape'[p]) /\ reused' \subseteq Barcode
       /\ \A q \in Device \ {p} : tape'[q] = tape[q]
       /\ unsettled \subseteq unsettled' /\ unsettled' \subseteq unsettled \cup {p}
  BY <1>2, <1>4
<1> QED
  BY <1>0, <1>1, <1>2, <1>3, <1>4, <1>7, <1>8, <1>9, <1>10, <1>11, <1>12, <1>13, TapeWriteStep

-----------------------------------------------------------------------------
\* A new write may find another on its tape: then the tape is unsettled from here on.
LEMMA WriteBeginsStep ==
    ASSUME TapeAssumption, TapeInv, NEW c \in TapeCall, NEW d \in Drive, WriteBegins(c, d)
    PROVE  TapeInv'
<1>0. PICK b, p : b = loaded[d] /\ p = pool[b].at
  OBVIOUS
<1>1. /\ TapeShape /\ PoolShape /\ writing[c].at = "new" /\ writing[c].at \notin Steps
      /\ b \in DOMAIN pool /\ pool[b] \in Media /\ pool[b].status # "full"
  BY <1>0 DEF TapeInv, PoolShape, WriteBegins, Steps
<1>2. /\ UNCHANGED <<loaded, tape, formatting, written>> /\ pool' = [pool EXCEPT ![b].status = "inuse"]
      /\ writing' = [writing EXCEPT ![c] = [at |-> "index", on |-> b, to |-> p,
                                            name |-> NameIn[c], index |-> <<>>, data |-> <<>>]]
      /\ unsettled' = unsettled \cup (IF OnTape(p) \cup BeingFormatted(p) = {} THEN {} ELSE {p})
      /\ reused' = reused \cup (IF pool[b].status = "archived" THEN {b} ELSE {})
  BY <1>0 DEF WriteBegins
<1>3. p \in Device /\ b \in Barcode /\ NameIn[c] \in TapeName
  BY <1>0, <1>1 DEF PoolShape, Media, TapeAssumption
<1>4. /\ DOMAIN writing' = TapeCall /\ \A e \in TapeCall \ {c} : writing'[e] = writing[e]
      /\ DOMAIN writing'[c] = WriteFields /\ writing'[c].at = "index" /\ writing'[c].on = b
      /\ writing'[c].to = p /\ writing'[c].name = NameIn[c]
      /\ writing'[c].index = <<>> /\ writing'[c].data = <<>>
  BY <1>1, <1>2 DEF TapeShape, WriteFields
<1>5. /\ DOMAIN pool' = DOMAIN pool /\ \A a \in DOMAIN pool : a # b => pool'[a] = pool[a]
      /\ pool'[b] \in Media /\ pool'[b].status = "inuse" /\ pool'[b].at = p
      /\ pool'[b].used = pool[b].used
  BY <1>0, <1>1, <1>2 DEF PoolShape, Media
<1>6. /\ unsettled \subseteq unsettled' /\ unsettled' \subseteq Device
      /\ reused \subseteq reused' /\ reused' \subseteq Barcode
  BY <1>1, <1>2, <1>3 DEF TapeShape
<1>7. TapeShape'
  <2>1. \A e \in TapeCall \ {c} : WriteShape(e)'
    BY <1>1, <1>4 DEF TapeShape, WriteShape
  <2>2. IsIndex(writing'[c].index) /\ writing'[c].data \in Seq(TapeCall)
    BY <1>4, EmptyIs
  <2>3. WriteShape(c)'
    BY <1>3, <1>4, <2>2 DEF WriteShape, Steps
  <2> QED
    BY <1>1, <1>2, <1>4, <1>6, <2>1, <2>3 DEF TapeShape, FormatShape
<1>8. PoolShape'
  BY <1>1, <1>2, <1>5 DEF PoolShape
<1>9. ASSUME NEW a \in DOMAIN pool' PROVE RoomLeft(a)'
  <2>1. RoomLeft(a)
    BY <1>5 DEF TapeInv
  <2>2. CASE a = b
    <3>1. b \notin reused' => pool[b].status \in {"available", "inuse"}
      BY <1>1, <1>2 DEF Media
    <3> QED
      BY <1>0, <1>5, <1>6, <2>1, <2>2, <3>1 DEF RoomLeft
  <2>3. CASE a # b
    BY <1>5, <1>6, <2>1, <2>3 DEF RoomLeft
  <2> QED
    BY <2>2, <2>3
<1>10. ASSUME NEW e \in TapeCall PROVE MediumHeld(e)'
  <2>1. CASE e = c
    BY <1>1, <1>4, <1>5, <2>1 DEF MediumHeld
  <2>2. CASE e # c
    <3>1. writing'[e] = writing[e] /\ MediumHeld(e)
      BY <1>4, <2>2 DEF TapeInv
    <3> QED
      BY <1>0, <1>5, <1>6, <3>1 DEF MediumHeld, Waiting
  <2> QED
    BY <2>1, <2>2
<1>11. ASSUME NEW e \in TapeCall PROVE WriteAt(e)'
  <2>1. CASE e = c
    BY <1>4, <2>1 DEF WriteAt
  <2>2. CASE e # c
    <3>1. writing'[e] = writing[e] /\ WriteAt(e)
      BY <1>4, <2>2 DEF TapeInv
    <3>2. HasWritten(writing[e].to, writing[e].index, writing[e].data)
          => HasWritten(writing[e].to, writing[e].index, writing[e].data)'
      BY <1>2, <3>1 DEF HasWritten
    <3> QED
      BY <1>2, <1>6, <3>1, <3>2 DEF WriteAt
  <2> QED
    BY <2>1, <2>2
<1>12. ASSUME NEW q \in Device, q \notin unsettled' PROVE TapeAt(q)'
  <2>1. TapeAt(q) /\ q \notin unsettled
    BY <1>6, <1>12 DEF TapeInv
  <2>2. \A e \in TapeCall : e \in Filling(q)' <=> e \in Filling(q)
    BY <1>1, <1>4 DEF Filling, OnTape, Steps
  <2>3. Filling(q)' = Filling(q)
    BY <2>2 DEF Filling, OnTape
  <2>4. \A e \in TapeCall \ {c} : e \in OnTape(q)' <=> e \in OnTape(q)
    BY <1>4 DEF OnTape
  <2>5. \A e, f \in OnTape(q)' : e = f
    <3>1. CASE q = p
      <4>1. OnTape(q) = {}
        BY <1>2, <1>12, <3>1
      <4> QED
        BY <2>4, <4>1 DEF OnTape
    <3>2. CASE q # p
      <4>1. c \notin OnTape(q)'
        BY <1>4, <3>2 DEF OnTape
      <4> QED
        BY <2>1, <2>4, <4>1 DEF TapeAt, OnTape
    <3> QED
      BY <3>1, <3>2
  <2>6. HasWritten(q, tape[q].index, tape[q].data) => HasWritten(q, tape[q].index, tape[q].data)'
    BY <1>2 DEF HasWritten
  <2>7. BeingFormatted(q)' = BeingFormatted(q)
    BY <1>2 DEF BeingFormatted
  <2> QED
    BY <1>2, <2>1, <2>3, <2>5, <2>6, <2>7 DEF TapeAt
<1>13. \A q \in Device : TapeAt(q)'
  BY <1>12 DEF TapeAt
<1>14. ASSUME NEW q \in Device \ unsettled', BeingFormatted(q) # {}
       PROVE  OnTape(q)' = {} /\ tape'[q] = tape[q]
  <2>1. OnTape(q) = {} /\ q # p
    BY <1>2, <1>6, <1>14, NoneFormats
  <2>2. \A e \in TapeCall : e \in OnTape(q)' => e \in OnTape(q)
    BY <1>4, <2>1 DEF OnTape
  <2> QED
    BY <1>2, <2>1, <2>2 DEF OnTape
<1>15. \A f \in FormatCall : FormatAt(f)'
  BY <1>2, <1>6, <1>14, FormatsStay
<1> QED
  BY <1>7, <1>8, <1>9, <1>10, <1>11, <1>13, <1>15 DEF TapeInv

\* One format takes a step on its tape, which is unsettled if anything else is on it.
LEMMA FormatStep ==
    ASSUME TapeInv, NEW f \in FormatCall, NEW p \in Device, UNCHANGED <<loaded, writing, reused>>,
           DOMAIN formatting' = FormatCall, \A e \in FormatCall \ {f} : formatting'[e] = formatting[e],
           FormatShape(f)',
           formatting[f].at # "idle" => formatting[f].to = p,
           formatting'[f].at # "idle" => formatting'[f].to = p,
           formatting'[f].at = "loose fill" => p \in unsettled',
           DOMAIN tape' = Device, \A q \in Device \ {p} : tape'[q] = tape[q], ContentShape(tape'[p]),
           unsettled \subseteq unsettled', unsettled' \subseteq unsettled \cup {p},
           written' \subseteq written,
           PoolShape', \A b \in DOMAIN pool' : RoomLeft(b)',
           \A b \in DOMAIN pool : b \in DOMAIN pool' /\ pool'[b] = pool[b],
           p \notin unsettled' =>
               /\ OnTape(p) = {} /\ BeingFormatted(p)' \subseteq {f}
               /\ tape'[p].index = <<>> /\ tape'[p].data = <<>>
               /\ formatting'[f].at = "idle" => \A w \in written' : w.to # p
    PROVE  TapeInv'
<1>1. TapeShape'
  <2>1. \A q \in Device : ContentShape(tape'[q])
    BY DEF TapeInv, TapeShape
  <2>2. (\A w \in written' : w.to \in Device) /\ unsettled' \subseteq Device /\ reused' \subseteq Barcode
    BY DEF TapeInv, TapeShape
  <2>3. DOMAIN writing' = TapeCall /\ \A c \in TapeCall : WriteShape(c)'
    BY DEF TapeInv, TapeShape, WriteShape
  <2>4. \A e \in FormatCall \ {f} : FormatShape(e)'
    BY DEF TapeInv, TapeShape, FormatShape
  <2> QED
    BY <2>1, <2>2, <2>3, <2>4 DEF TapeShape
<1>2. ASSUME NEW c \in TapeCall PROVE MediumHeld(c)'
  <2>1. MediumHeld(c)
    BY DEF TapeInv
  <2> QED
    BY <2>1 DEF MediumHeld, Waiting
<1>o. \A q : OnTape(q)' = OnTape(q) /\ Filling(q)' = Filling(q)
  BY DEF OnTape, Filling
<1>b. ASSUME NEW q \in Device \ {p} PROVE BeingFormatted(q)' = BeingFormatted(q)
  <2>1. f \notin BeingFormatted(q) /\ f \notin BeingFormatted(q)'
    BY DEF BeingFormatted
  <2>2. \A e \in FormatCall \ {f} : e \in BeingFormatted(q)' <=> e \in BeingFormatted(q)
    BY DEF BeingFormatted
  <2> QED
    BY <2>1, <2>2 DEF BeingFormatted
<1>3. ASSUME NEW c \in TapeCall, writing[c].at \in Steps, writing[c].to \notin unsettled'
      PROVE  WriteAt(c)'
  <2>1. WriteAt(c) /\ writing[c].to \in Device /\ writing[c].to # p
    BY <1>3 DEF TapeInv, TapeShape, WriteShape, OnTape
  <2>2. HasWritten(writing[c].to, writing[c].index, writing[c].data)
        => HasWritten(writing[c].to, writing[c].index, writing[c].data)'
    BY DEF HasWritten
  <2> QED
    BY <1>3, <2>1, <2>2 DEF WriteAt
<1>4. \A c \in TapeCall : WriteAt(c)'
  BY <1>3 DEF WriteAt
<1>5. ASSUME NEW q \in Device, q \notin unsettled' PROVE TapeAt(q)'
  <2>1. TapeAt(q) /\ q \notin unsettled
    BY <1>5 DEF TapeInv
  <2>2. CASE q = p
    <3>1. BeingFormatted(p)' = {} => \A w \in written' : w.to # p
      <4>1. BeingFormatted(p)' = {} => formatting'[f].at = "idle"
        BY DEF BeingFormatted
      <4> QED
        BY <1>5, <2>2, <4>1
    <3>2. (\A w \in written' : w.to # p) => HasWritten(p, tape[p].index, tape[p].data)'
      BY DEF HasWritten
    <3>3. Aligned(tape'[p].index, tape'[p].data) /\ tape'[p].index = <<>>
      <4>1. tape'[p].index = <<>> /\ tape'[p].data = <<>>
        BY <1>5, <2>2
      <4> QED
        BY <4>1, EmptyAligned
    <3> QED
      BY <1>o, <2>1, <2>2, <3>1, <3>2, <3>3 DEF TapeAt
  <2>3. CASE q # p
    <3>1. tape'[q] = tape[q] /\ BeingFormatted(q)' = BeingFormatted(q)
      BY <1>b, <2>3
    <3>2. HasWritten(q, tape[q].index, tape[q].data) => HasWritten(q, tape[q].index, tape[q].data)'
      BY <3>1 DEF HasWritten
    <3> QED
      BY <1>o, <2>1, <3>1, <3>2 DEF TapeAt
  <2> QED
    BY <2>2, <2>3
<1>6. \A q \in Device : TapeAt(q)'
  BY <1>5 DEF TapeAt
<1>7. ASSUME NEW e \in FormatCall PROVE FormatAt(e)'
  <2>1. CASE e = f
    <3> SUFFICES ASSUME formatting'[f].at # "idle", p \notin unsettled'
                 PROVE  OnTape(p)' = {} /\ BeingFormatted(p)' = {f}
      BY <2>1 DEF FormatAt
    <3>1. f \in BeingFormatted(p)'
      BY DEF BeingFormatted
    <3> QED
      BY <1>o, <3>1
  <2>2. CASE e # f
    <3>1. formatting'[e] = formatting[e] /\ FormatAt(e) /\ FormatShape(e)
      BY <2>2 DEF TapeInv, TapeShape
    <3>2. ASSUME formatting[e].at # "idle", formatting[e].to \notin unsettled'
          PROVE  FormatAt(e)'
      <4> DEFINE q == formatting[e].to
      <4>1. q # p
        <5>1. q = p => e \in BeingFormatted(p)'
          BY <3>1, <3>2 DEF BeingFormatted
        <5> QED
          BY <2>2, <3>2, <5>1
      <4>2. q \in Device
        BY <3>1, <3>2 DEF FormatShape
      <4>3. BeingFormatted(formatting[e].to)' = BeingFormatted(formatting[e].to)
        <5>1. BeingFormatted(q)' = {d \in FormatCall : /\ formatting'[d].at # "idle"
                                                       /\ formatting'[d].to = formatting'[e].to}
          BY DEF BeingFormatted
        <5> QED
          BY <1>b, <3>1, <4>1, <4>2 DEF BeingFormatted
      <4> QED
        BY <1>o, <3>1, <3>2, <4>1, <4>2, <4>3 DEF FormatAt
    <3> QED
      BY <3>1, <3>2 DEF FormatAt
  <2> QED
    BY <2>1, <2>2
<1> QED
  BY <1>1, <1>2, <1>4, <1>6, <1>7 DEF TapeInv

\* The record of a format: none, begun, or at another place.
LEMMA NoFormatIs ==
    /\ DOMAIN NoFormat = {"at", "to", "barcode"} /\ NoFormat.at = "idle"
BY DEF NoFormat

LEMMA FormatBeginsStep ==
    ASSUME TapeInv, NEW f \in FormatCall, NEW p \in Device, NEW b \in Barcode, FormatBegins(f, p, b)
    PROVE  TapeInv'
<1>1. TapeShape /\ PoolShape /\ \A a \in DOMAIN pool : RoomLeft(a)
  BY DEF TapeInv
<1>2. /\ formatting[f].at = "idle" /\ UNCHANGED <<loaded, pool, writing, written, reused>>
      /\ formatting' = [formatting EXCEPT ![f] = [at |-> "fill", to |-> p, barcode |-> b]]
      /\ tape' = [tape EXCEPT ![p] = Unread]
      /\ unsettled' = unsettled \cup (IF OnTape(p) \cup BeingFormatted(p) = {} THEN {} ELSE {p})
  BY DEF FormatBegins
<1>3. /\ DOMAIN formatting' = FormatCall /\ \A e \in FormatCall \ {f} : formatting'[e] = formatting[e]
      /\ formatting'[f] = [at |-> "fill", to |-> p, barcode |-> b]
  BY <1>1, <1>2 DEF TapeShape
<1>4. FormatShape(f)' /\ formatting'[f].at = "fill" /\ formatting'[f].to = p
  BY <1>3 DEF FormatShape
<1>5. DOMAIN tape' = Device /\ tape'[p] = Unread /\ \A q \in Device \ {p} : tape'[q] = tape[q]
  BY <1>1, <1>2 DEF TapeShape
<1>6. ContentShape(tape'[p]) /\ tape'[p].index = <<>> /\ tape'[p].data = <<>>
  BY <1>5, EmptyIs DEF ContentShape
<1>7. PoolShape' /\ \A a \in DOMAIN pool' : RoomLeft(a)'
  BY <1>1, <1>2 DEF PoolShape, RoomLeft
<1>8. ASSUME p \notin unsettled' PROVE OnTape(p) = {} /\ BeingFormatted(p)' \subseteq {f}
  <2>1. OnTape(p) = {} /\ BeingFormatted(p) = {}
    BY <1>2, <1>8
  <2>2. \A e \in BeingFormatted(p)' : e = f
    BY <1>3, <2>1 DEF BeingFormatted
  <2> QED
    BY <2>1, <2>2
<1> QED
  BY <1>2, <1>3, <1>4, <1>5, <1>6, <1>7, <1>8, FormatStep

LEMMA FormatFillsStep ==
    ASSUME TapeInv, NEW f \in FormatCall, FormatFills(f)
    PROVE  TapeInv'
<1>0. PICK p : p = formatting[f].to
  OBVIOUS
<1> DEFINE t == [whole |-> TRUE, index |-> <<>>, data |-> tape[p].data]
           formatted == [tape EXCEPT ![p] = t]
<1>1. TapeShape /\ PoolShape /\ (\A a \in DOMAIN pool : RoomLeft(a)) /\ FormatShape(f) /\ FormatAt(f)
  BY DEF TapeInv, TapeShape
<1>2. /\ formatting[f].at \in {"fill", "loose fill"}
      /\ UNCHANGED <<loaded, pool, writing, written, reused>>
      /\ \/ /\ tape' = formatted /\ UNCHANGED unsettled
            /\ formatting' = [formatting EXCEPT ![f] =
                   IF @.at = "fill" THEN [@ EXCEPT !.at = "register"] ELSE NoFormat]
         \/ /\ tape' \in {tape, formatted} /\ unsettled' = unsettled \cup {p}
            /\ formatting' = [formatting EXCEPT ![f] = NoFormat]
  BY <1>0 DEF FormatFills
<1>3. p \in Device /\ formatting[f].barcode \in Barcode /\ ContentShape(tape[p])
  BY <1>0, <1>1, <1>2 DEF FormatShape, TapeShape
<1>4. /\ DOMAIN formatting' = FormatCall /\ \A e \in FormatCall \ {f} : formatting'[e] = formatting[e]
      /\ \/ formatting'[f] = NoFormat
         \/ formatting'[f] = [formatting[f] EXCEPT !.at = "register"] /\ formatting[f].at = "fill"
            /\ tape' = formatted /\ UNCHANGED unsettled
  BY <1>0, <1>1, <1>2 DEF TapeShape
<1>5. /\ FormatShape(f)' /\ formatting'[f].at # "loose fill"
      /\ formatting'[f].at # "idle" => formatting'[f].to = p
  <2>1. CASE formatting'[f] = NoFormat
    BY <2>1, NoFormatIs DEF FormatShape
  <2>2. CASE formatting'[f] = [formatting[f] EXCEPT !.at = "register"]
    <3>1. /\ DOMAIN formatting'[f] = {"at", "to", "barcode"} /\ formatting'[f].at = "register"
          /\ formatting'[f].to = p /\ formatting'[f].barcode = formatting[f].barcode
      BY <1>0, <1>1, <2>2 DEF FormatShape
    <3> QED
      BY <1>0, <1>3, <3>1 DEF FormatShape
  <2> QED
    BY <1>0, <1>4, <2>1, <2>2
<1>6. /\ DOMAIN tape' = Device /\ \A q \in Device \ {p} : tape'[q] = tape[q]
      /\ tape'[p] = tape[p] \/ tape'[p] = t
  BY <1>0, <1>1, <1>2, <1>3 DEF TapeShape
<1>7. ContentShape(t)
  BY <1>0, <1>3, EmptyIs DEF ContentShape
<1>8. PoolShape' /\ \A a \in DOMAIN pool' : RoomLeft(a)'
  BY <1>0, <1>1, <1>2 DEF PoolShape, RoomLeft
<1>9. unsettled \subseteq unsettled' /\ unsettled' \subseteq unsettled \cup {p}
  BY <1>0, <1>2
<1>10. ASSUME p \notin unsettled'
       PROVE  /\ OnTape(p) = {} /\ BeingFormatted(p)' \subseteq {f}
              /\ tape'[p].index = <<>> /\ tape'[p].data = <<>> /\ formatting'[f].at # "idle"
  <2>1. /\ OnTape(p) = {} /\ BeingFormatted(p) = {f} /\ formatting[f].at = "fill"
        /\ tape[p].data = <<>>
    BY <1>0, <1>1, <1>2, <1>10 DEF FormatAt
  <2>2. tape' = formatted /\ formatting'[f] = [formatting[f] EXCEPT !.at = "register"]
    BY <1>0, <1>1, <1>2, <1>10, <2>1 DEF TapeShape
  <2>3. tape'[p] = t
    BY <1>0, <1>1, <1>3, <2>2 DEF TapeShape
  <2>4. \A e \in BeingFormatted(p)' : e = f
    BY <1>0, <1>4, <2>1 DEF BeingFormatted
  <2>5. formatting'[f].at = "register"
    BY <1>0, <1>1, <2>2 DEF FormatShape
  <2> QED
    BY <2>1, <2>3, <2>4, <2>5
<1> HIDE DEF t, formatted
<1> QED
  BY <1>0, <1>2, <1>3, <1>4, <1>5, <1>6, <1>7, <1>8, <1>9, <1>10, FormatStep

LEMMA FormatRegistersStep ==
    ASSUME TapeAssumption, TapeInv, NEW f \in FormatCall, FormatRegisters(f)
    PROVE  TapeInv'
<1>0. PICK p, b : p = formatting[f].to /\ b = formatting[f].barcode
  OBVIOUS
<1>1. TapeShape /\ PoolShape /\ (\A a \in DOMAIN pool : RoomLeft(a)) /\ FormatShape(f) /\ FormatAt(f)
  BY DEF TapeInv, TapeShape
<1>2. /\ formatting[f].at = "register" /\ formatting' = [formatting EXCEPT ![f] = NoFormat]
      /\ UNCHANGED <<loaded, tape, writing, reused>>
      /\ \/ /\ b \in DOMAIN pool /\ unsettled' = unsettled \cup {p} /\ UNCHANGED <<pool, written>>
         \/ /\ b \notin DOMAIN pool /\ written' = {w \in written : w.to # p} /\ UNCHANGED unsettled
            /\ pool' = Put(pool, b, [at |-> p, status |-> "available", used |-> 0])
  BY <1>0 DEF FormatRegisters
<1>3. p \in Device /\ b \in Barcode /\ ContentShape(tape[p])
  BY <1>0, <1>1, <1>2 DEF FormatShape, TapeShape
<1>4. /\ DOMAIN formatting' = FormatCall /\ \A e \in FormatCall \ {f} : formatting'[e] = formatting[e]
      /\ formatting'[f] = NoFormat
  BY <1>0, <1>1, <1>2 DEF TapeShape
<1>5. FormatShape(f)' /\ formatting'[f].at = "idle"
  BY <1>0, <1>4, NoFormatIs DEF FormatShape
<1>6. /\ DOMAIN pool \subseteq DOMAIN pool' /\ \A a \in DOMAIN pool : pool'[a] = pool[a]
      /\ DOMAIN pool' \subseteq DOMAIN pool \cup {b}
      /\ b \notin DOMAIN pool => /\ pool'[b].at = p /\ pool'[b].status = "available"
                                 /\ pool'[b].used = 0 /\ pool'[b] \in Media
  BY <1>0, <1>2, <1>3 DEF Put, Media
<1>7. PoolShape'
  BY <1>0, <1>1, <1>2, <1>3, <1>6 DEF PoolShape
<1>8. unsettled \subseteq unsettled' /\ unsettled' \subseteq unsettled \cup {p} /\ written' \subseteq written
  BY <1>0, <1>2
<1>9. ASSUME NEW a \in DOMAIN pool' PROVE RoomLeft(a)'
  <2>1. CASE a \in DOMAIN pool
    BY <1>0, <1>1, <1>2, <1>6, <1>8, <2>1 DEF RoomLeft
  <2>2. CASE a \notin DOMAIN pool
    BY <1>0, <1>6, <2>2 DEF RoomLeft, TapeAssumption
  <2> QED
    BY <2>1, <2>2
<1>10. ASSUME p \notin unsettled'
       PROVE  /\ OnTape(p) = {} /\ BeingFormatted(p)' \subseteq {f}
              /\ tape'[p].index = <<>> /\ tape'[p].data = <<>> /\ \A w \in written' : w.to # p
  <2>1. /\ OnTape(p) = {} /\ BeingFormatted(p) = {f}
        /\ tape[p].index = <<>> /\ tape[p].data = <<>>
    BY <1>0, <1>1, <1>2, <1>10 DEF FormatAt
  <2>2. \A e \in BeingFormatted(p)' : e = f
    BY <1>0, <1>4, <2>1 DEF BeingFormatted
  <2> QED
    BY <1>0, <1>2, <1>10, <2>1, <2>2
<1>11. DOMAIN tape' = Device
  BY <1>0, <1>1, <1>2 DEF TapeShape
<1> QED
  BY <1>0, <1>2, <1>3, <1>4, <1>5, <1>6, <1>7, <1>8, <1>9, <1>10, <1>11, FormatStep

LEMMA FormatLeftStep ==
    ASSUME TapeInv, NEW f \in FormatCall, FormatLeft(f)
    PROVE  TapeInv'
<1>0. PICK p : p = formatting[f].to
  OBVIOUS
<1>1. TapeShape /\ PoolShape /\ (\A a \in DOMAIN pool : RoomLeft(a)) /\ FormatShape(f)
  BY DEF TapeInv, TapeShape
<1>2. /\ formatting[f].at \in {"fill", "register"} /\ unsettled' = unsettled \cup {p}
      /\ UNCHANGED <<loaded, pool, tape, writing, written, reused>>
      /\ formatting' = [formatting EXCEPT ![f] =
             IF @.at = "fill" THEN [@ EXCEPT !.at = "loose fill"] ELSE NoFormat]
  BY <1>0 DEF FormatLeft
<1>3. p \in Device /\ formatting[f].barcode \in Barcode /\ ContentShape(tape[p]) /\ DOMAIN tape' = Device
  BY <1>0, <1>1, <1>2 DEF FormatShape, TapeShape
<1>4. /\ DOMAIN formatting' = FormatCall /\ \A e \in FormatCall \ {f} : formatting'[e] = formatting[e]
      /\ \/ formatting'[f] = NoFormat
         \/ formatting'[f] = [formatting[f] EXCEPT !.at = "loose fill"]
  BY <1>0, <1>1, <1>2 DEF TapeShape
<1>5. FormatShape(f)' /\ (formatting'[f].at # "idle" => formatting'[f].to = p)
  <2>1. CASE formatting'[f] = NoFormat
    BY <2>1, NoFormatIs DEF FormatShape
  <2>2. CASE formatting'[f] = [formatting[f] EXCEPT !.at = "loose fill"]
    <3>1. /\ DOMAIN formatting'[f] = {"at", "to", "barcode"} /\ formatting'[f].at = "loose fill"
          /\ formatting'[f].to = p /\ formatting'[f].barcode = formatting[f].barcode
      BY <1>0, <1>1, <2>2 DEF FormatShape
    <3> QED
      BY <1>0, <1>3, <3>1 DEF FormatShape
  <2> QED
    BY <1>0, <1>4, <2>1, <2>2
<1>6. PoolShape' /\ \A a \in DOMAIN pool' : RoomLeft(a)'
  BY <1>0, <1>1, <1>2 DEF PoolShape, RoomLeft
<1>7. unsettled \subseteq unsettled' /\ unsettled' \subseteq unsettled \cup {p} /\ p \in unsettled'
  BY <1>0, <1>2
<1> QED
  BY <1>0, <1>2, <1>3, <1>4, <1>5, <1>6, <1>7, FormatStep

\* Of the tapes and the writes nothing changes: only the drives, or the pool where nothing is in use.
LEMMA PoolStep ==
    ASSUME TapeInv, UNCHANGED <<tape, writing, formatting, written, unsettled>>,
           reused \subseteq reused', reused' \subseteq Barcode,
           PoolShape', \A b \in DOMAIN pool' : RoomLeft(b)',
           \A b \in DOMAIN pool : /\ b \in DOMAIN pool' /\ pool'[b].at = pool[b].at
                                  /\ pool[b].status = "inuse" => pool'[b].status = "inuse"
    PROVE  TapeInv'
<1>1. TapeShape'
  BY DEF TapeInv, TapeShape, WriteShape, FormatShape
<1>2. ASSUME NEW c \in TapeCall PROVE MediumHeld(c)' /\ WriteAt(c)'
  <2>1. MediumHeld(c)'
    BY DEF TapeInv, MediumHeld, Waiting
  <2>2. WriteAt(c)'
    BY DEF TapeInv, WriteAt, HasWritten
  <2> QED
    BY <2>1, <2>2
<1>3. ASSUME NEW p \in Device PROVE TapeAt(p)'
  BY DEF TapeInv, TapeAt, HasWritten, Filling, OnTape, BeingFormatted
<1>4. ASSUME NEW f \in FormatCall PROVE FormatAt(f)'
  BY DEF TapeInv, FormatAt, OnTape, BeingFormatted
<1> QED
  BY <1>1, <1>2, <1>3, <1>4 DEF TapeInv

LEMMA DrivesStep ==
    ASSUME TapeInv, UNCHANGED <<pool, tape, writing, formatting, written, unsettled, reused>>,
           DOMAIN loaded' \subseteq Drive,
           \A d \in DOMAIN loaded' : loaded'[d] \in Barcode \cup {Nothing}
    PROVE  TapeInv'
<1>1. PoolShape' /\ \A b \in DOMAIN pool' : RoomLeft(b)'
  BY DEF TapeInv, PoolShape, RoomLeft
<1>2. reused' \subseteq Barcode
  BY DEF TapeInv, TapeShape
<1> QED
  BY <1>1, <1>2, PoolStep

LEMMA AddMediaStep ==
    ASSUME TapeAssumption, TapeInv, NEW b \in Barcode, NEW p \in Device,
           NEW s \in {"available", "archived"}, AddMedia(b, p, s)
    PROVE  TapeInv'
<1>1. /\ UNCHANGED <<loaded, tape, writing, formatting, written, unsettled, reused>> /\ b \notin DOMAIN pool
      /\ pool' = Put(pool, b, [at |-> p, status |-> s,
                               used |-> IF s = "archived" THEN MediaSize ELSE 0])
  BY DEF AddMedia
<1>2. PICK used : used = IF s = "archived" THEN MediaSize ELSE 0
  OBVIOUS
<1>3. used \in Nat /\ used <= MediaSize /\ (s # "archived" => used < MediaSize)
  BY <1>2 DEF TapeAssumption
<1>4. /\ DOMAIN pool' = DOMAIN pool \cup {b} /\ \A a \in DOMAIN pool : pool'[a] = pool[a]
      /\ pool'[b] = [at |-> p, status |-> s, used |-> used]
  BY <1>1, <1>2 DEF Put
<1>5. pool'[b] \in Media /\ pool'[b].at = p /\ pool'[b].status = s /\ pool'[b].used = used
  BY <1>3, <1>4 DEF Media
<1>6. PoolShape'
  BY <1>1, <1>4, <1>5 DEF TapeInv, PoolShape
<1>7. ASSUME NEW a \in DOMAIN pool' PROVE RoomLeft(a)'
  <2>1. CASE a = b
    BY <1>3, <1>5, <2>1 DEF RoomLeft
  <2>2. CASE a \in DOMAIN pool
    BY <1>1, <1>4, <2>2 DEF RoomLeft, TapeInv
  <2> QED
    BY <1>4, <2>1, <2>2
<1> QED
  BY <1>1, <1>4, <1>6, <1>7, PoolStep DEF TapeInv, TapeShape

LEMMA ReleaseMediaStep ==
    ASSUME TapeInv, ReleaseMedia
    PROVE  TapeInv'
<1>1. PICK over : over = {b \in DOMAIN pool : pool[b].status = "archived"}
  OBVIOUS
<1>2. /\ UNCHANGED <<loaded, tape, writing, formatting, written, unsettled>> /\ reused' = reused \cup over
      /\ pool' = [b \in DOMAIN pool |-> IF b \in over THEN [pool[b] EXCEPT !.status = "available"]
                                        ELSE pool[b]]
  BY <1>1 DEF ReleaseMedia
<1>3. PoolShape /\ over \subseteq Barcode /\ reused \subseteq Barcode
  BY <1>1 DEF TapeInv, PoolShape, TapeShape
<1>4. DOMAIN pool' = DOMAIN pool /\ \A b \in DOMAIN pool \ over : pool'[b] = pool[b]
  BY <1>2
<1>5. ASSUME NEW b \in over
      PROVE  pool'[b] \in Media /\ pool'[b].at = pool[b].at /\ pool[b].status = "archived"
  <2>1. pool[b] \in Media /\ pool'[b] = [pool[b] EXCEPT !.status = "available"]
    BY <1>1, <1>2, <1>3 DEF PoolShape
  <2> QED
    BY <1>1, <2>1 DEF Media
<1>6. PoolShape'
  BY <1>2, <1>3, <1>4, <1>5 DEF PoolShape
<1>7. \A b \in DOMAIN pool' : RoomLeft(b)'
  BY <1>2, <1>4 DEF TapeInv, RoomLeft
<1> QED
  BY <1>2, <1>3, <1>4, <1>5, <1>6, <1>7, PoolStep

LEMMA RestartStep ==
    ASSUME TapeInv, TapeRestart
    PROVE  TapeInv'
<1>1. /\ loaded' = <<>> /\ pool' = <<>> /\ reused' = {} /\ UNCHANGED <<tape, written>>
      /\ writing' = [c \in TapeCall |-> IF writing[c].at \in Steps THEN Over ELSE writing[c]]
      /\ formatting' = [f \in FormatCall |-> NoFormat]
      /\ unsettled' = unsettled
             \cup {writing[c].to : c \in {e \in TapeCall : writing[e].at \in {"fill", "loose fill"}}}
             \cup {formatting[f].to : f \in {e \in FormatCall : formatting[e].at # "idle"}}
  BY DEF TapeRestart
<1>2. \A c \in TapeCall : writing'[c].at \notin Steps
  BY <1>1, OverIs DEF Steps
<1>3. ASSUME NEW c \in TapeCall PROVE WriteShape(c)'
  <2>1. CASE writing[c].at \in Steps
    <3>1. writing'[c] = Over
      BY <1>1, <2>1
    <3>2. IsIndex(writing'[c].index) /\ writing'[c].data \in Seq(TapeCall)
      BY <3>1, OverIs, EmptyIs
    <3> QED
      BY <3>1, <3>2, OverIs DEF WriteShape, Steps
  <2>2. CASE writing[c].at \notin Steps
    BY <1>1, <2>2 DEF TapeInv, TapeShape, WriteShape
  <2> QED
    BY <2>1, <2>2
<1>4. unsettled \subseteq unsettled' /\ unsettled' \subseteq Device
  BY <1>1 DEF TapeInv, TapeShape, WriteShape, FormatShape, Steps
<1>f. \A f \in FormatCall : formatting'[f] = NoFormat /\ FormatShape(f)' /\ FormatAt(f)'
  BY <1>1, NoFormatIs DEF FormatShape, FormatAt
<1>5. TapeShape'
  BY <1>1, <1>3, <1>4, <1>f DEF TapeInv, TapeShape
<1>6. PoolShape' /\ \A b \in DOMAIN pool' : RoomLeft(b)'
  <2>1. loaded' = <<>> /\ pool' = <<>>
    BY <1>1
  <2>2. DOMAIN loaded' = {} /\ DOMAIN pool' = {}
    BY <2>1
  <2> QED
    BY <2>2 DEF PoolShape
<1>7. \A c \in TapeCall : MediumHeld(c)' /\ WriteAt(c)'
  BY <1>2 DEF MediumHeld, Waiting, WriteAt
<1>8. ASSUME NEW p \in Device, p \notin unsettled' PROVE TapeAt(p)'
  <2>1. TapeAt(p) /\ p \notin unsettled /\ Filling(p) = {} /\ BeingFormatted(p) = {}
    BY <1>1, <1>4, <1>8 DEF TapeInv, Filling, OnTape, BeingFormatted
  <2>2. OnTape(p)' = {}
    BY <1>2 DEF OnTape
  <2>3. HasWritten(p, tape[p].index, tape[p].data)'
    BY <1>1, <1>8, <2>1 DEF TapeAt, HasWritten
  <2> QED
    BY <1>1, <2>1, <2>2, <2>3 DEF TapeAt
<1>9. \A p \in Device : TapeAt(p)'
  BY <1>8 DEF TapeAt
<1> QED
  BY <1>5, <1>6, <1>7, <1>9, <1>f DEF TapeInv

LEMMA TapeStep ==
    ASSUME TapeAssumption, TapeInv, [TapeNext]_tapeVars
    PROVE  TapeInv'
<1>1. PoolShape
  BY DEF TapeInv
<1>2. ASSUME NEW d \in Drive, NEW b \in Barcode \cup {Nothing}, RegisterDrive(d, b) PROVE TapeInv'
  <2>1. DOMAIN loaded' \subseteq Drive /\ \A e \in DOMAIN loaded' : loaded'[e] \in Barcode \cup {Nothing}
    BY <1>1, <1>2 DEF RegisterDrive, Put, PoolShape
  <2> QED
    BY <1>2, <2>1, DrivesStep DEF RegisterDrive
<1>3. ASSUME NEW d \in Drive, NEW b \in Barcode, LoadMedia(d, b) PROVE TapeInv'
  <2>1. DOMAIN loaded' \subseteq Drive /\ \A e \in DOMAIN loaded' : loaded'[e] \in Barcode \cup {Nothing}
    BY <1>1, <1>3 DEF LoadMedia, Put, PoolShape
  <2> QED
    BY <1>3, <2>1, DrivesStep DEF LoadMedia
<1>4. ASSUME NEW d \in Drive, EjectMedia(d) PROVE TapeInv'
  <2>1. DOMAIN loaded' \subseteq Drive /\ \A e \in DOMAIN loaded' : loaded'[e] \in Barcode \cup {Nothing}
    BY <1>1, <1>4 DEF EjectMedia, Put, PoolShape
  <2> QED
    BY <1>4, <2>1, DrivesStep DEF EjectMedia
<1>5. CASE UNCHANGED tapeVars
  BY <1>1, <1>5, DrivesStep DEF tapeVars, PoolShape
<1> QED
  BY <1>2, <1>3, <1>4, <1>5, AddMediaStep, FormatBeginsStep, FormatFillsStep, FormatRegistersStep,
     FormatLeftStep, ReleaseMediaStep, WriteBeginsStep,
     ReadIndexStep, ReadTapeStep, OpenTapeStep, FillTapeStep, WriteEndsStep, WriteFailsStep,
     CallerLeavesStep, RestartStep DEF TapeNext

(* TapeInv, and with it the types of the tapes, in every state. *)
THEOREM TapeInvariant == ASSUME TapeAssumption PROVE TapeSpec => [](TapeInv /\ TapeTypeOK)
<1>1. TapeInit => TapeInv
  <2> SUFFICES ASSUME TapeInit PROVE TapeInv
    OBVIOUS
  <2>1. /\ loaded = <<>> /\ pool = <<>> /\ tape = [p \in Device |-> Unread]
        /\ writing = [c \in TapeCall |-> NoWrite] /\ formatting = [f \in FormatCall |-> NoFormat]
        /\ written = {} /\ unsettled = {} /\ reused = {}
    BY DEF TapeInit
  <2>2. \A c \in TapeCall : writing[c].at \notin Steps
    BY <2>1, OverIs DEF Steps
  <2>3. ContentShape(Unread)
    BY EmptyIs DEF ContentShape
  <2>4. ASSUME NEW c \in TapeCall PROVE WriteShape(c)
    <3>1. writing[c] = NoWrite
      BY <2>1
    <3>2. IsIndex(writing[c].index) /\ writing[c].data \in Seq(TapeCall)
      BY <3>1, OverIs, EmptyIs
    <3> QED
      BY <3>1, <3>2, OverIs DEF WriteShape, Steps
  <2>f. \A f \in FormatCall : FormatShape(f) /\ FormatAt(f)
    BY <2>1, NoFormatIs DEF FormatShape, FormatAt
  <2>5. TapeShape
    BY <2>1, <2>3, <2>4, <2>f DEF TapeShape
  <2>6. PoolShape /\ \A b \in DOMAIN pool : RoomLeft(b)
    BY <2>1 DEF PoolShape
  <2>7. \A c \in TapeCall : MediumHeld(c) /\ WriteAt(c)
    BY <2>2 DEF MediumHeld, Waiting, WriteAt
  <2>8. ASSUME NEW p \in Device PROVE TapeAt(p)
    <3>1. tape[p].index = <<>> /\ tape[p].data = <<>> /\ OnTape(p) = {}
      BY <2>1, <2>2, EmptyIs DEF OnTape
    <3>2. Aligned(tape[p].index, tape[p].data)
      BY <3>1 DEF Aligned
    <3>3. HasWritten(p, tape[p].index, tape[p].data)
      BY <2>1 DEF HasWritten
    <3> QED
      BY <3>1, <3>2, <3>3 DEF TapeAt
  <2> QED
    BY <2>5, <2>6, <2>7, <2>8, <2>f DEF TapeInv
<1>2. TapeInv /\ [TapeNext]_tapeVars => TapeInv'
  BY TapeStep
<1>3. TapeInv => TapeTypeOK
  BY DEF TapeInv, TapeShape, PoolShape, ContentShape, WriteShape, FormatShape, IsIndex, TapeTypeOK
<1> QED
  BY <1>1, <1>2, <1>3, PTL DEF TapeSpec

\* Of two places one would be a second entry.
LEMMA OnePlace ==
    ASSUME NEW S, IsFiniteSet(S), ~(Cardinality(S) > 1), NEW i \in S
    PROVE  S = {i}
<1>1. SUFFICES ASSUME NEW j \in S, j # i PROVE FALSE
  OBVIOUS
<1>2. IsFiniteSet({i}) /\ Cardinality({i}) = 1
  BY FS_Singleton
<1>3. Cardinality({i} \cup {j}) = 2 /\ IsFiniteSet({i} \cup {j})
  BY <1>1, <1>2, FS_AddElement
<1>4. Cardinality({i} \cup {j}) <= Cardinality(S)
  BY <1>1, FS_Subset
<1> QED
  BY <1>3, <1>4, FS_CardinalityType

(* TapeSound for any drives, media, tapes and writes: what a caller was told is written reads back,
   and a medium that is used up is not offered again. *)
THEOREM TapesStaySound == ASSUME TapeAssumption PROVE TapeSpec => []TapeSound
<1>1. ASSUME TapeInv PROVE TapeReadsBack
  <2> SUFFICES ASSUME NEW w \in written, w.to \notin unsettled,
                      Len(tape[w.to].index) <= IndexMax, Filling(w.to) = {},
                      BeingFormatted(w.to) = {},
                      ~(Cardinality({i \in DOMAIN tape[w.to].index :
                                         tape[w.to].index[i].name = w.name}) > 1)
               PROVE  ReadFile(w.to, w.name) = {w.by}
    <3>1. ASSUME NEW w \in written
          PROVE  /\ Len(tape[w.to].index) > IndexMax \/ Len(tape[w.to].index) <= IndexMax
                 /\ Filling(w.to) # {} => \E c \in TapeCall :
                        writing[c].at \in {"fill", "loose fill"} /\ writing[c].to = w.to
      <4>1. Len(tape[w.to].index) \in Nat
        BY <1>1 DEF TapeInv, TapeShape, ContentShape, IsIndex
      <4>2. Len(tape[w.to].index) > IndexMax \/ Len(tape[w.to].index) <= IndexMax
        BY <4>1, TapeAssumption DEF TapeAssumption
      <4> QED
        BY <4>2 DEF Filling, OnTape
    <3> QED
      BY <3>1 DEF TapeReadsBack
  <2> DEFINE t == tape[w.to]
             named == {i \in DOMAIN t.index : t.index[i].name = w.name}
  <2>1. /\ w.to \in Device /\ IsIndex(t.index) /\ t.data \in Seq(TapeCall)
        /\ Aligned(t.index, t.data) /\ Has(t.index, t.data, w.name, w.by)
        /\ t.index # <<>> => t.whole
    BY <1>1 DEF TapeInv, TapeShape, ContentShape, TapeAt, HasWritten
  <2>2. PICK i \in DOMAIN t.index : t.index[i].name = w.name /\ t.data[i] = w.by
    BY <2>1 DEF Has
  <2>3. DOMAIN t.index = 1 .. Len(t.index) /\ Len(t.index) \in Nat /\ i \in Nat
    BY <2>1 DEF IsIndex
  <2>4. named = {i}
    <3>1. named \subseteq 1 .. Len(t.index) /\ i \in named
      BY <2>2, <2>3
    <3>2. IsFiniteSet(named)
      <4>1. PICK n \in Nat : n = Len(t.index)
        BY <2>3
      <4>2. IsFiniteSet(1 .. n)
        BY FS_Interval
      <4> QED
        BY <3>1, <4>1, <4>2, FS_Subset
    <3> QED
      BY <3>1, <3>2, OnePlace
  <2>5. t.index # <<>>
    BY <2>2, <2>3
  <2>6. Readable(t)
    BY <2>1, <2>5 DEF Readable
  <2>7. t.index[i].offset = i - 1 /\ Len(t.data) = Len(t.index)
    BY <2>1, <2>2 DEF Aligned
  <2>8. ReadFile(w.to, w.name) =
            IF ~Readable(t) \/ named = {} THEN {}
            ELSE LET at == t.index[CHOOSE j \in named : \A k \in named : j <= k].offset IN
                 IF at < Len(t.data) THEN {t.data[at + 1]} ELSE {}
    BY DEF ReadFile
  <2> HIDE DEF named
  <2>9. (CHOOSE j \in named : \A k \in named : j <= k) = i
    BY <2>3, <2>4
  <2>10. t.index[i].offset < Len(t.data) /\ t.data[t.index[i].offset + 1] = w.by
    <3>1. t.index[i].offset = i - 1 /\ i \in 1 .. Len(t.data) /\ t.data[i] = w.by
      BY <2>2, <2>3, <2>7
    <3>2. t.index[i].offset \in Nat /\ t.index[i].offset < Len(t.data)
      BY <2>3, <3>1
    <3> QED
      BY <3>1, <3>2
  <2> QED
    BY <2>4, <2>6, <2>8, <2>9, <2>10
<1>2. ASSUME TapeInv PROVE UsedUpIsFull
  <2> SUFFICES ASSUME NEW b \in DOMAIN pool, b \notin reused, pool[b].at \notin unsettled
               PROVE  \/ pool[b].used < MediaSize
                      \/ pool[b].used = MediaSize /\ pool[b].status # "available"
    BY DEF UsedUpIsFull
  <2>1. RoomLeft(b) /\ pool[b].used \in Nat
    BY <1>2 DEF TapeInv, PoolShape, Media
  <2> QED
    BY <2>1, TapeAssumption DEF RoomLeft, TapeAssumption
<1>3. TapeInv => TapeSound
  BY <1>1, <1>2 DEF TapeSound
<1> QED
  BY <1>3, TapeInvariant, PTL
-----------------------------------------------------------------------------
(***************************************************************************)
(* The exports of a disk: a connection's answers are those to its calls.   *)
(*                                                                         *)
(* Until padding comes to the front of a stream, what is left of it is the *)
(* calls that have no answer yet, each with the padding it was sent with:  *)
(* StreamPlaced names the call of every element.  Padding at the front is  *)
(* that of a call which has its answer, so a connection that has gone      *)
(* astray has answered an unaligned call.                                  *)
(***************************************************************************)
\* A connection is a record of these fields.
WireShaped(r) == r = [at |-> r.at, stream |-> r.stream, answered |-> r.answered, last |-> r.last]

\* place[i] is the index of the call that element i of the stream is of, or pads.
StreamPlaced(stream, calls, answered, place) ==
    /\ place \in Seq(Nat) /\ Len(place) = Len(stream)
    /\ stream = <<>> => answered = Len(calls)
    /\ stream # <<>> => /\ place[1] = IF stream[1] = Padding THEN answered ELSE answered + 1
                        /\ place[Len(stream)] = Len(calls)
    /\ \A i \in 1 .. Len(stream) :
          /\ place[i] \in 1 .. Len(calls)
          /\ IF stream[i] = Padding THEN Unaligned(calls[place[i]]) ELSE stream[i] = calls[place[i]]
          /\ i > 1 => place[i] = IF stream[i] = Padding THEN place[i - 1] ELSE place[i - 1] + 1

AnswersPlaced(c) ==
    /\ conn[c].at = "open" =>
          /\ \E place \in Seq(Nat) : StreamPlaced(conn[c].stream, callsOf[c], conn[c].answered, place)
          /\ conn[c].answered > 0 => conn[c].last.to = callsOf[c][conn[c].answered]
    /\ conn[c].at = "astray" =>
          \E i \in 1 .. conn[c].answered : i <= Len(callsOf[c]) /\ Unaligned(callsOf[c][i])
    /\ conn[c].at \in {"new", "closed"} => conn[c].answered = 0 /\ callsOf[c] = <<>>
    /\ conn[c].answered <= Len(callsOf[c]) /\ Len(callsOf[c]) <= WireCalls

WireShape ==
    /\ export \in [by : {"iscsi", "nfs"}, size : DiskSizes]
    /\ conn = [c \in WireConn |-> conn[c]] /\ callsOf \in [WireConn -> Seq(Calls)]
    /\ \A c \in WireConn :
          /\ WireShaped(conn[c]) /\ conn[c].at \in {"new", "open", "astray", "closed"}
          /\ conn[c].answered \in Nat /\ conn[c].stream \in Seq(Calls \cup {Padding})

SocketsKept == IsFiniteSet(Served) /\ Cardinality(Served) <= Sockets

WireInv == WireShape /\ (\A c \in WireConn : AnswersPlaced(c)) /\ ReadsHonest /\ SocketsKept

LEMMA WireConstants ==
    /\ Sector \in Nat \ {0} /\ Sockets \in Nat \ {0} /\ AddressSpace \in Nat \ {0}
    /\ DiskSizes \subseteq Nat /\ Lbas \subseteq Nat /\ MaxRead \in Nat /\ WireCalls \in Nat
  BY WireAssumption

\* Padding is no call.
LEMMA PaddingIsNoCall == Padding \notin Calls
  <1> SUFFICES ASSUME NEW call \in Calls PROVE call.op # "padding"
    BY DEF Padding
  <1>1. call \in Pings => call.op # "padding"
    BY DEF Pings
  <1>2. call \in Commands \cup NfsCalls => call.op # "padding"
    BY DEF Commands, NfsCalls
  <1>3. call \in SectorReads \cup FileReads => call.op # "padding"
    BY DEF SectorReads, FileReads
  <1> QED
    BY <1>1, <1>2, <1>3 DEF Calls

\* A block of the disk is within it.
LEMMA BlockWithin ==
    ASSUME NEW size \in Nat, NEW lba \in Nat, lba < (size + Sector - 1) \div Sector
    PROVE  lba * Sector \in Nat /\ lba * Sector < size
  <1>1. Sector \in Nat \ {0}
    BY WireConstants
  <1> DEFINE sum == size + Sector - 1
             count == sum \div Sector
  <1>2. sum \in Nat /\ count \in Nat /\ sum = (Sector * count) + (sum % Sector) /\ sum % Sector \in Nat
    BY <1>1
  <1> HIDE DEF count
  <1>3. lba + 1 <= count
    BY <1>2 DEF count
  <1>4. PICK more \in Nat : count = lba + 1 + more
    <2>1. count - (lba + 1) \in Nat /\ count = lba + 1 + (count - (lba + 1))
      BY <1>2, <1>3
    <2> QED
      BY <2>1
  <1>5. Sector * count = lba * Sector + Sector + Sector * more
    BY <1>1, <1>4
  <1>6. lba * Sector \in Nat /\ Sector * more \in Nat
    BY <1>1, <1>4
  <1> QED
    BY <1>1, <1>2, <1>5, <1>6

\* A read that is answered as good returns what the disk has at its place.
HonestAnswer(call, answer) ==
    call.op = "read" /\ answer.what = "good" =>
        IF export.by = "iscsi"
        THEN /\ Len(answer.data) = call.blocks * Sector
             /\ call.lba < NumBlocks => BytesAt(answer.data, call.lba * Sector)
        ELSE /\ Len(answer.data) \in {0, Smaller(call.count, MaxRead)}
             /\ BytesAt(answer.data, call.offset)

LEMMA RangeIsHonest ==
    ASSUME NEW offset, NEW len \in Nat
    PROVE  Len(DiskRange(offset, len)) = len /\ BytesAt(DiskRange(offset, len), offset)
  BY DEF DiskRange, BytesAt

LEMMA AnswersHonest ==
    ASSUME WireShape, NEW call \in Calls, NEW answer \in Answers(call)
    PROVE  HonestAnswer(call, answer)
  <1> SUFFICES ASSUME call.op = "read", answer.what = "good"
               PROVE  HonestAnswer(call, answer)
    BY DEF HonestAnswer
  <1>1. CASE export.by = "iscsi"
    <2>1. PICK lba \in Lbas, n \in 0 .. 2 : call = [op |-> "read", lba |-> lba, blocks |-> n]
      BY <1>1 DEF Calls, Pings, Commands, SectorReads
    <2>2. answer \in ReadBlocks(lba, n)
      BY <1>1, <2>1 DEF Answers, ScsiAnswers
    <2>3. /\ lba \in Nat /\ n \in Nat /\ n * Sector \in Nat /\ export.size \in Nat
          /\ export.size < AddressSpace /\ AddressSpace \in Nat \ {0}
      BY WireConstants, WireAssumption DEF WireShape
    <2>4. CASE n = 0 /\ answer = Good(<<>>)
      BY <1>1, <2>1, <2>4, WireConstants DEF HonestAnswer, Good, BytesAt
    <2>5. CASE answer = Good(DiskRange((lba * Sector) % AddressSpace, n * Sector))
      <3> DEFINE at == (lba * Sector) % AddressSpace
      <3> HIDE DEF at
      <3>1. Len(DiskRange(at, n * Sector)) = n * Sector /\ BytesAt(DiskRange(at, n * Sector), at)
        BY <2>3, RangeIsHonest
      <3>2. lba < NumBlocks => at = lba * Sector
        BY <2>3, BlockWithin DEF NumBlocks, at
      <3>3. answer.data = DiskRange(at, n * Sector)
        BY <2>5 DEF Good, at
      <3> QED
        BY <1>1, <2>1, <3>1, <3>2, <3>3 DEF HonestAnswer
    <2> QED
      BY <2>2, <2>4, <2>5 DEF ReadBlocks, Check
  <1>2. CASE export.by # "iscsi"
    <2>1. PICK offset \in 0 .. 2, count \in {0, 1, MaxRead + 1} :
              call = [op |-> "read", offset |-> offset, count |-> count]
      <3>1. call \notin NfsCalls
        BY DEF NfsCalls
      <3>2. call \in FileReads
        BY <1>2, <3>1 DEF Calls
      <3> QED
        BY <3>2 DEF FileReads
    <2>2. answer \in {Good(DiskRange(offset, Smaller(count, MaxRead))), Good(<<>>)}
      BY <1>2, <2>1 DEF Answers, NfsAnswers, NfsRead
    <2>3. Smaller(count, MaxRead) \in Nat
      BY WireConstants DEF Smaller
    <2>4. CASE answer = Good(<<>>)
      BY <1>2, <2>1, <2>4 DEF HonestAnswer, Good, BytesAt
    <2>5. CASE answer = Good(DiskRange(offset, Smaller(count, MaxRead)))
      BY <1>2, <2>1, <2>3, <2>5, RangeIsHonest DEF HonestAnswer, Good
    <2> QED
      BY <2>2, <2>4, <2>5
  <1> QED
    BY <1>1, <1>2

\* The initial state satisfies the invariant.
LEMMA WireInvInit == WireInit => WireInv
  <1> SUFFICES ASSUME WireInit PROVE WireInv
    OBVIOUS
  <1> USE DEF NewConn, Stray
  <1>1. WireShape
    <2>1. conn = [c \in WireConn |-> conn[c]] /\ callsOf \in [WireConn -> Seq(Calls)]
      BY DEF WireInit
    <2>2. ASSUME NEW c \in WireConn
          PROVE  /\ WireShaped(conn[c]) /\ conn[c].at \in {"new", "open", "astray", "closed"}
                 /\ conn[c].answered \in Nat /\ conn[c].stream \in Seq(Calls \cup {Padding})
      BY EmptySeq DEF WireInit, WireShaped
    <2> QED
      BY <2>1, <2>2 DEF WireShape, WireInit
  <1>2. ASSUME NEW c \in WireConn PROVE AnswersPlaced(c)
    BY WireConstants DEF WireInit, AnswersPlaced
  <1>3. ReadsHonest
    BY DEF WireInit, ReadsHonest
  <1>4. Served = {}
    BY DEF WireInit, Served
  <1>5. SocketsKept
    BY <1>4, FS_EmptySet, WireConstants DEF SocketsKept
  <1> QED
    BY <1>1, <1>2, <1>3, <1>5 DEF WireInv

\* A step of one connection leaves the others alone.
Elsewhere(c) ==
    /\ UNCHANGED export
    /\ conn' = [conn EXCEPT ![c] = conn'[c]] /\ callsOf' = [callsOf EXCEPT ![c] = callsOf'[c]]

\* What it makes of the connection.
TurnsInto(c) ==
    /\ WireShaped(conn'[c]) /\ conn'[c].at \in {"new", "open", "astray", "closed"}
    /\ conn'[c].answered \in Nat /\ conn'[c].stream \in Seq(Calls \cup {Padding})
    /\ callsOf'[c] \in Seq(Calls)
    /\ conn'[c].last \in {conn[c].last, Stray} \/ HonestAnswer(conn'[c].last.to, conn'[c].last.answer)
    /\ conn'[c].at \in {"open", "astray"} => c \in Served \/ Cardinality(Served) < Sockets

LEMMA WireStep ==
    ASSUME WireInv, NEW c \in WireConn, Elsewhere(c), TurnsInto(c), AnswersPlaced(c)'
    PROVE  WireInv'
  <1> USE DEF Elsewhere, TurnsInto
  <1>1. ASSUME NEW d \in WireConn, d # c PROVE conn'[d] = conn[d] /\ callsOf'[d] = callsOf[d]
    BY <1>1 DEF WireInv, WireShape
  <1>2. Calls' = Calls
    BY DEF Calls
  <1>3. WireShape'
    <2>1. conn' = [d \in WireConn |-> conn'[d]] /\ callsOf' \in [WireConn -> Seq(Calls)]
      BY DEF WireInv, WireShape
    <2>2. ASSUME NEW d \in WireConn
          PROVE  /\ WireShaped(conn'[d]) /\ conn'[d].at \in {"new", "open", "astray", "closed"}
                 /\ conn'[d].answered \in Nat /\ conn'[d].stream \in Seq(Calls \cup {Padding})
      BY <1>1 DEF WireInv, WireShape
    <2>3. export' \in [by : {"iscsi", "nfs"}, size : DiskSizes]
      BY DEF WireInv, WireShape
    <2> QED
      BY <1>2, <2>1, <2>2, <2>3 DEF WireShape, WireShaped
  <1>4. ASSUME NEW d \in WireConn PROVE AnswersPlaced(d)'
    <2>1. CASE d = c
      BY <2>1
    <2>2. CASE d # c
      <3>1. AnswersPlaced(d)
        BY DEF WireInv
      <3> QED
        BY <1>1, <2>2, <3>1 DEF AnswersPlaced
    <2> QED
      BY <2>1, <2>2
  <1>5. ReadsHonest'
    <2>1. ASSUME NEW d \in WireConn PROVE HonestAnswer(conn'[d].last.to, conn'[d].last.answer)
      <3>1. HonestAnswer(conn[d].last.to, conn[d].last.answer)
        BY DEF WireInv, ReadsHonest, HonestAnswer
      <3>2. HonestAnswer(Stray.to, Stray.answer)
        BY DEF HonestAnswer, Stray
      <3> QED
        BY <1>1, <3>1, <3>2
    <2> QED
      BY <2>1 DEF ReadsHonest, HonestAnswer, BytesAt, NumBlocks, Disk
  <1>6. SocketsKept'
    <2>1. IsFiniteSet(Served) /\ Cardinality(Served) <= Sockets
      BY DEF WireInv, SocketsKept
    <2>2. Served' \subseteq Served \cup {c}
      BY <1>1 DEF Served
    <2>3. Cardinality(Served) \in Nat /\ Sockets \in Nat
      BY <2>1, FS_CardinalityType, WireConstants
    <2>4. CASE Served' \subseteq Served
      <3>1. IsFiniteSet(Served') /\ Cardinality(Served') <= Cardinality(Served)
        BY <2>1, <2>4, FS_Subset
      <3>2. Cardinality(Served') \in Nat
        BY <3>1, FS_CardinalityType
      <3> QED
        BY <2>1, <2>3, <3>1, <3>2 DEF SocketsKept
    <2>5. CASE ~(Served' \subseteq Served)
      <3>1. c \in Served' /\ c \notin Served /\ Cardinality(Served) < Sockets
        BY <2>2, <2>5 DEF Served
      <3>2. IsFiniteSet(Served \cup {c}) /\ Cardinality(Served \cup {c}) = Cardinality(Served) + 1
        BY <2>1, <3>1, FS_AddElement
      <3>3. IsFiniteSet(Served') /\ Cardinality(Served') <= Cardinality(Served) + 1
        BY <2>2, <3>2, FS_Subset
      <3>4. Cardinality(Served') \in Nat
        BY <3>3, FS_CardinalityType
      <3> QED
        BY <2>3, <3>1, <3>3, <3>4 DEF SocketsKept
    <2> QED
      BY <2>4, <2>5
  <1> QED
    BY <1>3, <1>4, <1>5, <1>6 DEF WireInv

\* Of a closed connection nothing is kept.
LEMMA CloseStep ==
    ASSUME WireInv, NEW c \in WireConn, Close(c), UNCHANGED export
    PROVE  WireInv'
  <1>1. conn'[c] = [NewConn EXCEPT !.at = "closed"] /\ callsOf'[c] = <<>> /\ Elsewhere(c)
    BY DEF Close, Elsewhere, WireInv, WireShape
  <1>2. /\ conn'[c].at = "closed" /\ conn'[c].stream = <<>> /\ conn'[c].answered = 0
        /\ conn'[c].last = Stray /\ WireShaped(conn'[c])
    BY <1>1 DEF NewConn, WireShaped
  <1>3. AnswersPlaced(c)'
    BY <1>1, <1>2, WireConstants DEF AnswersPlaced
  <1>4. TurnsInto(c)
    <2>1. <<>> \in Seq(Calls) /\ <<>> \in Seq(Calls \cup {Padding})
      BY EmptySeq
    <2>2. conn'[c].stream \in Seq(Calls \cup {Padding}) /\ callsOf'[c] \in Seq(Calls)
      BY <1>1, <1>2, <2>1
    <2> QED
      BY <1>2, <2>2 DEF TurnsInto
  <1> QED
    BY <1>1, <1>3, <1>4, WireStep

LEMMA AcceptStep ==
    ASSUME WireInv, NEW c \in WireConn, Accept(c)
    PROVE  WireInv'
  <1>1. CASE Close(c)
    BY <1>1, CloseStep DEF Accept
  <1>2. CASE ~Close(c)
    <2>1. /\ Cardinality(Served) < Sockets /\ conn[c] = NewConn
          /\ conn'[c] = [NewConn EXCEPT !.at = "open"] /\ callsOf'[c] = callsOf[c] /\ Elsewhere(c)
      BY <1>2 DEF Accept, Elsewhere, WireInv, WireShape
    <2>2. /\ conn'[c].at = "open" /\ conn'[c].stream = <<>> /\ conn'[c].answered = 0
          /\ conn'[c].last = Stray /\ WireShaped(conn'[c])
      BY <2>1 DEF NewConn, WireShaped
    <2>3. callsOf[c] = <<>>
      BY <2>1 DEF WireInv, AnswersPlaced, NewConn
    <2>4. StreamPlaced(<<>>, <<>>, 0, <<>>)
      BY EmptySeq DEF StreamPlaced
    <2>5. AnswersPlaced(c)'
      <3>1. \E place \in Seq(Nat) : StreamPlaced(<<>>, <<>>, 0, place)
        BY <2>4, EmptySeq
      <3> QED
        BY <2>1, <2>2, <2>3, <3>1, WireConstants DEF AnswersPlaced
    <2>6. TurnsInto(c)
      <3>1. <<>> \in Seq(Calls) /\ <<>> \in Seq(Calls \cup {Padding})
        BY EmptySeq
      <3>2. conn'[c].stream \in Seq(Calls \cup {Padding}) /\ callsOf'[c] \in Seq(Calls)
        BY <2>1, <2>2, <2>3, <3>1
      <3> QED
        BY <2>1, <2>2, <3>2 DEF TurnsInto
    <2> QED
      BY <2>1, <2>5, <2>6, WireStep
  <1> QED
    BY <1>1, <1>2

\* A call that is sent is at the end of the stream, before its padding.
LEMMA SendPlaced ==
    ASSUME NEW s \in Seq(Calls \cup {Padding}), NEW calls \in Seq(Calls), NEW answered \in Nat,
           NEW place \in Seq(Nat), StreamPlaced(s, calls, answered, place), NEW call \in Calls
    PROVE  \E after \in Seq(Nat) :
              StreamPlaced(s \o (IF Unaligned(call) THEN <<call, Padding>> ELSE <<call>>), Append(calls, call),
                     answered, after)
  <1> DEFINE next == Len(calls) + 1
             ends == IF Unaligned(call) THEN <<call, Padding>> ELSE <<call>>
             places == IF Unaligned(call) THEN <<next, next>> ELSE <<next>>
             t == s \o ends
             after == place \o places
             longer == Append(calls, call)
  <1>1. call # Padding
    BY PaddingIsNoCall
  <1>2. /\ next \in Nat /\ ends \in Seq(Calls \cup {Padding}) /\ places \in Seq(Nat)
        /\ Len(ends) \in {1, 2} /\ Len(places) = Len(ends) /\ ends[1] = call
        /\ \A i \in 1 .. Len(ends) : places[i] = next
        /\ Len(ends) = 2 => Unaligned(call) /\ ends[2] = Padding
    <2>1. CASE Unaligned(call)
      BY <2>1
    <2>2. CASE ~Unaligned(call)
      BY <2>2
    <2> QED
      BY <2>1, <2>2
  <1>3. Len(s) \in Nat /\ Len(place) = Len(s) /\ Len(calls) \in Nat
    BY DEF StreamPlaced
  <1>4. after \in Seq(Nat)
    BY <1>2
  <1> HIDE DEF ends, places
  <1>5. Len(t) = Len(s) + Len(ends) /\ Len(after) = Len(t)
    <2>1. Len(t) = Len(s) + Len(ends)
      BY <1>2, ConcatProperties
    <2>2. Len(after) = Len(place) + Len(places)
      BY <1>2, ConcatProperties
    <2> QED
      BY <1>2, <1>3, <2>1, <2>2
  <1>6. /\ \A i \in 1 .. Len(s) : t[i] = s[i] /\ after[i] = place[i]
        /\ \A i \in 1 .. Len(ends) : t[Len(s) + i] = ends[i] /\ after[Len(s) + i] = next
    BY <1>2, <1>3
  <1>7. /\ longer \in Seq(Calls) /\ Len(longer) = next /\ longer[next] = call
        /\ \A i \in 1 .. Len(calls) : longer[i] = calls[i]
    OBVIOUS
  <1> HIDE DEF t, after, longer
  <1>8. ASSUME NEW i \in 1 .. Len(s)
        PROVE  /\ after[i] \in 1 .. Len(longer)
               /\ IF t[i] = Padding THEN Unaligned(longer[after[i]]) ELSE t[i] = longer[after[i]]
               /\ i > 1 => after[i] = IF t[i] = Padding THEN after[i - 1] ELSE after[i - 1] + 1
    <2>1. /\ place[i] \in 1 .. Len(calls)
          /\ IF s[i] = Padding THEN Unaligned(calls[place[i]]) ELSE s[i] = calls[place[i]]
          /\ i > 1 => place[i] = IF s[i] = Padding THEN place[i - 1] ELSE place[i - 1] + 1
      BY DEF StreamPlaced
    <2>2. t[i] = s[i] /\ after[i] = place[i] /\ (i > 1 => after[i - 1] = place[i - 1])
      BY <1>3, <1>6
    <2>3. longer[place[i]] = calls[place[i]] /\ place[i] \in 1 .. Len(longer)
      BY <1>3, <1>7, <2>1
    <2> QED
      BY <2>1, <2>2, <2>3
  <1>9. t[Len(s) + 1] = call /\ after[Len(s) + 1] = next
    BY <1>2, <1>6
  <1>10. Len(ends) = 2 => t[Len(s) + 2] = Padding /\ after[Len(s) + 2] = next /\ Unaligned(call)
    BY <1>2, <1>6
  <1>11. s # <<>> => Len(s) \in 1 .. Len(s) /\ after[Len(s)] = Len(calls)
    <2> SUFFICES ASSUME s # <<>> PROVE Len(s) \in 1 .. Len(s) /\ after[Len(s)] = Len(calls)
      OBVIOUS
    <2>1. Len(s) \in 1 .. Len(s)
      BY <1>3, EmptySeq
    <2>2. place[Len(s)] = Len(calls)
      BY DEF StreamPlaced
    <2> QED
      BY <1>6, <2>1, <2>2
  <1>12. after[1] = (IF t[1] = Padding THEN answered ELSE answered + 1) /\ after[Len(t)] = Len(longer)
    <2>1. after[Len(t)] = next
      BY <1>2, <1>3, <1>5, <1>9, <1>10
    <2>2. CASE s = <<>>
      <3>1. answered = Len(calls) /\ Len(s) = 0
        BY <2>2 DEF StreamPlaced
      <3> QED
        BY <1>1, <1>7, <1>9, <2>1, <3>1
    <2>3. CASE s # <<>>
      <3>1. place[1] = IF s[1] = Padding THEN answered ELSE answered + 1
        BY <2>3 DEF StreamPlaced
      <3>2. 1 \in 1 .. Len(s)
        BY <1>3, <1>11, <2>3
      <3> QED
        BY <1>6, <1>7, <2>1, <3>1, <3>2
    <2> QED
      BY <2>2, <2>3
  <1>13. \A i \in 1 .. Len(t) : i \in 1 .. Len(s) \/ i = Len(s) + 1 \/ (Len(ends) = 2 /\ i = Len(s) + 2)
    <2>1. \A n \in Nat, m \in {1, 2} : \A i \in 1 .. n + m : i \in 1 .. n \/ i = n + 1 \/ (m = 2 /\ i = n + 2)
      OBVIOUS
    <2> QED
      BY <1>2, <1>3, <1>5, <2>1
  <1>14. ASSUME NEW i \in 1 .. Len(t)
         PROVE  /\ after[i] \in 1 .. Len(longer)
                /\ IF t[i] = Padding THEN Unaligned(longer[after[i]]) ELSE t[i] = longer[after[i]]
                /\ i > 1 => after[i] = IF t[i] = Padding THEN after[i - 1] ELSE after[i - 1] + 1
    <2>1. CASE i \in 1 .. Len(s)
      BY <1>8, <2>1
    <2>2. CASE i = Len(s) + 1
      <3>1. i > 1 => after[i - 1] = Len(calls)
        BY <1>3, <1>11, <2>2
      <3> QED
        BY <1>1, <1>3, <1>7, <1>9, <2>2, <3>1
    <2>3. CASE Len(ends) = 2 /\ i = Len(s) + 2
      BY <1>3, <1>7, <1>9, <1>10, <2>3
    <2> QED
      BY <1>13, <2>1, <2>2, <2>3
  <1>15. t # <<>>
    BY <1>2, <1>3, <1>5, EmptySeq
  <1>16. StreamPlaced(t, longer, answered, after)
    BY <1>4, <1>5, <1>12, <1>14, <1>15 DEF StreamPlaced
  <1> QED
    BY <1>4, <1>16 DEF t, ends, longer

\* What is left of the stream after the call at its front.
LEMMA TailPlaced ==
    ASSUME NEW s \in Seq(Calls \cup {Padding}), NEW calls \in Seq(Calls), NEW answered \in Nat,
           NEW place \in Seq(Nat), StreamPlaced(s, calls, answered, place), s # <<>>, Head(s) # Padding
    PROVE  /\ answered + 1 \in 1 .. Len(calls) /\ Head(s) = calls[answered + 1]
           /\ \E after \in Seq(Nat) : StreamPlaced(Tail(s), calls, answered + 1, after)
  <1> DEFINE t == Tail(s)
             after == Tail(place)
  <1>1. /\ Len(s) \in Nat \ {0} /\ Len(place) = Len(s) /\ Len(calls) \in Nat /\ place # <<>>
        /\ Head(s) = s[1] /\ 1 \in 1 .. Len(s) /\ Len(s) \in 1 .. Len(s)
    BY EmptySeq DEF StreamPlaced
  <1>2. place[1] = answered + 1 /\ place[1] \in 1 .. Len(calls) /\ s[1] = calls[place[1]]
    BY <1>1 DEF StreamPlaced
  <1>3. /\ t \in Seq(Calls \cup {Padding}) /\ after \in Seq(Nat)
        /\ Len(t) = Len(s) - 1 /\ Len(after) = Len(s) - 1
        /\ \A i \in 1 .. Len(t) : t[i] = s[i + 1] /\ after[i] = place[i + 1]
    BY <1>1, HeadTailProperties
  <1> HIDE DEF t, after
  <1>4. ASSUME NEW i \in 1 .. Len(t)
        PROVE  /\ after[i] \in 1 .. Len(calls)
               /\ IF t[i] = Padding THEN Unaligned(calls[after[i]]) ELSE t[i] = calls[after[i]]
               /\ i > 1 => after[i] = IF t[i] = Padding THEN after[i - 1] ELSE after[i - 1] + 1
    <2>1. i + 1 \in 1 .. Len(s) /\ i + 1 > 1 /\ (i + 1) - 1 = i
      BY <1>1, <1>3
    <2>2. /\ place[i + 1] \in 1 .. Len(calls)
          /\ IF s[i + 1] = Padding THEN Unaligned(calls[place[i + 1]]) ELSE s[i + 1] = calls[place[i + 1]]
          /\ place[i + 1] = IF s[i + 1] = Padding THEN place[i] ELSE place[i] + 1
      BY <2>1 DEF StreamPlaced
    <2>3. i > 1 => after[i - 1] = place[i]
      BY <1>1, <1>3
    <2> QED
      BY <1>3, <2>2, <2>3
  <1>5. place[Len(s)] = Len(calls)
    BY <1>1 DEF StreamPlaced
  <1>6. CASE t = <<>>
    <2>1. Len(s) = 1
      BY <1>1, <1>3, <1>6
    <2>2. answered + 1 = Len(calls) /\ Len(t) = 0
      BY <1>2, <1>3, <1>5, <2>1
    <2>3. StreamPlaced(t, calls, answered + 1, after)
      BY <1>3, <1>4, <1>6, <2>2 DEF StreamPlaced
    <2> QED
      BY <1>1, <1>2, <1>3, <2>3 DEF t
  <1>7. CASE t # <<>>
    <2>1. Len(t) \in 1 .. Len(t) /\ 1 \in 1 .. Len(t) /\ 2 \in 1 .. Len(s)
      <3>1. Len(t) \in Nat \ {0}
        BY <1>3, <1>7, EmptySeq
      <3>2. \A n, m \in Nat \ {0} : m = n - 1 => m \in 1 .. m /\ 1 \in 1 .. m /\ 2 \in 1 .. n
        OBVIOUS
      <3> QED
        BY <1>1, <1>3, <3>1, <3>2
    <2>2. after[Len(t)] = Len(calls)
      <3>1. after[Len(t)] = place[Len(t) + 1] /\ Len(t) + 1 = Len(s)
        BY <1>1, <1>3, <2>1
      <3> QED
        BY <1>5, <3>1
    <2>3. place[2] = IF s[2] = Padding THEN place[1] ELSE place[1] + 1
      <3>1. 2 > 1 /\ 2 - 1 = 1
        OBVIOUS
      <3> QED
        BY <2>1, <3>1 DEF StreamPlaced
    <2>4. after[1] = IF t[1] = Padding THEN answered + 1 ELSE (answered + 1) + 1
      BY <1>2, <1>3, <2>1, <2>3
    <2>5. StreamPlaced(t, calls, answered + 1, after)
      BY <1>3, <1>4, <1>7, <2>2, <2>4 DEF StreamPlaced
    <2> QED
      BY <1>1, <1>2, <1>3, <2>5 DEF t
  <1> QED
    BY <1>6, <1>7

\* A call is sent.
LEMMA SendStep ==
    ASSUME WireInv, NEW c \in WireConn, NEW call \in Calls, Send(c, call)
    PROVE  WireInv'
  <1> DEFINE sent == IF Unaligned(call) THEN <<call, Padding>> ELSE <<call>>
  <1>1. /\ conn[c].stream \in Seq(Calls \cup {Padding}) /\ conn[c].answered \in Nat
        /\ callsOf[c] \in Seq(Calls) /\ WireShaped(conn[c]) /\ AnswersPlaced(c)
    BY DEF WireInv, WireShape
  <1>2. /\ conn'[c] = [conn[c] EXCEPT !.stream = conn[c].stream \o sent]
        /\ callsOf'[c] = Append(callsOf[c], call) /\ Elsewhere(c)
        /\ conn[c].at \in {"open", "astray"} /\ Len(callsOf[c]) < WireCalls
    BY DEF Send, Elsewhere, WireInv, WireShape, Served
  <1>3. sent \in Seq(Calls \cup {Padding})
    <2>1. CASE Unaligned(call)
      BY <2>1
    <2>2. CASE ~Unaligned(call)
      BY <2>2
    <2> QED
      BY <2>1, <2>2
  <1> HIDE DEF sent
  <1>4. /\ conn'[c].at = conn[c].at /\ conn'[c].stream = conn[c].stream \o sent
        /\ conn'[c].answered = conn[c].answered /\ conn'[c].last = conn[c].last /\ WireShaped(conn'[c])
    BY <1>1, <1>2 DEF WireShaped
  <1>5. /\ callsOf'[c] \in Seq(Calls) /\ conn'[c].stream \in Seq(Calls \cup {Padding})
        /\ Len(callsOf[c]) \in Nat /\ Len(callsOf'[c]) = Len(callsOf[c]) + 1
        /\ \A i \in 1 .. Len(callsOf[c]) : callsOf'[c][i] = callsOf[c][i]
    <2>1. conn'[c].stream \in Seq(Calls \cup {Padding})
      BY <1>1, <1>3, <1>4, ConcatProperties
    <2> QED
      BY <1>1, <1>2, <2>1, AppendProperties
  <1>6. conn[c].at = "open" =>
            \E place \in Seq(Nat) : StreamPlaced(conn'[c].stream, callsOf'[c], conn'[c].answered, place)
    <2> SUFFICES ASSUME conn[c].at = "open"
                 PROVE  \E place \in Seq(Nat) :
                           StreamPlaced(conn'[c].stream, callsOf'[c], conn'[c].answered, place)
      OBVIOUS
    <2>1. PICK place \in Seq(Nat) : StreamPlaced(conn[c].stream, callsOf[c], conn[c].answered, place)
      BY <1>1 DEF AnswersPlaced
    <2>2. \E after \in Seq(Nat) :
              StreamPlaced(conn[c].stream \o sent, Append(callsOf[c], call), conn[c].answered, after)
      BY <1>1, <2>1, SendPlaced DEF sent
    <2> QED
      BY <1>2, <1>4, <2>2
  <1>7. AnswersPlaced(c)'
    <2>1. Len(callsOf'[c]) <= WireCalls /\ conn'[c].answered <= Len(callsOf'[c])
      BY <1>1, <1>2, <1>4, <1>5, WireConstants DEF AnswersPlaced
    <2>2. CASE conn[c].at = "open"
      <3>1. conn[c].answered > 0 => conn[c].answered \in 1 .. Len(callsOf[c])
                                      /\ conn[c].last.to = callsOf[c][conn[c].answered]
        BY <1>1, <1>5, <2>2 DEF AnswersPlaced
      <3>2. conn'[c].answered > 0 => conn'[c].last.to = callsOf'[c][conn'[c].answered]
        BY <1>4, <1>5, <3>1
      <3> QED
        BY <1>4, <1>6, <2>1, <2>2, <3>2 DEF AnswersPlaced
    <2>3. CASE conn[c].at = "astray"
      <3>1. PICK i \in 1 .. conn[c].answered : i <= Len(callsOf[c]) /\ Unaligned(callsOf[c][i])
        BY <1>1, <2>3 DEF AnswersPlaced
      <3>2. i <= Len(callsOf'[c]) /\ Unaligned(callsOf'[c][i])
        BY <1>1, <1>5, <3>1
      <3> QED
        BY <1>4, <2>1, <2>3, <3>2 DEF AnswersPlaced
    <2> QED
      BY <1>2, <2>2, <2>3
  <1>8. TurnsInto(c)
    <2>1. c \in Served
      BY <1>2 DEF Served
    <2> QED
      BY <1>1, <1>2, <1>4, <1>5, <2>1 DEF TurnsInto
  <1> QED
    BY <1>2, <1>7, <1>8, WireStep

\* A call is answered.
LEMMA ServeStep ==
    ASSUME WireInv, NEW c \in WireConn, Serve(c)
    PROVE  WireInv'
  <1>1. PICK answer \in Answers(Head(conn[c].stream)) :
            IF answer.what \in {"panic", "end"} THEN Close(c)
            ELSE /\ conn' = [conn EXCEPT ![c].stream = Tail(@), ![c].answered = @ + 1,
                                         ![c].last = [to |-> Head(conn[c].stream), answer |-> answer]]
                 /\ UNCHANGED callsOf
    BY DEF Serve
  <1>2. CASE Close(c)
    BY <1>2, CloseStep DEF Serve
  <1>3. CASE ~Close(c)
    <2> DEFINE call == Head(conn[c].stream)
    <2>1. /\ conn[c].stream \in Seq(Calls \cup {Padding}) /\ conn[c].answered \in Nat
          /\ callsOf[c] \in Seq(Calls) /\ WireShaped(conn[c]) /\ AnswersPlaced(c) /\ WireShape
      BY DEF WireInv, WireShape
    <2>2. conn[c].at = "open" /\ conn[c].stream # <<>> /\ call # Padding
      BY DEF Serve
    <2>3. /\ conn'[c] = [conn[c] EXCEPT !.stream = Tail(conn[c].stream), !.answered = conn[c].answered + 1,
                                         !.last = [to |-> call, answer |-> answer]]
          /\ callsOf'[c] = callsOf[c] /\ Elsewhere(c)
      BY <1>1, <1>3, <2>1 DEF Serve, Elsewhere, WireShape
    <2>4. call \in Calls /\ Tail(conn[c].stream) \in Seq(Calls \cup {Padding})
      BY <2>1, <2>2, HeadTailProperties
    <2>5. HonestAnswer(call, answer)
      BY <2>1, <2>4, AnswersHonest
    <2> HIDE DEF call
    <2>6. /\ conn'[c].at = "open" /\ conn'[c].stream = Tail(conn[c].stream)
          /\ conn'[c].answered = conn[c].answered + 1
          /\ conn'[c].last = [to |-> call, answer |-> answer] /\ WireShaped(conn'[c])
      BY <2>1, <2>2, <2>3 DEF WireShaped
    <2>7. PICK place \in Seq(Nat) : StreamPlaced(conn[c].stream, callsOf[c], conn[c].answered, place)
      BY <2>1, <2>2 DEF AnswersPlaced
    <2>8. /\ conn[c].answered + 1 \in 1 .. Len(callsOf[c]) /\ call = callsOf[c][conn[c].answered + 1]
          /\ \E after \in Seq(Nat) : StreamPlaced(Tail(conn[c].stream), callsOf[c], conn[c].answered + 1, after)
      BY <2>1, <2>2, <2>7, TailPlaced DEF call
    <2>9. AnswersPlaced(c)'
      <3>1. /\ conn'[c].answered > 0 /\ conn'[c].last.to = callsOf'[c][conn'[c].answered]
            /\ conn'[c].answered <= Len(callsOf'[c])
        BY <2>1, <2>3, <2>6, <2>8
      <3>2. Len(callsOf'[c]) <= WireCalls
        BY <2>1, <2>3 DEF AnswersPlaced
      <3>3. \E after \in Seq(Nat) : StreamPlaced(conn'[c].stream, callsOf'[c], conn'[c].answered, after)
        BY <2>3, <2>6, <2>8
      <3> QED
        BY <2>6, <3>1, <3>2, <3>3 DEF AnswersPlaced
    <2>10. TurnsInto(c)
      <3>1. c \in Served
        BY <2>2 DEF Served
      <3>2. conn'[c].stream \in Seq(Calls \cup {Padding}) /\ conn'[c].answered \in Nat
        BY <2>1, <2>4, <2>6
      <3>3. HonestAnswer(conn'[c].last.to, conn'[c].last.answer)
        BY <2>5, <2>6
      <3> QED
        BY <2>1, <2>3, <2>6, <3>1, <3>2, <3>3 DEF TurnsInto
    <2> QED
      BY <2>3, <2>9, <2>10, WireStep
  <1> QED
    BY <1>2, <1>3

\* Padding is taken for a PDU, and what follows it for its data.
LEMMA GoAstrayStep ==
    ASSUME WireInv, NEW c \in WireConn, GoAstray(c)
    PROVE  WireInv'
  <1>1. PICK answers \in {0, 1} :
            /\ conn[c].answered + answers <= Len(callsOf[c])
            /\ conn' = [conn EXCEPT ![c].at = "astray", ![c].stream = <<>>, ![c].answered = @ + answers,
                                    ![c].last = IF answers = 0 THEN @ ELSE Stray]
    BY DEF GoAstray
  <1>2. /\ conn[c].stream \in Seq(Calls \cup {Padding}) /\ conn[c].answered \in Nat
        /\ callsOf[c] \in Seq(Calls) /\ WireShaped(conn[c]) /\ AnswersPlaced(c)
    BY DEF WireInv, WireShape
  <1>3. conn'[c] = [at |-> "astray", stream |-> <<>>, answered |-> conn[c].answered + answers,
                    last |-> IF answers = 0 THEN conn[c].last ELSE Stray]
    BY <1>1, <1>2 DEF WireInv, WireShape, WireShaped
  <1>4. Elsewhere(c) /\ callsOf'[c] = callsOf[c]
    BY <1>1, <1>2 DEF GoAstray, Elsewhere, WireInv, WireShape, WireShaped
  <1>5. /\ conn'[c].at = "astray" /\ conn'[c].stream = <<>> /\ WireShaped(conn'[c])
        /\ conn'[c].answered = conn[c].answered + answers /\ conn'[c].last \in {conn[c].last, Stray}
    BY <1>3 DEF WireShaped
  <1>6. \E i \in 1 .. conn[c].answered : i <= Len(callsOf[c]) /\ Unaligned(callsOf[c][i])
    <2>1. CASE conn[c].at = "astray"
      BY <1>2, <2>1 DEF AnswersPlaced
    <2>2. CASE conn[c].at = "open" /\ Len(conn[c].stream) > 1 /\ Head(conn[c].stream) = Padding
      <3>1. PICK place \in Seq(Nat) : StreamPlaced(conn[c].stream, callsOf[c], conn[c].answered, place)
        BY <1>2, <2>2 DEF AnswersPlaced
      <3>2. conn[c].stream # <<>> /\ conn[c].stream[1] = Padding /\ 1 \in 1 .. Len(conn[c].stream)
        BY <1>2, <2>2, EmptySeq
      <3>3. /\ place[1] = conn[c].answered /\ place[1] \in 1 .. Len(callsOf[c])
            /\ Unaligned(callsOf[c][place[1]])
        BY <3>1, <3>2 DEF StreamPlaced
      <3> QED
        BY <1>2, <3>3
    <2> QED
      BY <2>1, <2>2 DEF GoAstray
  <1>7. conn'[c].answered \in Nat /\ conn[c].answered <= conn'[c].answered
    BY <1>2, <1>5
  <1>8. AnswersPlaced(c)'
    <2>1. \E i \in 1 .. conn'[c].answered : i <= Len(callsOf[c]) /\ Unaligned(callsOf[c][i])
      BY <1>2, <1>6, <1>7
    <2>2. conn'[c].answered <= Len(callsOf[c]) /\ Len(callsOf[c]) <= WireCalls
      BY <1>1, <1>2, <1>5 DEF AnswersPlaced
    <2> QED
      BY <1>4, <1>5, <2>1, <2>2 DEF AnswersPlaced
  <1>9. TurnsInto(c)
    <2>1. <<>> \in Seq(Calls \cup {Padding})
      BY EmptySeq
    <2>2. c \in Served
      BY DEF GoAstray, Served
    <2> QED
      BY <1>2, <1>4, <1>5, <1>7, <2>1, <2>2 DEF TurnsInto
  <1> QED
    BY <1>4, <1>8, <1>9, WireStep

\* The invariant of the connections holds in every reachable state.
THEOREM WireInvariant == WireSpec => []WireInv
  <1>1. WireInv /\ [WireNext]_wireVars => WireInv'
    <2> SUFFICES ASSUME WireInv, [WireNext]_wireVars PROVE WireInv'
      OBVIOUS
    <2>1. ASSUME NEW c \in WireConn, Disconnect(c) PROVE WireInv'
      BY <2>1, CloseStep DEF Disconnect
    <2>2. CASE UNCHANGED wireVars
      BY <2>2 DEF wireVars, WireInv, WireShape, WireShaped, Calls, AnswersPlaced, ReadsHonest, BytesAt,
         NumBlocks, Disk, SocketsKept, Served
    <2> QED
      BY <2>1, <2>2, AcceptStep, SendStep, ServeStep, GoAstrayStep DEF WireNext
  <1> QED
    BY <1>1, WireInvInit, PTL DEF WireSpec

\* A connection is told what it asked for, and there are not too many of them.
THEOREM AnswersStaySound == WireSpec => [](WireTypeOK /\ WireSound)
  <1>1. WireInv => WireTypeOK
    <2> SUFFICES ASSUME WireInv PROVE WireTypeOK
      OBVIOUS
    <2>1. ASSUME NEW c \in WireConn PROVE conn[c].answered <= WireCalls
      <3>1. AnswersPlaced(c) /\ conn[c].answered \in Nat /\ Len(callsOf[c]) \in Nat
        BY DEF WireInv, WireShape
      <3>2. conn[c].answered <= Len(callsOf[c]) /\ Len(callsOf[c]) <= WireCalls
        BY <3>1 DEF AnswersPlaced
      <3> QED
        BY <3>1, <3>2, WireConstants
    <2> QED
      BY <2>1 DEF WireInv, WireShape, WireTypeOK
  <1>2. WireInv => InStep
    <2> SUFFICES ASSUME WireInv, NEW c \in WireConn, conn[c].answered > 0
                 PROVE  \/ conn[c].last.to = callsOf[c][conn[c].answered]
                        \/ \E i \in 1 .. Smaller(conn[c].answered, Len(callsOf[c])) : Unaligned(callsOf[c][i])
      BY DEF InStep
    <2>1. AnswersPlaced(c) /\ conn[c].answered \in Nat /\ Len(callsOf[c]) \in Nat
      BY DEF WireInv, WireShape
    <2>2. conn[c].at \in {"open", "astray"}
      BY <2>1 DEF WireInv, WireShape, AnswersPlaced
    <2> QED
      BY <2>1, <2>2 DEF AnswersPlaced, Smaller
  <1>3. WireInv => ReadsHonest /\ Cardinality(Served) <= Sockets
    BY DEF WireInv, SocketsKept
  <1> QED
    BY <1>1, <1>2, <1>3, WireInvariant, PTL DEF WireSound
-----------------------------------------------------------------------------
(***************************************************************************)
(* Induction over numbers, by sets of them: the numbers something is true  *)
(* of are a set, and a set that is not all of 0 .. N leaves a least number *)
(* out.  The same shows that there is a function whose values are each made *)
(* of another one, without which a recursive function says nothing.        *)
(***************************************************************************)
\* A set of natural numbers has a least one.
LEMMA LeastNumber ==
    ASSUME NEW S \in SUBSET Nat, S # {}
    PROVE  \E m \in S : \A n \in S : m <= n
  <1> DEFINE less == {pair \in Nat \X Nat : pair[1] < pair[2]}
  <1>1. IsWellFoundedOn(less, Nat)
    BY NatLessThanWellFounded, Zenon DEF OpToRel
  <1>2. PICK m \in S : \A n \in S : <<n, m>> \notin less
    <2> HIDE DEF less
    <2> QED
      BY <1>1, WFMin
  <1>3. ASSUME NEW n \in S PROVE m <= n
    <2>1. n \in Nat /\ m \in Nat /\ <<n, m>> \in Nat \X Nat
      OBVIOUS
    <2>2. ~(n < m)
      BY <1>2, <2>1
    <2> QED
      BY <2>1, <2>2
  <1> QED
    BY <1>3

\* A set with 0 and, with every number below N, the next one has all up to N.
LEMMA UpTo ==
    ASSUME NEW N \in Nat, NEW S, 0 \in S, \A n \in 0 .. N - 1 : n \in S => n + 1 \in S
    PROVE  0 .. N \subseteq S
  <1> SUFFICES ASSUME ~(0 .. N \subseteq S) PROVE FALSE
    OBVIOUS
  <1>1. PICK m \in (0 .. N) \ S : \A n \in (0 .. N) \ S : m <= n
    <2>1. (0 .. N) \ S \in SUBSET Nat /\ (0 .. N) \ S # {}
      OBVIOUS
    <2> QED
      BY <2>1, LeastNumber
  <1>2. m # 0 /\ m - 1 \in 0 .. N - 1
    BY <1>1
  <1>3. m - 1 \in S
    BY <1>1, <1>2
  <1> QED
    BY <1>1, <1>2, <1>3

\* A set with every number up to N all of whose successors up to N are in it has all of them.
LEMMA DownTo ==
    ASSUME NEW N \in Nat, NEW S, \A n \in 0 .. N : n + 1 .. N \subseteq S => n \in S
    PROVE  0 .. N \subseteq S
  <1> DEFINE T == {n \in 0 .. N : N - n .. N \subseteq S}
  <1>1. 0 \in T
    <2>1. N + 1 .. N \subseteq S /\ N - 0 .. N = {N}
      OBVIOUS
    <2> QED
      BY <2>1
  <1>2. ASSUME NEW n \in 0 .. N - 1, n \in T PROVE n + 1 \in T
    <2>1. N - (n + 1) \in 0 .. N /\ N - (n + 1) + 1 = N - n /\ n + 1 \in 0 .. N
      OBVIOUS
    <2>2. N - (n + 1) \in S
      BY <1>2, <2>1
    <2>3. N - (n + 1) .. N \subseteq S
      BY <1>2, <2>1, <2>2
    <2> QED
      BY <2>1, <2>3
  <1>3. 0 .. N \subseteq T
    <2> HIDE DEF T
    <2> QED
      BY <1>1, <1>2, UpTo
  <1>4. N \in T
    BY <1>3
  <1> QED
    BY <1>4

\* Each value of f, up to N, is made of the one before.
Ascends(f, N, V, base, step) ==
    f \in [0 .. N -> V] /\ f[0] = base /\ \A n \in 1 .. N : f[n] = step[n][f[n - 1]]

\* Each value of f, up to N, is made of a later one.
Descends(f, N, V, base, stop, next, step) ==
    /\ f \in [0 .. N -> V]
    /\ \A s \in 0 .. N : f[s] = IF s \in stop THEN base ELSE step[s][f[next[s]]]

\* There is such a function, which is what a recursive definition needs to mean anything.
LEMMA Ascent ==
    ASSUME NEW N, NEW V, NEW base, NEW step,
           N \in Nat, base \in V, step \in [1 .. N -> [V -> V]]
    PROVE  \E f : Ascends(f, N, V, base, step)
  <1> DEFINE Fits(f, n) == Ascends(f, n, V, base, step)
             S == {n \in 0 .. N : \E f : Fits(f, n)}
  <1>1. 0 \in S
    <2>1. Fits([k \in 0 .. 0 |-> base], 0)
      BY DEF Ascends
    <2> HIDE DEF Fits
    <2> QED
      BY <2>1
  <1>2. ASSUME NEW n \in 0 .. N - 1, n \in S PROVE n + 1 \in S
    <2>1. PICK f : Fits(f, n)
      BY <1>2
    <2> DEFINE g == [k \in 0 .. n + 1 |-> IF k = n + 1 THEN step[n + 1][f[n]] ELSE f[k]]
    <2>2. n + 1 \in 1 .. N /\ f[n] \in V
      BY <2>1 DEF Ascends
    <2>3. step[n + 1][f[n]] \in V
      BY <2>2
    <2>4. g \in [0 .. n + 1 -> V]
      BY <2>1, <2>3 DEF Ascends
    <2>5. ASSUME NEW k \in 1 .. n + 1 PROVE g[k] = step[k][g[k - 1]]
      BY <2>1, <2>5 DEF Ascends
    <2>6. g[0] = base
      BY <2>1 DEF Ascends
    <2>7. Fits(g, n + 1)
      BY <2>4, <2>5, <2>6 DEF Ascends
    <2> HIDE DEF Fits, g
    <2> QED
      BY <2>2, <2>7
  <1>3. 0 .. N \subseteq S
    <2> HIDE DEF S
    <2> QED
      BY <1>1, <1>2, UpTo
  <1>4. N \in S
    <2> HIDE DEF S
    <2> QED
      BY <1>3
  <1> QED
    BY <1>4

\* There is one too when each value is made of a later one, up to where it stops.
LEMMA Descent ==
    ASSUME NEW N, NEW V, NEW base, NEW stop, NEW next, NEW step,
           N \in Nat, base \in V, step \in [0 .. N -> [V -> V]],
           \A s \in (0 .. N) \ stop : next[s] \in s + 1 .. N
    PROVE  \E f : Descends(f, N, V, base, stop, next, step)
  <1> DEFINE Value(f, s) == IF s \in stop THEN base ELSE step[s][f[next[s]]]
             Fits(f, n) == f \in [N - n .. N -> V] /\ \A s \in N - n .. N : f[s] = Value(f, s)
             S == {n \in 0 .. N : \E f : Fits(f, n)}
  <1>1. 0 \in S
    <2>1. N \in stop /\ N - 0 .. N = {N}
      OBVIOUS
    <2>2. Fits([s \in N - 0 .. N |-> base], 0)
      BY <2>1
    <2> HIDE DEF Fits
    <2> QED
      BY <2>2
  <1>2. ASSUME NEW n \in 0 .. N - 1, n \in S PROVE n + 1 \in S
    <2>1. PICK f : Fits(f, n)
      BY <1>2
    <2> DEFINE t == N - (n + 1)
               g == [s \in t .. N |-> IF s = t THEN Value(f, t) ELSE f[s]]
    <2>2. t \in 0 .. N /\ t + 1 = N - n /\ n + 1 \in 0 .. N /\ N - (n + 1) .. N = t .. N
      OBVIOUS
    <2>3. Value(f, t) \in V
      <3>1. CASE t \notin stop
        <4>1. next[t] \in N - n .. N
          BY <2>2, <3>1
        <4>2. f[next[t]] \in V
          BY <2>1, <4>1
        <4> QED
          BY <2>2, <3>1, <4>2
      <3> QED
        BY <3>1
    <2>4. g \in [t .. N -> V]
      <3>1. ASSUME NEW s \in t .. N PROVE (IF s = t THEN Value(f, t) ELSE f[s]) \in V
        BY <2>1, <2>2, <2>3 DEF Fits
      <3> QED
        BY <3>1
    <2>5. ASSUME NEW s \in t .. N PROVE g[s] = Value(g, s)
      <3>1. s \in 0 .. N
        BY <2>2
      <3>2. s \notin stop => next[s] \in N - n .. N /\ g[next[s]] = f[next[s]]
        BY <2>2, <3>1
      <3>3. s # t => s \in N - n .. N /\ f[s] = Value(f, s)
        BY <2>1, <2>2
      <3> QED
        BY <3>2, <3>3
    <2>6. Fits(g, n + 1)
      BY <2>2, <2>4, <2>5
    <2> HIDE DEF Fits, g
    <2> QED
      BY <2>2, <2>6
  <1>3. 0 .. N \subseteq S
    <2> HIDE DEF S
    <2> QED
      BY <1>1, <1>2, UpTo
  <1>4. N \in S
    <2> HIDE DEF S
    <2> QED
      BY <1>3
  <1>5. PICK f : Fits(f, N)
    BY <1>4
  <1>6. N - N = 0
    OBVIOUS
  <1> QED
    BY <1>5, <1>6 DEF Descends
-----------------------------------------------------------------------------
(***************************************************************************)
(* The images of VMs: every block of a manifest has what the snapshot of   *)
(* the disk had at its place, so whichever an export takes a byte from, it *)
(* is the byte of that place.                                              *)
(***************************************************************************)
\* A block lies within its disk, and has what was frozen there.
FrozenBlock(b) ==
    /\ b.cells # <<>> /\ End(b) <= Capacity
    /\ \A i \in 1 .. Len(b.cells) : b.cells[i] = frozen[b.disk][b.offset + i - 1]

VmInv ==
    /\ VmTypeOK /\ \A b \in ToSet(manifest) : FrozenBlock(b)
    /\ job = -1 => manifest = <<>>

\* A function on the first n numbers is a sequence.
LEMMA FunctionIsSequence ==
    ASSUME NEW S, NEW n \in Nat, NEW f \in [1 .. n -> S]
    PROVE  f \in Seq(S) /\ Len(f) = n
  OBVIOUS

\* The smaller of two.
LEMMA MinOfTwo ==
    ASSUME NEW a \in Int, NEW b \in Int
    PROVE  Min({a, b}) \in {a, b} /\ Min({a, b}) <= a /\ Min({a, b}) <= b
  <1>1. \E m \in {a, b} : \A n \in {a, b} : m <= n
    <2>1. CASE a <= b
      BY <2>1
    <2>2. CASE ~(a <= b)
      BY <2>2
    <2> QED
      BY <2>1, <2>2
  <1> QED
    BY <1>1 DEF Min

\* What is read of a disk lies within the range, and is what was frozen there.
LEMMA BlockIsFrozen ==
    ASSUME VmTypeOK, NEW d \in DiskSet, NEW lo \in Cell, NEW hi \in Cell, NEW o \in Chunks(<<lo, hi>>)
    PROVE  BlockAt(d, <<lo, hi>>, o) \in VmBlock /\ FrozenBlock(BlockAt(d, <<lo, hi>>, o))
  <1> DEFINE end == Min({o + ReadChunk - 1, hi})
             cells == [i \in 1 .. end - o + 1 |-> frozen[d][o + i - 1]]
  <1>1. o \in lo .. hi /\ lo \in 0 .. Capacity - 1 /\ hi \in 0 .. Capacity - 1
    BY DEF Chunks, Cell
  <1>2. o \in Int /\ hi \in Int /\ ReadChunk \in Nat \ {0} /\ Capacity \in Nat \ {0}
    BY <1>1, VmImageAssumption
  <1>3. end \in o .. hi
    <2>1. end \in {o + ReadChunk - 1, hi} /\ end <= hi
      BY <1>2, MinOfTwo
    <2> QED
      BY <1>1, <1>2, <2>1
  <1> HIDE DEF end
  <1>4. \A i \in 1 .. end - o + 1 : o + i - 1 \in Cell
    BY <1>1, <1>2, <1>3 DEF Cell
  <1>5. frozen[d] \in [Cell -> 0 .. GuestWrites]
    BY DEF VmTypeOK, Image
  <1>6. /\ cells \in Seq(0 .. GuestWrites) /\ Len(cells) = end - o + 1 /\ cells # <<>>
        /\ \A i \in 1 .. Len(cells) : cells[i] = frozen[d][o + i - 1]
    <2>1. end - o + 1 \in Nat \ {0}
      BY <1>1, <1>2, <1>3
    <2>2. cells \in [1 .. end - o + 1 -> 0 .. GuestWrites]
      BY <1>4, <1>5
    <2>3. cells \in Seq(0 .. GuestWrites) /\ Len(cells) = end - o + 1
      BY <2>1, <2>2, FunctionIsSequence
    <2>4. cells # <<>>
      BY <2>1, <2>3, EmptySeq
    <2>5. \A i \in 1 .. end - o + 1 : cells[i] = frozen[d][o + i - 1]
      OBVIOUS
    <2> QED
      BY <2>3, <2>4, <2>5
  <1>7. BlockAt(d, <<lo, hi>>, o) = [disk |-> d, offset |-> o, cells |-> cells]
    BY DEF BlockAt, end
  <1> HIDE DEF cells
  <1>8. o \in Cell /\ o + Len(cells) <= Capacity
    BY <1>1, <1>2, <1>3, <1>6 DEF Cell
  <1> QED
    BY <1>6, <1>7, <1>8 DEF VmBlock, FrozenBlock, End

\* The next disk is read.
LEMMA ReadDiskStep == ASSUME VmInv, ReadDisk PROVE VmInv'
  <1> DEFINE d == Disks[job + 1]
             blocks == UNION {{BlockAt(d, r, o) : o \in Chunks(r)} : r \in ToRead(d)}
  <1>1. d \in DiskSet /\ job' \in -1 .. Len(Disks) + 1 /\ job' # -1
    BY VmImageAssumption DEF ReadDisk, DiskSet, ToSet
  <1>2. \A r \in ToRead(d) : \E lo, hi \in Cell : r = <<lo, hi>>
    <2>1. changed[d] \subseteq Cell
      BY <1>1 DEF VmInv, VmTypeOK
    <2>2. 0 \in Cell /\ Capacity - 1 \in Cell
      BY VmImageAssumption DEF Cell
    <2>3. \A r \in Ranges(changed[d]) : \E lo, hi \in Cell : r = <<lo, hi>>
      BY <2>1 DEF Ranges
    <2> QED
      BY <2>2, <2>3 DEF ToRead, QueryChanged
  <1>3. \A b \in blocks : b \in VmBlock /\ FrozenBlock(b)
    <2> SUFFICES ASSUME NEW r \in ToRead(d), NEW o \in Chunks(r)
                 PROVE  BlockAt(d, r, o) \in VmBlock /\ FrozenBlock(BlockAt(d, r, o))
      OBVIOUS
    <2>1. PICK lo \in Cell, hi \in Cell : r = <<lo, hi>>
      BY <1>2
    <2> QED
      BY <1>1, <2>1, BlockIsFrozen DEF VmInv
  <1> HIDE DEF blocks
  <1>4. PICK n \in 0 .. Capacity : \E read \in [1 .. n -> blocks] : manifest' = manifest \o read
    BY DEF ReadDisk, blocks
  <1>5. PICK read \in [1 .. n -> blocks] : manifest' = manifest \o read
    BY <1>4
  <1>6. read \in Seq(VmBlock) /\ Len(read) = n /\ manifest \in Seq(VmBlock)
    <2>1. n \in Nat
      BY VmImageAssumption
    <2>2. read \in [1 .. n -> VmBlock]
      BY <1>3
    <2> QED
      BY <2>1, <2>2 DEF VmInv, VmTypeOK
  <1>7. manifest' \in Seq(VmBlock) /\ ToSet(manifest') \subseteq ToSet(manifest) \cup blocks
    <2>1. /\ manifest' \in Seq(VmBlock) /\ Len(manifest') = Len(manifest) + Len(read)
          /\ \A i \in 1 .. Len(manifest) + Len(read) : manifest'[i] =
                IF i <= Len(manifest) THEN manifest[i] ELSE read[i - Len(manifest)]
      BY <1>5, <1>6, ConcatProperties
    <2>2. \A i \in 1 .. Len(read) : read[i] \in blocks
      BY <1>5, <1>6
    <2>3. ASSUME NEW i \in 1 .. Len(manifest') PROVE manifest'[i] \in ToSet(manifest) \cup blocks
      <3>1. CASE i <= Len(manifest)
        BY <1>6, <2>1, <3>1 DEF ToSet
      <3>2. CASE ~(i <= Len(manifest))
        <4>1. i - Len(manifest) \in 1 .. Len(read)
          BY <1>6, <2>1, <3>2
        <4> QED
          BY <2>1, <2>2, <3>2, <4>1
      <3> QED
        BY <3>1, <3>2
    <2> QED
      BY <2>1, <2>3 DEF ToSet
  <1>8. UNCHANGED <<guest, writes, cbt, frozen, changed>>
    BY DEF ReadDisk
  <1>9. VmTypeOK'
    BY <1>1, <1>3, <1>7, <1>8 DEF VmInv, VmTypeOK, FrozenBlock
  <1>10. ASSUME NEW b \in ToSet(manifest') PROVE FrozenBlock(b)'
    <2>1. FrozenBlock(b)
      BY <1>3, <1>7 DEF VmInv
    <2> QED
      BY <1>8, <2>1 DEF FrozenBlock, End
  <1> QED
    BY <1>1, <1>9, <1>10 DEF VmInv

\* What a manifest has stays frozen while the guest writes on.
LEMMA ManifestStays ==
    ASSUME VmInv, UNCHANGED <<manifest, frozen>>, NEW b \in ToSet(manifest')
    PROVE  FrozenBlock(b)'
  BY DEF VmInv, FrozenBlock, End

\* The invariant of a snapshot's image holds in every reachable state.
THEOREM ImageInvariant == VmSpec => []VmInv
  <1>1. VmInit => VmInv
    <2> SUFFICES ASSUME VmInit PROVE VmInv
      OBVIOUS
    <2>1. ToSet(manifest) = {} /\ manifest \in Seq(VmBlock)
      BY EmptySeq DEF VmInit, ToSet
    <2>2. 0 \in 0 .. GuestWrites /\ -1 \in -1 .. Len(Disks) + 1
      BY VmImageAssumption
    <2>3. guest \in [DiskSet -> Image] /\ frozen = guest
      BY <2>2 DEF VmInit, Image
    <2> QED
      BY <2>1, <2>2, <2>3 DEF VmInit, VmInv, VmTypeOK
  <1>2. VmInv /\ [VmNext]_vmVars => VmInv'
    <2> SUFFICES ASSUME VmInv, [VmNext]_vmVars PROVE VmInv'
      OBVIOUS
    <2>1. CASE ReadDisk
      BY <2>1, ReadDiskStep
    <2>2. CASE SaveSnapshot
      <3>1. UNCHANGED <<guest, writes, cbt, frozen, changed, manifest>> /\ job' \in -1 .. Len(Disks) + 1 /\ job' # -1
        BY <2>2, VmImageAssumption DEF SaveSnapshot
      <3>2. VmTypeOK'
        BY <3>1 DEF VmInv, VmTypeOK
      <3> QED
        BY <3>1, <3>2, ManifestStays DEF VmInv
    <2>3. CASE CreateSnapshot
      <3>1. manifest' = <<>> /\ ToSet(manifest') = {} /\ job' \in -1 .. Len(Disks) + 1 /\ job' # -1
        BY <2>3, VmImageAssumption DEF CreateSnapshot, VmInv, ToSet
      <3>2. VmTypeOK'
        BY <2>3, <3>1 DEF CreateSnapshot, VmInv, VmTypeOK
      <3> QED
        BY <3>1, <3>2 DEF VmInv
    <2>4. ASSUME NEW d \in DiskSet, NEW c \in Cell, GuestWrite(d, c) PROVE VmInv'
      <3>1. UNCHANGED <<cbt, frozen, manifest, job>> /\ writes' \in 0 .. GuestWrites /\ writes' = writes + 1
        BY <2>4, VmImageAssumption DEF GuestWrite, VmInv, VmTypeOK
      <3>2. guest' \in [DiskSet -> Image] /\ changed' \in [DiskSet -> SUBSET Cell]
        BY <2>4, <3>1 DEF GuestWrite, VmInv, VmTypeOK, Image
      <3>3. VmTypeOK'
        BY <3>1, <3>2 DEF VmInv, VmTypeOK
      <3> QED
        BY <3>1, <3>3, ManifestStays DEF VmInv
    <2>5. CASE UNCHANGED vmVars
      <3>1. VmTypeOK' /\ UNCHANGED <<manifest, frozen, job>>
        BY <2>5 DEF vmVars, VmInv, VmTypeOK
      <3> QED
        BY <3>1, ManifestStays DEF VmInv
    <2> QED
      BY <2>1, <2>2, <2>3, <2>4, <2>5 DEF VmNext
  <1> QED
    BY <1>1, <1>2, PTL DEF VmSpec

\* An export reads, at every offset of a disk, what was frozen there, or nothing.
THEOREM ExportStaysInPlace == VmSpec => [](VmTypeOK /\ ExportInPlace)
  <1>1. VmInv => ExportInPlace
    <2> SUFFICES ASSUME VmInv, NEW d \in DiskSet, NEW o \in Cell, NEW c \in Cell, o <= c
                 PROVE  ReadBacked(d, o, Capacity - o)[c - o + 1] \in {0, frozen[d][c]}
      BY DEF ExportInPlace
    <2>1. c - o + 1 \in 1 .. Capacity - o /\ o + (c - o + 1) - 1 = c /\ c \in Int /\ o \in Int
      BY VmImageAssumption DEF Cell
    <2> DEFINE over == {b \in BlocksOf(d) : b.offset <= c /\ c < End(b)}
               b == CHOOSE b \in over : TRUE
    <2>2. ReadBacked(d, o, Capacity - o)[c - o + 1] = IF over = {} THEN 0 ELSE b.cells[c - b.offset + 1]
      <3> DEFINE at(k) == {e \in BlocksOf(d) : e.offset <= k /\ k < End(e)}
                 value(k) == IF at(k) = {} THEN 0
                             ELSE LET e == CHOOSE e \in at(k) : TRUE IN e.cells[k - e.offset + 1]
      <3>1. ReadBacked(d, o, Capacity - o) = [i \in 1 .. Capacity - o |-> value(o + i - 1)]
        BY DEF ReadBacked
      <3>2. value(c) = IF over = {} THEN 0 ELSE b.cells[c - b.offset + 1]
        OBVIOUS
      <3> HIDE DEF value
      <3> QED
        BY <2>1, <3>1, <3>2
    <2>3. CASE over # {}
      <3>1. b \in over
        BY <2>3
      <3> HIDE DEF b
      <3>2. b \in ToSet(manifest) /\ b.disk = d /\ b.offset <= c /\ c < b.offset + Len(b.cells)
        BY <3>1 DEF End, BlocksOf
      <3>3. b \in VmBlock /\ FrozenBlock(b)
        BY <3>2 DEF VmInv, VmTypeOK, ToSet
      <3>4. b.offset \in Int /\ Len(b.cells) \in Nat
        BY <3>3, VmImageAssumption DEF VmBlock, Cell
      <3>5. c - b.offset + 1 \in 1 .. Len(b.cells) /\ b.offset + (c - b.offset + 1) - 1 = c
        BY <2>1, <3>2, <3>4
      <3>6. b.cells[c - b.offset + 1] = frozen[d][c]
        BY <3>2, <3>3, <3>5 DEF FrozenBlock
      <3> QED
        BY <2>2, <2>3, <3>6 DEF b
    <2> QED
      BY <2>2, <2>3
  <1>2. VmInv => VmTypeOK
    BY DEF VmInv
  <1> QED
    BY <1>1, <1>2, ImageInvariant, PTL

-----------------------------------------------------------------------------
(***************************************************************************)
(* A disk that is read whole is, to all readers, the frozen disk.          *)
(***************************************************************************)
\* A quotient and its remainder.
LEMMA Quotient ==
    ASSUME NEW a \in Int, NEW n \in Nat \ {0}
    PROVE  a \div n \in Int /\ a % n \in 0 .. n - 1 /\ a = n * (a \div n) + (a % n)
  OBVIOUS

\* A multiple below the chunk size is 0.
LEMMA NoMultiple ==
    ASSUME NEW n \in Nat \ {0}, NEW j \in Int, n * j \in 0 .. n - 1
    PROVE  j = 0
  <1>1. CASE j >= 1
    <2>1. PICK k \in Nat : j = k + 1
      <3>1. j - 1 \in Nat /\ j = (j - 1) + 1
        BY <1>1
      <3> QED
        BY <3>1
    <2>2. n * j = n * k + n /\ n * k >= 0
      BY <2>1
    <2> QED
      BY <2>2
  <1>2. CASE j <= -1
    <2>1. PICK k \in Nat : j = -k - 1
      <3>1. -j - 1 \in Nat /\ j = -(-j - 1) - 1
        BY <1>2
      <3> QED
        BY <3>1
    <2>2. n * j = -(n * k) - n /\ n * k >= 0
      BY <2>1
    <2> QED
      BY <2>2
  <1> QED
    BY <1>1, <1>2

\* A multiple has no remainder.
LEMMA MultipleRemainder == ASSUME NEW n \in Nat \ {0}, NEW q \in Int PROVE (n * q) % n = 0
  <1> DEFINE m == n * q
             k == m \div n
             r == m % n
  <1>1. m \in Int /\ m = n * q
    OBVIOUS
  <1> HIDE DEF m
  <1>2. k \in Int /\ r \in 0 .. n - 1 /\ m = n * k + r
    BY <1>1, Quotient
  <1> HIDE DEF k, r
  <1>3. n * (q - k) = r /\ q - k \in Int
    <2>1. n * (q - k) = n * q - n * k
      BY <1>2
    <2> QED
      BY <1>1, <1>2, <2>1
  <1>4. q - k = 0
    BY <1>2, <1>3, NoMultiple
  <1>5. r = 0
    BY <1>2, <1>3, <1>4
  <1> QED
    BY <1>5 DEF m, r

\* Where the chunks of a disk begin.
LEMMA ChunkMultiples ==
    ASSUME NEW o \in Nat
    PROVE  /\ o % ReadChunk \in 0 .. ReadChunk - 1
           /\ (o - (o % ReadChunk)) % ReadChunk = 0
           /\ o % ReadChunk = 0 => /\ (o + ReadChunk) % ReadChunk = 0
                                   /\ \A m \in o .. o + ReadChunk - 1 : m % ReadChunk = 0 => m = o
  <1>1. ReadChunk \in Nat \ {0}
    BY VmImageAssumption
  <1>2. /\ o \div ReadChunk \in Int /\ o % ReadChunk \in 0 .. ReadChunk - 1
        /\ o = ReadChunk * (o \div ReadChunk) + (o % ReadChunk)
    <2>1. o \in Int
      OBVIOUS
    <2> QED
      BY <1>1, <2>1, Quotient
  <1>3. (o - (o % ReadChunk)) % ReadChunk = 0
    <2> DEFINE q == o \div ReadChunk
               r == o % ReadChunk
    <2>1. q \in Int /\ r \in Int /\ o = ReadChunk * q + r
      BY <1>1, <1>2
    <2> HIDE DEF q, r
    <2>2. o - r = ReadChunk * q
      BY <1>1, <2>1
    <2> QED
      BY <1>1, <2>1, <2>2, MultipleRemainder DEF r
  <1>4. ASSUME o % ReadChunk = 0 PROVE (o + ReadChunk) % ReadChunk = 0
    <2> DEFINE q == o \div ReadChunk
    <2>1. q \in Int /\ o = ReadChunk * q
      BY <1>1, <1>2, <1>4
    <2> HIDE DEF q
    <2>2. q + 1 \in Int /\ o + ReadChunk = ReadChunk * (q + 1)
      BY <1>1, <2>1
    <2> QED
      BY <1>1, <2>2, MultipleRemainder
  <1>5. ASSUME o % ReadChunk = 0, NEW m \in o .. o + ReadChunk - 1, m % ReadChunk = 0 PROVE m = o
    <2> DEFINE q == o \div ReadChunk
               k == m \div ReadChunk
    <2>1. q \in Int /\ o = ReadChunk * q /\ k \in Int /\ m = ReadChunk * k /\ m \in Nat
      <3>1. m \in Nat /\ m \in Int /\ o \in Int
        BY <1>1
      <3>2. /\ k \in Int /\ m = ReadChunk * k + (m % ReadChunk)
            /\ q \in Int /\ o = ReadChunk * q + (o % ReadChunk)
        BY <1>1, <3>1, Quotient
      <3> HIDE DEF k, q
      <3> QED
        BY <1>1, <1>5, <3>1, <3>2
    <2> HIDE DEF q, k
    <2>2. ReadChunk * (k - q) = m - o /\ k - q \in Int /\ m - o \in 0 .. ReadChunk - 1
      <3>1. ReadChunk * (k - q) = ReadChunk * k - ReadChunk * q
        BY <1>1, <2>1
      <3> QED
        BY <1>1, <2>1, <3>1
    <2>3. k - q = 0
      BY <1>1, <2>2, NoMultiple
    <2> QED
      BY <1>1, <2>1, <2>3
  <1> QED
    BY <1>2, <1>3, <1>4, <1>5

\* The frozen cells of a disk from lo to hi.
Slice(d, lo, hi) == [i \in 1 .. hi - lo |-> frozen[d][lo + i - 1]]

\* A slice is a sequence of bytes, as long as its range.
LEMMA SliceIs ==
    ASSUME VmTypeOK, NEW d \in DiskSet, NEW lo \in Nat, NEW hi \in Nat, lo <= hi, hi <= Capacity
    PROVE  /\ Slice(d, lo, hi) \in Seq(0 .. GuestWrites) /\ Len(Slice(d, lo, hi)) = hi - lo
           /\ \A i \in 1 .. hi - lo : Slice(d, lo, hi)[i] = frozen[d][lo + i - 1]
  <1> DEFINE slice == Slice(d, lo, hi)
  <1>1. hi - lo \in Nat /\ Capacity \in Nat
    BY VmImageAssumption
  <1>2. ASSUME NEW i \in 1 .. hi - lo PROVE frozen[d][lo + i - 1] \in 0 .. GuestWrites
    <2>1. lo + i - 1 \in Cell
      BY <1>1 DEF Cell
    <2> QED
      BY <2>1 DEF VmTypeOK, Image
  <1>3. slice \in [1 .. hi - lo -> 0 .. GuestWrites] /\ \A i \in 1 .. hi - lo : slice[i] = frozen[d][lo + i - 1]
    BY <1>2 DEF Slice
  <1> HIDE DEF slice
  <1>4. slice \in Seq(0 .. GuestWrites) /\ Len(slice) = hi - lo
    BY <1>1, <1>3, FunctionIsSequence
  <1> QED
    BY <1>3, <1>4 DEF slice

\* A slice of no cells.
LEMMA SliceEmpty == ASSUME NEW d, NEW o \in Nat PROVE Slice(d, o, o) = <<>>
  <1>1. 1 .. o - o = {}
    OBVIOUS
  <1> QED
    BY <1>1 DEF Slice

\* A slice behind a slice is a slice.
LEMMA SliceJoin ==
    ASSUME VmTypeOK, NEW d \in DiskSet, NEW a \in Nat, NEW b \in Nat, NEW c \in Nat,
           a <= b, b <= c, c <= Capacity
    PROVE  Slice(d, a, b) \o Slice(d, b, c) = Slice(d, a, c)
  <1> DEFINE one == Slice(d, a, b)
             two == Slice(d, b, c)
             all == Slice(d, a, c)
             S == 0 .. GuestWrites
  <1>1. Capacity \in Nat /\ b <= Capacity /\ a <= c
    BY VmImageAssumption
  <1>2. one \in Seq(S) /\ Len(one) = b - a /\ \A i \in 1 .. b - a : one[i] = frozen[d][a + i - 1]
    BY <1>1, SliceIs
  <1>3. two \in Seq(S) /\ Len(two) = c - b /\ \A i \in 1 .. c - b : two[i] = frozen[d][b + i - 1]
    BY <1>1, SliceIs
  <1>4. all \in Seq(S) /\ Len(all) = c - a /\ \A i \in 1 .. c - a : all[i] = frozen[d][a + i - 1]
    BY <1>1, SliceIs
  <1> HIDE DEF one, two, all, S
  <1>5. /\ one \o two \in Seq(S) /\ Len(one \o two) = Len(one) + Len(two)
        /\ \A i \in 1 .. Len(one) + Len(two) :
              (one \o two)[i] = IF i <= Len(one) THEN one[i] ELSE two[i - Len(one)]
    BY <1>2, <1>3, ConcatProperties
  <1>6. Len(one) + Len(two) = c - a
    BY <1>2, <1>3
  <1>7. ASSUME NEW i \in 1 .. c - a PROVE (one \o two)[i] = all[i]
    <2>1. CASE i <= b - a
      <3>1. i \in 1 .. b - a
        BY <2>1
      <3> QED
        BY <1>2, <1>4, <1>5, <1>6, <2>1, <3>1
    <2>2. CASE ~(i <= b - a)
      <3>1. i - (b - a) \in 1 .. c - b /\ b + (i - (b - a)) - 1 = a + i - 1
        BY <2>2
      <3> QED
        BY <1>2, <1>3, <1>4, <1>5, <1>6, <2>2, <3>1
    <2> QED
      BY <2>1, <2>2
  <1>8. one \o two = all
    BY <1>4, <1>5, <1>6, <1>7, SeqEqual
  <1> QED
    BY <1>8 DEF one, two, all

\* A part of a slice is a slice.
LEMMA SlicePart ==
    ASSUME VmTypeOK, NEW d \in DiskSet, NEW o \in Nat, NEW lo \in Nat, NEW hi \in Nat, NEW e \in Nat,
           o <= lo, lo <= hi, hi <= e, e <= Capacity
    PROVE  SubSeq(Slice(d, o, e), lo - o + 1, hi - o) = Slice(d, lo, hi)
  <1> DEFINE whole == Slice(d, o, e)
             part == SubSeq(whole, lo - o + 1, hi - o)
             slice == Slice(d, lo, hi)
             S == 0 .. GuestWrites
  <1>1. Capacity \in Nat /\ o <= e /\ hi <= Capacity
    BY VmImageAssumption
  <1>2. whole \in Seq(S) /\ Len(whole) = e - o /\ \A i \in 1 .. e - o : whole[i] = frozen[d][o + i - 1]
    BY <1>1, SliceIs
  <1>3. slice \in Seq(S) /\ Len(slice) = hi - lo /\ \A i \in 1 .. hi - lo : slice[i] = frozen[d][lo + i - 1]
    BY <1>1, SliceIs
  <1> HIDE DEF whole, slice, S
  <1>4. /\ part \in Seq(S)
        /\ Len(part) = IF lo - o + 1 <= hi - o THEN hi - o - (lo - o + 1) + 1 ELSE 0
        /\ \A i \in 1 .. hi - o - (lo - o + 1) + 1 : part[i] = whole[(lo - o + 1) + i - 1]
    <2>1. lo - o + 1 \in Int /\ hi - o \in Int
      OBVIOUS
    <2>2. ASSUME NEW i \in lo - o + 1 .. hi - o PROVE whole[i] \in S
      <3>1. i \in 1 .. Len(whole)
        BY <1>2
      <3> QED
        BY <1>2, <3>1, ElementOfSeq
    <2> QED
      BY <2>1, <2>2, SubSeqProperties
  <1> HIDE DEF part
  <1>5. hi - o - (lo - o + 1) + 1 = hi - lo /\ Len(part) = hi - lo
    BY <1>4
  <1>6. ASSUME NEW i \in 1 .. hi - lo PROVE part[i] = slice[i]
    <2>1. /\ (lo - o + 1) + i - 1 \in 1 .. e - o
          /\ o + ((lo - o + 1) + i - 1) - 1 = lo + i - 1
      OBVIOUS
    <2> QED
      BY <1>2, <1>3, <1>4, <1>5, <2>1
  <1>7. part = slice
    BY <1>3, <1>4, <1>5, <1>6, SeqEqual
  <1> QED
    BY <1>7 DEF part, slice, whole

-----------------------------------------------------------------------------
\* The blocks of a disk that was read whole.
WholeRange == <<0, Capacity - 1>>
WholeBlocks(d) == {BlockAt(d, WholeRange, o) : o \in Chunks(WholeRange)}
ChunkEnd(o) == IF o + ReadChunk < Capacity THEN o + ReadChunk ELSE Capacity

\* They are the slices between the multiples of ReadChunk.
LEMMA WholeBlocksAre ==
    ASSUME NEW d
    PROVE  /\ Chunks(WholeRange) = {o \in Cell : o % ReadChunk = 0}
           /\ \A o \in Cell : BlockAt(d, WholeRange, o) =
                                 [disk |-> d, offset |-> o, cells |-> Slice(d, o, ChunkEnd(o))]
  <1>1. Capacity \in Nat \ {0} /\ ReadChunk \in Nat \ {0}
    BY VmImageAssumption
  <1>2. Chunks(WholeRange) = {o \in Cell : o % ReadChunk = 0}
    <2>1. WholeRange[1] = 0 /\ WholeRange[2] = Capacity - 1
      BY DEF WholeRange
    <2>2. \A o \in Cell : o - 0 = o
      BY <1>1 DEF Cell
    <2> QED
      BY <2>1, <2>2 DEF Chunks, Cell
  <1>3. ASSUME NEW o \in Cell
        PROVE  BlockAt(d, WholeRange, o) = [disk |-> d, offset |-> o, cells |-> Slice(d, o, ChunkEnd(o))]
    <2> DEFINE end == Min({o + ReadChunk - 1, Capacity - 1})
    <2>1. o \in Int /\ o + ReadChunk - 1 \in Int /\ Capacity - 1 \in Int
      BY <1>1 DEF Cell
    <2>2. end \in {o + ReadChunk - 1, Capacity - 1} /\ end <= o + ReadChunk - 1 /\ end <= Capacity - 1
      BY <2>1, MinOfTwo
    <2> HIDE DEF end
    <2>3. end - o + 1 = ChunkEnd(o) - o
      BY <1>1, <2>1, <2>2 DEF ChunkEnd
    <2>4. BlockAt(d, WholeRange, o) =
              [disk |-> d, offset |-> o, cells |-> [i \in 1 .. end - o + 1 |-> frozen[d][o + i - 1]]]
      BY DEF BlockAt, WholeRange, end
    <2> QED
      BY <2>3, <2>4 DEF Slice
  <1> QED
    BY <1>2, <1>3

\* What a reader takes at an offset is the cells of the block there.
LEMMA CellsAtAre ==
    ASSUME NEW d, BlocksOf(d) = WholeBlocks(d), NEW o \in Cell
    PROVE  CellsAt(d, o) = IF o % ReadChunk = 0 THEN Slice(d, o, ChunkEnd(o)) ELSE <<>>
  <1> DEFINE at == {b \in BlocksOf(d) : b.offset = o}
             block == [disk |-> d, offset |-> o, cells |-> Slice(d, o, ChunkEnd(o))]
  <1>1. CellsAt(d, o) = IF at = {} THEN <<>> ELSE (CHOOSE b \in at : TRUE).cells
    BY DEF CellsAt
  <1>2. \A b \in at : o % ReadChunk = 0 /\ b = block
    <2> SUFFICES ASSUME NEW b \in at PROVE o % ReadChunk = 0 /\ b = block
      OBVIOUS
    <2>1. PICK p \in Chunks(WholeRange) : b = BlockAt(d, WholeRange, p)
      BY DEF WholeBlocks
    <2>2. p \in Cell /\ p % ReadChunk = 0
      BY WholeBlocksAre
    <2>3. b.offset = p /\ b.offset = o
      BY <2>1, <2>2, WholeBlocksAre
    <2> QED
      BY <2>1, <2>2, <2>3, WholeBlocksAre
  <1>3. o % ReadChunk = 0 => block \in at
    <2> SUFFICES ASSUME o % ReadChunk = 0 PROVE block \in at
      OBVIOUS
    <2>1. o \in Chunks(WholeRange) /\ BlockAt(d, WholeRange, o) = block
      BY WholeBlocksAre
    <2>2. block \in WholeBlocks(d) /\ block.offset = o
      BY <2>1 DEF WholeBlocks
    <2> QED
      BY <2>2
  <1> HIDE DEF at
  <1>4. CASE o % ReadChunk = 0
    <2>1. (CHOOSE b \in at : TRUE) = block
      BY <1>2, <1>3, <1>4
    <2>2. block.cells = Slice(d, o, ChunkEnd(o))
      OBVIOUS
    <2> HIDE DEF block
    <2> QED
      BY <1>1, <1>3, <1>4, <2>1, <2>2
  <1>5. CASE o % ReadChunk # 0
    BY <1>1, <1>2, <1>5
  <1> QED
    BY <1>4, <1>5

\* A join of pieces, one per offset, exists.
LEMMA JoinExists ==
    ASSUME NEW V, NEW piece \in [Cell -> Seq(V)]
    PROVE  \E f : f = [o \in 0 .. Capacity |-> IF o = 0 THEN <<>> ELSE f[o - 1] \o piece[o - 1]]
  <1> DEFINE W == Seq(V)
             step == [o \in 1 .. Capacity |-> [v \in W |-> v \o piece[o - 1]]]
  <1>1. Capacity \in Nat /\ <<>> \in W
    BY VmImageAssumption
  <1>2. step \in [1 .. Capacity -> [W -> W]]
    <2>1. ASSUME NEW o \in 1 .. Capacity, NEW v \in W PROVE v \o piece[o - 1] \in W
      <3>1. o - 1 \in Cell
        BY <1>1 DEF Cell
      <3> QED
        BY <3>1
    <2> QED
      BY <2>1
  <1>3. PICK f : Ascends(f, Capacity, W, <<>>, step)
    <2> HIDE DEF W, step
    <2>1. Capacity \in Nat
      BY <1>1
    <2>2. <<>> \in W
      BY <1>1
    <2> QED
      BY <1>2, <2>1, <2>2, Ascent, Zenon
  <1>4. f \in [0 .. Capacity -> W] /\ f[0] = <<>> /\ \A o \in 1 .. Capacity : f[o] = step[o][f[o - 1]]
    BY <1>3 DEF Ascends
  <1>5. ASSUME NEW o \in 0 .. Capacity, o # 0 PROVE f[o] = f[o - 1] \o piece[o - 1]
    <2>1. o \in 1 .. Capacity /\ o - 1 \in 0 .. Capacity
      BY <1>1, <1>5
    <2>2. f[o - 1] \in W
      BY <1>4, <2>1
    <2> HIDE DEF W
    <2> QED
      BY <1>4, <2>1, <2>2
  <1>6. f = [o \in 0 .. Capacity |-> IF o = 0 THEN <<>> ELSE f[o - 1] \o piece[o - 1]]
    <2> HIDE DEF W, step
    <2> QED
      BY <1>4, <1>5
  <1> QED
    BY <1>6

\* The pieces are slices, one behind the other.
Consecutive(d, piece, bound) ==
    \A o \in Cell : IF o % ReadChunk = 0
                    THEN /\ bound[o] <= bound[ChunkEnd(o)]
                         /\ piece[o] = Slice(d, bound[o], bound[ChunkEnd(o)])
                    ELSE piece[o] = <<>>

\* Their join is the slice from the first to the last.
LEMMA JoinIs ==
    ASSUME VmTypeOK, NEW d \in DiskSet, NEW bound \in [0 .. Capacity -> 0 .. Capacity],
           NEW piece, Consecutive(d, piece, bound), NEW f, f[0] = <<>>,
           \A o \in 1 .. Capacity : f[o] = f[o - 1] \o piece[o - 1]
    PROVE  f[Capacity] = Slice(d, bound[0], bound[Capacity])
  <1> DEFINE top(m) == IF m < Capacity THEN m ELSE Capacity
             Upto(o, m) == /\ m \in o .. o + ReadChunk - 1 /\ m % ReadChunk = 0
                           /\ bound[0] <= bound[top(m)] /\ f[o] = Slice(d, bound[0], bound[top(m)])
             S == {o \in 0 .. Capacity : \E m \in Nat : Upto(o, m)}
  <1>1. Capacity \in Nat \ {0} /\ ReadChunk \in Nat \ {0}
    BY VmImageAssumption
  <1>2. \A o \in 0 .. Capacity : bound[o] \in Nat /\ bound[o] <= Capacity
    BY <1>1
  <1>3. 0 \in S
    <2>1. (ReadChunk * 0) % ReadChunk = 0 /\ ReadChunk * 0 = 0
      BY <1>1, MultipleRemainder
    <2>2. top(0) = 0 /\ 0 \in 0 .. 0 + ReadChunk - 1 /\ 0 \in 0 .. Capacity
      BY <1>1
    <2>3. Slice(d, bound[0], bound[0]) = <<>> /\ bound[0] <= bound[0]
      BY <1>2, <2>2, SliceEmpty
    <2>4. Upto(0, 0)
      BY <2>1, <2>2, <2>3
    <2> HIDE DEF Upto
    <2> QED
      BY <2>2, <2>4
  <1>4. ASSUME NEW o \in 0 .. Capacity - 1, o \in S PROVE o + 1 \in S
    <2>1. PICK m \in Nat : Upto(o, m)
      BY <1>4
    <2>2. /\ o \in Cell /\ o \in Nat /\ o + 1 \in 1 .. Capacity /\ (o + 1) - 1 = o /\ o < Capacity
          /\ o \in 0 .. Capacity /\ 0 \in 0 .. Capacity /\ o + 1 \in 0 .. Capacity
      BY <1>1 DEF Cell
    <2>3. f[o + 1] = f[o] \o piece[o]
      BY <2>2
    <2>4. CASE o % ReadChunk = 0
      <3> DEFINE e == ChunkEnd(o)
                 n == o + ReadChunk
      <3>1. m = o /\ n % ReadChunk = 0
        BY <2>1, <2>2, <2>4, ChunkMultiples
      <3>2. top(m) = o /\ top(n) = e /\ n \in o + 1 .. (o + 1) + ReadChunk - 1 /\ n \in Nat /\ e \in 0 .. Capacity
        BY <1>1, <2>2, <3>1 DEF ChunkEnd
      <3>3. bound[o] <= bound[e] /\ piece[o] = Slice(d, bound[o], bound[e])
        BY <2>2, <2>4 DEF Consecutive
      <3>4. bound[0] <= bound[o] /\ f[o] = Slice(d, bound[0], bound[o])
        BY <2>1, <3>2
      <3> HIDE DEF e, n, top
      <3>5. /\ bound[0] \in Nat /\ bound[o] \in Nat /\ bound[e] \in Nat /\ bound[e] <= Capacity
        BY <1>2, <2>2, <3>2
      <3>6. f[o] \o piece[o] = Slice(d, bound[0], bound[e])
        <4> DEFINE from == bound[0]
                   mid == bound[o]
                   to == bound[e]
        <4>1. /\ from \in Nat /\ mid \in Nat /\ to \in Nat /\ from <= mid /\ mid <= to /\ to <= Capacity
              /\ f[o] = Slice(d, from, mid) /\ piece[o] = Slice(d, mid, to)
          BY <3>3, <3>4, <3>5
        <4> HIDE DEF from, mid, to
        <4>2. Slice(d, from, mid) \o Slice(d, mid, to) = Slice(d, from, to)
          BY <4>1, SliceJoin
        <4> QED
          BY <4>1, <4>2 DEF from, to
      <3>7. bound[0] <= bound[e]
        BY <3>3, <3>4, <3>5
      <3>8. Upto(o + 1, n)
        BY <2>3, <3>1, <3>2, <3>6, <3>7
      <3> HIDE DEF Upto
      <3> QED
        BY <2>2, <3>2, <3>8
    <2>5. CASE o % ReadChunk # 0
      <3>1. piece[o] = <<>>
        BY <2>2, <2>5 DEF Consecutive
      <3>2. m # o /\ m \in o .. o + ReadChunk - 1
        BY <2>1, <2>5
      <3>3. m \in o + 1 .. (o + 1) + ReadChunk - 1
        BY <1>1, <2>2, <3>2
      <3>4. top(m) \in 0 .. Capacity
        BY <1>1
      <3> HIDE DEF top
      <3>5. Slice(d, bound[0], bound[top(m)]) \in Seq(0 .. GuestWrites)
        BY <1>2, <2>1, <2>2, <3>4, SliceIs
      <3>6. f[o] \o <<>> = f[o]
        BY <2>1, <3>5
      <3>7. Upto(o + 1, m)
        BY <2>1, <2>3, <3>1, <3>3, <3>6
      <3> HIDE DEF Upto
      <3> QED
        BY <2>2, <3>7
    <2> QED
      BY <2>4, <2>5
  <1>5. 0 .. Capacity \subseteq S
    <2> HIDE DEF S
    <2> QED
      BY <1>1, <1>3, <1>4, UpTo
  <1>6. PICK m \in Nat : Upto(Capacity, m)
    <2>1. Capacity \in S
      <3> HIDE DEF S
      <3> QED
        BY <1>1, <1>5
    <2> QED
      BY <2>1
  <1>7. top(m) = Capacity
    BY <1>1, <1>6
  <1> QED
    BY <1>6, <1>7

-----------------------------------------------------------------------------
\* A chunk has a cell at least, and ends on the disk.
LEMMA ChunkEndIs == ASSUME NEW o \in Cell PROVE ChunkEnd(o) \in o + 1 .. Capacity /\ o \in Nat
  BY VmImageAssumption DEF ChunkEnd, Cell

\* A restore writes the frozen disk.
LEMMA RestoredIs ==
    ASSUME VmTypeOK, NEW d \in DiskSet, BlocksOf(d) = WholeBlocks(d)
    PROVE  Restored(d) = Slice(d, 0, Capacity)
  <1> DEFINE joined[o \in 0 .. Capacity] ==
                 IF o = 0 THEN <<>> ELSE joined[o - 1] \o CellsAt(d, o - 1)
             piece == [o \in Cell |-> CellsAt(d, o)]
             bound == [o \in 0 .. Capacity |-> o]
             V == 0 .. GuestWrites
  <1>1. Capacity \in Nat \ {0}
    BY VmImageAssumption
  <1>2. ASSUME NEW o \in Cell
        PROVE  /\ piece[o] = CellsAt(d, o) /\ piece[o] \in Seq(V)
               /\ piece[o] = IF o % ReadChunk = 0 THEN Slice(d, o, ChunkEnd(o)) ELSE <<>>
    <2>1. piece[o] = IF o % ReadChunk = 0 THEN Slice(d, o, ChunkEnd(o)) ELSE <<>>
      BY CellsAtAre
    <2> DEFINE e == ChunkEnd(o)
    <2>2. o \in Nat /\ e \in Nat /\ o <= e /\ e <= Capacity
      BY <1>1, ChunkEndIs
    <2> HIDE DEF e
    <2>3. Slice(d, o, e) \in Seq(V)
      BY <2>2, SliceIs
    <2>4. <<>> \in Seq(V)
      OBVIOUS
    <2> QED
      BY <2>1, <2>3, <2>4 DEF e
  <1>3. piece \in [Cell -> Seq(V)]
    BY <1>2
  <1> HIDE DEF V, piece
  <1>4. PICK f : f = [o \in 0 .. Capacity |-> IF o = 0 THEN <<>> ELSE f[o - 1] \o piece[o - 1]]
    BY <1>3, JoinExists
  <1>5. \A o \in 0 .. Capacity : o # 0 => o - 1 \in Cell /\ piece[o - 1] = CellsAt(d, o - 1)
    BY <1>1, <1>2 DEF Cell
  <1>6. f = [o \in 0 .. Capacity |-> IF o = 0 THEN <<>> ELSE f[o - 1] \o CellsAt(d, o - 1)]
    BY <1>4, <1>5, Zenon
  <1>7. joined = [o \in 0 .. Capacity |-> IF o = 0 THEN <<>> ELSE joined[o - 1] \o CellsAt(d, o - 1)]
    BY <1>6, Zenon
  <1>8. Restored(d) = joined[Capacity]
    BY DEF Restored
  <1> HIDE DEF joined
  <1>9. joined[0] = <<>> /\ \A o \in 1 .. Capacity : joined[o] = joined[o - 1] \o piece[o - 1]
    <2>1. ASSUME NEW o \in 1 .. Capacity PROVE joined[o] = joined[o - 1] \o piece[o - 1]
      <3>1. o \in 0 .. Capacity /\ o # 0
        BY <1>1
      <3>2. joined[o] = joined[o - 1] \o CellsAt(d, o - 1)
        BY <1>7, <3>1
      <3> QED
        BY <1>5, <3>1, <3>2
    <2>2. 0 \in 0 .. Capacity
      BY <1>1
    <2> QED
      BY <1>7, <2>1, <2>2
  <1>10. bound \in [0 .. Capacity -> 0 .. Capacity]
    OBVIOUS
  <1>11. Consecutive(d, piece, bound)
    <2> SUFFICES ASSUME NEW o \in Cell
                 PROVE  IF o % ReadChunk = 0
                        THEN /\ bound[o] <= bound[ChunkEnd(o)]
                             /\ piece[o] = Slice(d, bound[o], bound[ChunkEnd(o)])
                        ELSE piece[o] = <<>>
      BY DEF Consecutive
    <2>1. o \in 0 .. Capacity /\ ChunkEnd(o) \in 0 .. Capacity /\ o <= ChunkEnd(o)
      BY <1>1, ChunkEndIs DEF Cell
    <2> QED
      BY <1>2, <2>1
  <1> HIDE DEF bound
  <1>12. joined[Capacity] = Slice(d, bound[0], bound[Capacity])
    BY <1>9, <1>10, <1>11, JoinIs
  <1>13. bound[0] = 0 /\ bound[Capacity] = Capacity
    BY <1>1 DEF bound
  <1> QED
    BY <1>8, <1>12, <1>13

\* The larger of two.
LEMMA MaxOfTwo ==
    ASSUME NEW a \in Int, NEW b \in Int
    PROVE  Max({a, b}) \in {a, b} /\ Max({a, b}) >= a /\ Max({a, b}) >= b
  <1>1. \E m \in {a, b} : \A n \in {a, b} : m >= n
    <2>1. CASE a >= b
      BY <2>1
    <2>2. CASE ~(a >= b)
      BY <2>2
    <2> QED
      BY <2>1, <2>2
  <1> QED
    BY <1>1 DEF Max

\* The place of a cell in the range that is asked for.
Clip(o, start, end) == IF o < start THEN start ELSE IF o > end THEN end ELSE o

\* The part of a block inside a range.
LEMMA PartIs ==
    ASSUME VmTypeOK, NEW d \in DiskSet, BlocksOf(d) = WholeBlocks(d), NEW o \in Cell,
           NEW start \in Nat, NEW end \in Nat, start <= end, end <= Capacity
    PROVE  Part(d, o, start, end) =
               IF o % ReadChunk = 0 THEN Slice(d, Clip(o, start, end), Clip(ChunkEnd(o), start, end))
               ELSE <<>>
  <1> DEFINE e == ChunkEnd(o)
             cells == CellsAt(d, o)
             lo == Max({o, start})
             hi == Min({o + Len(cells), end})
             a == Clip(o, start, end)
             b == Clip(e, start, end)
  <1>1. /\ o \in Nat /\ e \in Nat /\ o < e /\ e <= Capacity /\ Capacity \in Nat
        /\ o \in Int /\ e \in Int /\ start \in Int /\ end \in Int
    BY VmImageAssumption, ChunkEndIs
  <1>2. cells = IF o % ReadChunk = 0 THEN Slice(d, o, e) ELSE <<>>
    BY CellsAtAre
  <1>3. Part(d, o, start, end) = IF lo >= hi THEN <<>> ELSE SubSeq(cells, lo - o + 1, hi - o)
    BY DEF Part
  <1> HIDE DEF e, cells
  <1>4. lo \in {o, start} /\ lo >= o /\ lo >= start
    BY <1>1, MaxOfTwo
  <1>5. CASE o % ReadChunk = 0
    <2>1. cells = Slice(d, o, e) /\ Len(cells) = e - o
      <3>1. cells = Slice(d, o, e)
        BY <1>2, <1>5
      <3>2. o <= e /\ Len(Slice(d, o, e)) = e - o
        BY <1>1, SliceIs
      <3> QED
        BY <3>1, <3>2
    <2>2. hi \in {e, end} /\ hi <= e /\ hi <= end
      <3>1. o + Len(cells) = e
        BY <1>1, <2>1
      <3>2. hi = Min({e, end})
        BY <3>1
      <3> HIDE DEF hi
      <3> QED
        BY <1>1, <3>2, MinOfTwo
    <2> HIDE DEF lo, hi
    <2>3. a = IF o < start THEN start ELSE IF o > end THEN end ELSE o
      BY DEF Clip
    <2>4. b = IF e < start THEN start ELSE IF e > end THEN end ELSE e
      BY DEF Clip
    <2> HIDE DEF a, b
    <2>5. CASE lo >= hi
      <3>1. a = b /\ a \in Nat
        BY <1>1, <1>4, <2>2, <2>3, <2>4, <2>5
      <3>2. Slice(d, a, b) = <<>>
        BY <3>1, SliceEmpty
      <3> QED
        BY <1>3, <1>5, <2>5, <3>2 DEF a, b, e
    <2>6. CASE ~(lo >= hi)
      <3>1. a = lo /\ b = hi /\ lo \in Nat /\ hi \in Nat /\ lo <= hi /\ o <= lo /\ hi <= e
        BY <1>1, <1>4, <2>2, <2>3, <2>4, <2>6
      <3>2. SubSeq(Slice(d, o, e), lo - o + 1, hi - o) = Slice(d, lo, hi)
        BY <1>1, <3>1, SlicePart
      <3>3. Part(d, o, start, end) = Slice(d, a, b)
        BY <1>3, <2>1, <2>6, <3>1, <3>2
      <3> QED
        BY <1>5, <3>3 DEF a, b, e
    <2> QED
      BY <2>5, <2>6
  <1>6. CASE o % ReadChunk # 0
    <2>1. o + Len(cells) = o
      BY <1>1, <1>2, <1>6
    <2>2. hi = Min({o, end})
      BY <2>1
    <2> HIDE DEF hi
    <2>3. hi <= o /\ hi \in Int
      BY <1>1, <2>2, MinOfTwo
    <2> HIDE DEF lo
    <2>4. lo >= hi
      BY <1>1, <1>4, <2>3
    <2> QED
      BY <1>3, <1>6, <2>4
  <1> QED
    BY <1>5, <1>6

\* A download of a range is the frozen cells of the range.
LEMMA ExtractedIs ==
    ASSUME VmTypeOK, NEW d \in DiskSet, BlocksOf(d) = WholeBlocks(d),
           NEW start \in Nat, NEW end \in Nat, start <= end, end <= Capacity
    PROVE  Extracted(d, start, end) = Slice(d, start, end)
  <1> DEFINE last == Min({end, Len(Restored(d))})
             joined[o \in 0 .. Capacity] ==
                 IF o = 0 THEN <<>> ELSE joined[o - 1] \o Part(d, o - 1, start, last)
             read[o \in 0 .. Capacity] ==
                 IF o = 0 THEN <<>> ELSE read[o - 1] \o Part(d, o - 1, start, end)
             piece == [o \in Cell |-> Part(d, o, start, end)]
             bound == [o \in 0 .. Capacity |-> Clip(o, start, end)]
             V == 0 .. GuestWrites
  <1>1. Capacity \in Nat \ {0}
    BY VmImageAssumption
  <1>2. last = end
    <2>1. Len(Restored(d)) = Capacity
      <3>1. 0 \in Nat /\ Capacity \in Nat /\ 0 <= Capacity /\ Capacity <= Capacity /\ Capacity - 0 = Capacity
        BY <1>1
      <3>2. Len(Slice(d, 0, Capacity)) = Capacity - 0
        BY <3>1, SliceIs
      <3> QED
        BY <3>1, <3>2, RestoredIs
    <2>2. last = Min({end, Capacity})
      BY <2>1
    <2> HIDE DEF last
    <2> QED
      BY <1>1, <2>2, MinOfTwo
  <1>3. Extracted(d, start, end) = joined[Capacity]
    BY DEF Extracted
  <1>4. Extracted(d, start, end) = read[Capacity]
    BY <1>2, <1>3
  <1> HIDE DEF joined, last
  <1>5. ASSUME NEW o \in 0 .. Capacity
        PROVE  Clip(o, start, end) \in 0 .. Capacity /\ Clip(o, start, end) \in Nat
    BY <1>1 DEF Clip
  <1>6. ASSUME NEW o \in Cell
        PROVE  /\ o \in 0 .. Capacity /\ ChunkEnd(o) \in 0 .. Capacity
               /\ Clip(o, start, end) <= Clip(ChunkEnd(o), start, end)
    <2> DEFINE e == ChunkEnd(o)
    <2>1. o \in Nat /\ e \in Nat /\ o < e /\ e <= Capacity
      BY <1>1, ChunkEndIs
    <2> HIDE DEF e
    <2>2. o \in 0 .. Capacity /\ e \in 0 .. Capacity /\ Clip(o, start, end) <= Clip(e, start, end)
      BY <1>1, <2>1 DEF Clip
    <2> QED
      BY <2>2 DEF e
  <1>7. ASSUME NEW o \in Cell
        PROVE  /\ piece[o] = Part(d, o, start, end) /\ piece[o] \in Seq(V)
               /\ piece[o] = IF o % ReadChunk = 0
                             THEN Slice(d, Clip(o, start, end), Clip(ChunkEnd(o), start, end)) ELSE <<>>
    <2>1. piece[o] = IF o % ReadChunk = 0
                     THEN Slice(d, Clip(o, start, end), Clip(ChunkEnd(o), start, end)) ELSE <<>>
      BY PartIs
    <2> DEFINE a == Clip(o, start, end)
               b == Clip(ChunkEnd(o), start, end)
    <2>2. a \in Nat /\ b \in Nat /\ a <= b /\ b <= Capacity
      BY <1>5, <1>6
    <2> HIDE DEF a, b
    <2>3. Slice(d, a, b) \in Seq(V)
      BY <2>2, SliceIs
    <2>4. <<>> \in Seq(V)
      OBVIOUS
    <2> QED
      BY <2>1, <2>3, <2>4 DEF a, b
  <1>8. piece \in [Cell -> Seq(V)]
    BY <1>7
  <1> HIDE DEF V, piece
  <1>9. PICK f : f = [o \in 0 .. Capacity |-> IF o = 0 THEN <<>> ELSE f[o - 1] \o piece[o - 1]]
    BY <1>8, JoinExists
  <1>10. \A o \in 0 .. Capacity : o # 0 => o - 1 \in Cell /\ piece[o - 1] = Part(d, o - 1, start, end)
    BY <1>1, <1>7 DEF Cell
  <1>11. f = [o \in 0 .. Capacity |-> IF o = 0 THEN <<>> ELSE f[o - 1] \o Part(d, o - 1, start, end)]
    BY <1>9, <1>10, Zenon
  <1>12. read = [o \in 0 .. Capacity |-> IF o = 0 THEN <<>> ELSE read[o - 1] \o Part(d, o - 1, start, end)]
    BY <1>11, Zenon
  <1> HIDE DEF read
  <1>13. read[0] = <<>> /\ \A o \in 1 .. Capacity : read[o] = read[o - 1] \o piece[o - 1]
    BY <1>1, <1>10, <1>12, SMTT(30)
  <1>14. bound \in [0 .. Capacity -> 0 .. Capacity] /\ \A o \in 0 .. Capacity : bound[o] = Clip(o, start, end)
    BY <1>5
  <1> HIDE DEF bound
  <1>15. Consecutive(d, piece, bound)
    BY <1>6, <1>7, <1>14 DEF Consecutive
  <1>16. read[Capacity] = Slice(d, bound[0], bound[Capacity])
    BY <1>13, <1>14, <1>15, JoinIs, ZenonT(40)
  <1>17. bound[0] = start /\ bound[Capacity] = end
    BY <1>1, <1>14 DEF Clip
  <1> QED
    BY <1>4, <1>16, <1>17

\* What an export reads at an offset is a cell of a block there.
LEMMA ReadBackedAt ==
    ASSUME NEW d, NEW o \in Nat, NEW len \in Nat, NEW i \in 1 .. len
    PROVE  LET c == o + i - 1
               over == {b \in BlocksOf(d) : b.offset <= c /\ c < End(b)}
           IN  ReadBacked(d, o, len)[i] =
                   IF over = {} THEN 0 ELSE LET b == CHOOSE b \in over : TRUE IN b.cells[c - b.offset + 1]
  BY DEF ReadBacked

\* An export reads the frozen disk.
LEMMA ReadBackedIs ==
    ASSUME VmInv, NEW d \in DiskSet, BlocksOf(d) = WholeBlocks(d)
    PROVE  ReadBacked(d, 0, Capacity) = Slice(d, 0, Capacity)
  <1>1. Capacity \in Nat \ {0} /\ VmTypeOK /\ ReadChunk \in Nat \ {0}
    BY VmImageAssumption DEF VmInv
  <1>2. ASSUME NEW i \in 1 .. Capacity PROVE ReadBacked(d, 0, Capacity)[i] = frozen[d][0 + i - 1]
    <2> DEFINE c == 0 + i - 1
               over == {b \in BlocksOf(d) : b.offset <= c /\ c < End(b)}
               b == CHOOSE b \in over : TRUE
    <2>1. ReadBacked(d, 0, Capacity)[i] = IF over = {} THEN 0 ELSE b.cells[c - b.offset + 1]
      <3>1. 0 \in Nat /\ Capacity \in Nat
        BY <1>1
      <3> QED
        BY <3>1, ReadBackedAt
    <2>2. c \in Nat /\ c < Capacity /\ c \in Int
      BY <1>1
    <2> HIDE DEF c
    <2>3. over # {}
      <3> DEFINE r == c % ReadChunk
                 o == c - r
                 e == ChunkEnd(o)
                 block == [disk |-> d, offset |-> o, cells |-> Slice(d, o, e)]
      <3>1. r \in 0 .. ReadChunk - 1 /\ o % ReadChunk = 0
        BY <2>2, ChunkMultiples
      <3>2. r <= c
        BY <1>1, <2>2
      <3> HIDE DEF r
      <3>3. o \in Nat /\ o <= c /\ c < o + ReadChunk /\ o \in Cell
        BY <1>1, <2>2, <3>1, <3>2 DEF Cell
      <3> HIDE DEF o
      <3>4. e \in Nat /\ o <= e /\ c < e /\ e <= Capacity
        BY <1>1, <2>2, <3>3 DEF ChunkEnd
      <3>5. block \in BlocksOf(d)
        BY <3>1, <3>3, WholeBlocksAre DEF WholeBlocks
      <3> HIDE DEF e
      <3>6. Len(Slice(d, o, e)) = e - o
        BY <1>1, <3>3, <3>4, SliceIs
      <3>7. block.offset = o /\ End(block) = e
        BY <3>3, <3>4, <3>6 DEF End
      <3> QED
        BY <3>3, <3>4, <3>5, <3>7
    <2>4. b \in over
      BY <2>3
    <2> HIDE DEF b
    <2>5. b \in ToSet(manifest) /\ b.disk = d /\ b.offset <= c /\ c < b.offset + Len(b.cells)
      BY <2>4 DEF End, BlocksOf
    <2>6. b \in VmBlock /\ FrozenBlock(b)
      BY <2>5 DEF VmInv, VmTypeOK, ToSet
    <2>7. b.offset \in Int /\ Len(b.cells) \in Nat
      BY <2>6, VmImageAssumption DEF VmBlock, Cell
    <2>8. c - b.offset + 1 \in 1 .. Len(b.cells) /\ b.offset + (c - b.offset + 1) - 1 = c
      BY <2>2, <2>5, <2>7
    <2>9. b.cells[c - b.offset + 1] = frozen[d][c]
      BY <2>5, <2>6, <2>8 DEF FrozenBlock
    <2> QED
      BY <2>1, <2>3, <2>9 DEF b, c
  <1>3. ReadBacked(d, 0, Capacity) = [i \in 1 .. Capacity |-> ReadBacked(d, 0, Capacity)[i]]
    BY DEF ReadBacked
  <1>4. Capacity - 0 = Capacity
    BY <1>1
  <1>5. Slice(d, 0, Capacity) = [i \in 1 .. Capacity |-> frozen[d][0 + i - 1]]
    BY <1>4 DEF Slice
  <1> QED
    BY <1>2, <1>3, <1>5

\* Every disk that was read and is not tracked was read whole.
ImageInv ==
    /\ VmInv
    /\ \A i \in 1 .. Len(Disks) :
          Disks[i] \notin cbt => BlocksOf(Disks[i]) = IF i <= job THEN WholeBlocks(Disks[i]) ELSE {}

\* The blocks of a disk stay when the manifest does.
LEMMA BlocksStay ==
    ASSUME ImageInv, UNCHANGED <<manifest, frozen, cbt>>,
           NEW i \in 1 .. Len(Disks), Disks[i] \notin cbt'
    PROVE  BlocksOf(Disks[i])' = IF i <= job THEN WholeBlocks(Disks[i])' ELSE {}
  <1> DEFINE d == Disks[i]
  <1>1. BlocksOf(d)' = BlocksOf(d) /\ WholeBlocks(d)' = WholeBlocks(d)
    BY DEF BlocksOf, WholeBlocks, BlockAt, WholeRange
  <1> QED
    BY <1>1 DEF ImageInv

\* The disk that is read adds its blocks and no other.
LEMMA BlocksRead ==
    ASSUME ImageInv, ReadDisk, NEW i \in 1 .. Len(Disks), Disks[i] \notin cbt'
    PROVE  BlocksOf(Disks[i])' = IF i <= job' THEN WholeBlocks(Disks[i])' ELSE {}
  <1> DEFINE d == Disks[job + 1]
             blocks == UNION {{BlockAt(d, r, o) : o \in Chunks(r)} : r \in ToRead(d)}
  <1>1. /\ job \in 0 .. Len(Disks) - 1 /\ job' = job + 1 /\ UNCHANGED <<cbt, frozen>>
        /\ Len(Disks) \in Nat /\ DOMAIN Disks = 1 .. Len(Disks)
    BY VmImageAssumption DEF ReadDisk
  <1>2. WholeBlocks(Disks[i])' = WholeBlocks(Disks[i])
    BY <1>1 DEF WholeBlocks, BlockAt, WholeRange
  <1>3. \A b \in blocks : b.disk = d
    <2>1. \A r \in ToRead(d) : \A o \in Chunks(r) : BlockAt(d, r, o).disk = d
      BY DEF BlockAt
    <2> QED
      BY <2>1
  <1>4. PICK n \in 0 .. Capacity : \E read \in [1 .. n -> blocks] :
            ToSet(read) = blocks /\ manifest' = manifest \o read
    BY DEF ReadDisk
  <1> HIDE DEF blocks
  <1>5. PICK read \in [1 .. n -> blocks] : ToSet(read) = blocks /\ manifest' = manifest \o read
    BY <1>4
  <1>6. ToSet(manifest') = ToSet(manifest) \cup blocks
    <2> DEFINE S == ToSet(manifest) \cup blocks
    <2>1. n \in Nat /\ manifest \in Seq(VmBlock)
      BY VmImageAssumption DEF ImageInv, VmInv, VmTypeOK
    <2>2. manifest \in Seq(S) /\ Len(manifest) \in Nat
      BY <2>1 DEF ToSet
    <2>3. read \in Seq(S) /\ Len(read) = n
      <3>1. read \in [1 .. n -> S]
        OBVIOUS
      <3> QED
        BY <2>1, <3>1
    <2> HIDE DEF S
    <2>4. /\ manifest' \in Seq(S) /\ Len(manifest') = Len(manifest) + n
          /\ \A k \in 1 .. Len(manifest) + n :
                manifest'[k] = IF k <= Len(manifest) THEN manifest[k] ELSE read[k - Len(manifest)]
      BY <1>5, <2>2, <2>3, ConcatProperties, ZenonT(40)
    <2>5. ToSet(manifest') \subseteq S /\ ToSet(manifest') = {manifest'[k] : k \in 1 .. Len(manifest) + n}
      <3>1. DOMAIN manifest' = 1 .. Len(manifest) + n
        BY <2>4
      <3> QED
        BY <2>4, <3>1 DEF ToSet
    <2>6. ASSUME NEW k \in 1 .. Len(manifest) PROVE manifest[k] \in ToSet(manifest')
      <3>1. k \in 1 .. Len(manifest) + n /\ k <= Len(manifest)
        BY <2>1, <2>2
      <3> QED
        BY <2>4, <2>5, <3>1
    <2>7. ASSUME NEW k \in 1 .. n PROVE read[k] \in ToSet(manifest')
      <3>1. /\ k + Len(manifest) \in 1 .. Len(manifest) + n /\ ~(k + Len(manifest) <= Len(manifest))
            /\ (k + Len(manifest)) - Len(manifest) = k
        BY <2>1, <2>2
      <3>2. manifest'[k + Len(manifest)] = read[k]
        BY <2>4, <3>1
      <3> QED
        BY <2>5, <3>1, <3>2
    <2>8. ToSet(manifest) = {manifest[k] : k \in 1 .. Len(manifest)} /\ blocks = {read[k] : k \in 1 .. n}
      <3>1. DOMAIN manifest = 1 .. Len(manifest) /\ DOMAIN read = 1 .. n
        BY <2>1
      <3> QED
        BY <1>5, <3>1 DEF ToSet
    <2>9. S \subseteq ToSet(manifest')
      BY <2>6, <2>7, <2>8 DEF S
    <2> QED
      BY <2>5, <2>9 DEF S
  <1>7. BlocksOf(Disks[i])' = BlocksOf(Disks[i]) \cup {b \in blocks : b.disk = Disks[i]}
    BY <1>6 DEF BlocksOf
  <1>8. CASE i = job + 1
    <2>1. BlocksOf(Disks[i]) = {}
      BY <1>1, <1>8 DEF ImageInv
    <2>2. ToRead(d) = {WholeRange} /\ d = Disks[i]
      BY <1>1, <1>8 DEF ToRead, WholeRange
    <2>3. blocks = {BlockAt(d, WholeRange, o) : o \in Chunks(WholeRange)}
      BY <2>2 DEF blocks
    <2>4. blocks = WholeBlocks(Disks[i]) /\ \A b \in blocks : b.disk = Disks[i]
      BY <1>3, <2>2, <2>3 DEF WholeBlocks
    <2>5. BlocksOf(Disks[i])' = WholeBlocks(Disks[i])
      BY <1>7, <2>1, <2>4
    <2>6. i <= job'
      BY <1>1, <1>8
    <2> QED
      BY <1>2, <2>5, <2>6
  <1>9. CASE i # job + 1
    <2>1. Disks[i] # d
      BY <1>1, <1>9, DiskAssumption
    <2>2. BlocksOf(Disks[i])' = BlocksOf(Disks[i])
      BY <1>3, <1>7, <2>1
    <2>3. i <= job' <=> i <= job
      BY <1>1, <1>9
    <2> QED
      BY <1>1, <1>2, <2>2, <2>3 DEF ImageInv
  <1> QED
    BY <1>8, <1>9

\* Every step keeps it.
LEMMA ImageInvStays == ImageInv /\ VmInv' /\ [VmNext]_vmVars => ImageInv'
  <1> SUFFICES ASSUME ImageInv, VmInv', [VmNext]_vmVars PROVE ImageInv'
    OBVIOUS
  <1> SUFFICES ASSUME NEW i \in 1 .. Len(Disks), Disks[i] \notin cbt'
               PROVE  BlocksOf(Disks[i])' = IF i <= job' THEN WholeBlocks(Disks[i])' ELSE {}
    BY DEF ImageInv
  <1>1. CASE ReadDisk
    BY <1>1, BlocksRead
  <1>2. CASE SaveSnapshot
    <2>1. /\ job = Len(Disks) /\ job' = job + 1 /\ UNCHANGED <<manifest, frozen, cbt>>
          /\ Len(Disks) \in Nat
      BY <1>2, VmImageAssumption DEF SaveSnapshot
    <2>2. i <= job' /\ i <= job
      BY <2>1
    <2> QED
      BY <2>1, <2>2, BlocksStay
  <1>3. CASE CreateSnapshot
    <2>1. job = -1 /\ job' = 0 /\ manifest' = <<>>
      BY <1>3 DEF CreateSnapshot, ImageInv, VmInv
    <2>2. BlocksOf(Disks[i])' = {} /\ ~(i <= job')
      BY <2>1 DEF BlocksOf, ToSet
    <2> QED
      BY <2>2
  <1>4. ASSUME NEW d \in DiskSet, NEW c \in Cell, GuestWrite(d, c)
        PROVE  BlocksOf(Disks[i])' = IF i <= job' THEN WholeBlocks(Disks[i])' ELSE {}
    <2>1. UNCHANGED <<manifest, frozen, cbt>> /\ job' = job
      BY <1>4 DEF GuestWrite
    <2> QED
      BY <2>1, BlocksStay
  <1>5. CASE UNCHANGED vmVars
    <2>1. UNCHANGED <<manifest, frozen, cbt>> /\ job' = job
      BY <1>5 DEF vmVars
    <2> QED
      BY <2>1, BlocksStay
  <1> QED
    BY <1>1, <1>2, <1>3, <1>4, <1>5 DEF VmNext

\* It holds in every reachable state.
LEMMA ImageInvHolds == VmSpec => []ImageInv
  <1>1. VmInit /\ VmInv => ImageInv
    <2> SUFFICES ASSUME VmInit, VmInv, NEW i \in 1 .. Len(Disks)
                 PROVE  BlocksOf(Disks[i]) = {} /\ ~(i <= job)
      BY DEF ImageInv
    <2>1. job = -1 /\ manifest = <<>>
      BY DEF VmInit
    <2> QED
      BY <2>1 DEF BlocksOf, ToSet
  <1> QED
    BY <1>1, ImageInvStays, ImageInvariant, PTL DEF VmSpec

\* So the readers of a saved snapshot agree.
LEMMA ImageInvAgrees == ImageInv => ReadersAgree
  <1> SUFFICES ASSUME ImageInv, Saved, NEW d \in DiskSet \ cbt
               PROVE  /\ Restored(d) = [i \in 1 .. Capacity |-> frozen[d][i - 1]]
                      /\ ReadBacked(d, 0, Capacity) = Restored(d)
                      /\ Extracted(d, 0, Capacity) = Restored(d)
                      /\ \A c \in 1 .. Capacity - 1 :
                            Extracted(d, 0, c) \o Extracted(d, c, Capacity) = Restored(d)
    BY DEF ReadersAgree
  <1>1. VmInv /\ VmTypeOK /\ d \in DiskSet /\ Capacity \in Nat \ {0} /\ Len(Disks) \in Nat
    BY VmImageAssumption DEF ImageInv, VmInv
  <1>2. BlocksOf(d) = WholeBlocks(d)
    <2>1. PICK i \in 1 .. Len(Disks) : d = Disks[i]
      BY VmImageAssumption DEF DiskSet, ToSet
    <2>2. i <= job
      BY <1>1 DEF Saved
    <2> QED
      BY <2>1, <2>2 DEF ImageInv
  <1>3. Restored(d) = Slice(d, 0, Capacity) /\ ReadBacked(d, 0, Capacity) = Slice(d, 0, Capacity)
    BY <1>1, <1>2, RestoredIs, ReadBackedIs
  <1>4. Slice(d, 0, Capacity) = [i \in 1 .. Capacity |-> frozen[d][i - 1]]
    <2>1. Capacity - 0 = Capacity /\ \A i \in 1 .. Capacity : 0 + i - 1 = i - 1
      BY <1>1
    <2> QED
      BY <2>1 DEF Slice
  <1>5. ASSUME NEW lo \in 0 .. Capacity, NEW hi \in lo .. Capacity
        PROVE  Extracted(d, lo, hi) = Slice(d, lo, hi)
    <2>1. lo \in Nat /\ hi \in Nat /\ lo <= hi /\ hi <= Capacity
      BY <1>1
    <2> QED
      BY <1>1, <1>2, <2>1, ExtractedIs
  <1>6. ASSUME NEW c \in 1 .. Capacity - 1
        PROVE  Extracted(d, 0, c) \o Extracted(d, c, Capacity) = Slice(d, 0, Capacity)
    <2>1. c \in Nat /\ 0 \in Nat /\ Capacity \in Nat /\ 0 <= c /\ c <= Capacity /\ Capacity <= Capacity
      BY <1>1
    <2>2. c \in 0 .. Capacity /\ 0 \in 0 .. Capacity /\ Capacity \in c .. Capacity
      BY <2>1
    <2>3. Extracted(d, 0, c) = Slice(d, 0, c) /\ Extracted(d, c, Capacity) = Slice(d, c, Capacity)
      BY <1>5, <2>2
    <2>4. Slice(d, 0, c) \o Slice(d, c, Capacity) = Slice(d, 0, Capacity)
      BY <1>1, <2>1, SliceJoin
    <2> QED
      BY <2>3, <2>4
  <1>7. Extracted(d, 0, Capacity) = Slice(d, 0, Capacity)
    <2>1. 0 \in 0 .. Capacity /\ Capacity \in 0 .. Capacity
      BY <1>1
    <2> QED
      BY <1>5, <2>1
  <1> QED
    BY <1>3, <1>4, <1>6, <1>7

-----------------------------------------------------------------------------
(***************************************************************************)
(* The flat LUN: where the search for an offset ends.                      *)
(***************************************************************************)
\* A set of numbers up to a bound has a greatest one.
LEMMA GreatestNumber ==
    ASSUME NEW N \in Nat, NEW S \in SUBSET (0 .. N), S # {}
    PROVE  Max(S) \in S
  <1> DEFINE T == {n \in 0 .. N : N - n \in S}
  <1>1. T \in SUBSET Nat /\ T # {}
    <2>1. PICK x \in S : TRUE
      OBVIOUS
    <2>2. N - x \in 0 .. N /\ N - (N - x) = x
      OBVIOUS
    <2>3. N - x \in T
      BY <2>2
    <2>4. T \in SUBSET Nat
      OBVIOUS
    <2> QED
      BY <2>3, <2>4
  <1>2. PICK m \in T : \A n \in T : m <= n
    <2> HIDE DEF T
    <2> QED
      BY <1>1, LeastNumber
  <1>3. N - m \in S
    OBVIOUS
  <1>4. ASSUME NEW x \in S PROVE N - m >= x
    <2>1. N - x \in 0 .. N /\ N - (N - x) = x
      OBVIOUS
    <2>2. N - x \in T
      BY <2>1
    <2>3. m <= N - x
      BY <1>2, <2>2
    <2> QED
      BY <2>3
  <1> QED
    BY <1>3, <1>4 DEF Max

\* A file has a size.
LEMMA FileSizeIs == ASSUME VmInv, NEW d PROVE FileSize(d) \in Nat
  <1> DEFINE ends == {0} \cup {End(b) : b \in BlocksOf(d)}
  <1>1. Capacity \in Nat
    BY VmImageAssumption
  <1>2. ASSUME NEW b \in BlocksOf(d) PROVE End(b) \in 0 .. Capacity
    <2>1. b \in ToSet(manifest)
      BY DEF BlocksOf
    <2>2. b \in VmBlock /\ FrozenBlock(b)
      BY <2>1 DEF VmInv, VmTypeOK, ToSet
    <2>3. b.offset \in Nat /\ Len(b.cells) \in Nat
      BY <1>1, <2>2 DEF VmBlock, Cell
    <2>4. End(b) \in Nat
      BY <2>3 DEF End
    <2> QED
      BY <1>1, <2>2, <2>4 DEF FrozenBlock
  <1>3. ends \in SUBSET (0 .. Capacity) /\ ends # {}
    BY <1>1, <1>2
  <1>4. FileSize(d) = Max(ends)
    BY DEF FileSize
  <1> HIDE DEF ends
  <1>5. Max(ends) \in ends
    BY <1>1, <1>3, GreatestNumber
  <1>6. Max(ends) \in 0 .. Capacity
    BY <1>3, <1>5
  <1> QED
    BY <1>1, <1>4, <1>6

\* The sums of the first sizes.
Sums(f, N, size) == f[0] = 0 /\ \A k \in 1 .. N : f[k] = f[k - 1] + size[k]

\* There are such sums.
LEMMA SumsExist ==
    ASSUME NEW N \in Nat, NEW size \in [1 .. N -> Nat]
    PROVE  \E f : f = [k \in 0 .. N |-> IF k = 0 THEN 0 ELSE f[k - 1] + size[k]]
  <1> DEFINE step == [k \in 1 .. N |-> [v \in Nat |-> v + size[k]]]
  <1>1. N \in Nat /\ 0 \in Nat
    OBVIOUS
  <1>2. step \in [1 .. N -> [Nat -> Nat]]
    OBVIOUS
  <1>3. PICK f : Ascends(f, N, Nat, 0, step)
    <2> HIDE DEF step
    <2>1. N \in Nat
      OBVIOUS
    <2>2. 0 \in Nat
      OBVIOUS
    <2> QED
      BY <1>2, <2>1, <2>2, Ascent, Zenon
  <1>4. f \in [0 .. N -> Nat] /\ f[0] = 0 /\ \A k \in 1 .. N : f[k] = step[k][f[k - 1]]
    BY <1>3 DEF Ascends
  <1>5. ASSUME NEW k \in 0 .. N, k # 0 PROVE f[k] = f[k - 1] + size[k]
    <2>1. k \in 1 .. N /\ k - 1 \in 0 .. N
      BY <1>5
    <2> QED
      BY <1>4, <2>1
  <1> HIDE DEF step
  <1>6. f = [k \in 0 .. N |-> IF k = 0 THEN 0 ELSE f[k - 1] + size[k]]
    BY <1>4, <1>5
  <1> QED
    BY <1>6

\* They do not decrease.
LEMMA SumsGrow ==
    ASSUME NEW N \in Nat, NEW size \in [1 .. N -> Nat], NEW f, Sums(f, N, size)
    PROVE  \A j \in 0 .. N : f[j] \in Nat /\ \A i \in 0 .. j : f[i] <= f[j]
  <1> DEFINE S == {j \in 0 .. N : f[j] \in Nat /\ \A i \in 0 .. j : f[i] \in Nat /\ f[i] <= f[j]}
  <1>1. 0 \in S
    BY DEF Sums
  <1>2. ASSUME NEW j \in 0 .. N - 1, j \in S PROVE j + 1 \in S
    <2>1. j + 1 \in 1 .. N /\ (j + 1) - 1 = j /\ j + 1 \in 0 .. N
      OBVIOUS
    <2>2. f[j + 1] = f[j] + size[j + 1] /\ size[j + 1] \in Nat /\ f[j] \in Nat
      BY <1>2, <2>1 DEF Sums
    <2>3. f[j + 1] \in Nat /\ f[j] <= f[j + 1]
      BY <2>2
    <2>4. ASSUME NEW i \in 0 .. j + 1 PROVE f[i] \in Nat /\ f[i] <= f[j + 1]
      <3>1. CASE i = j + 1
        BY <2>3, <3>1
      <3>2. CASE i # j + 1
        <4>1. i \in 0 .. j
          BY <3>2
        <4>2. f[i] \in Nat /\ f[i] <= f[j]
          BY <1>2, <4>1
        <4> QED
          BY <2>2, <2>3, <4>2
      <3> QED
        BY <3>1, <3>2
    <2> QED
      BY <2>1, <2>3, <2>4
  <1> HIDE DEF S
  <1>3. 0 .. N \subseteq S
    BY <1>1, <1>2, UpTo
  <1> QED
    BY <1>3 DEF S

\* Equal sizes have equal sums.
LEMMA SumsSame ==
    ASSUME NEW N \in Nat, NEW one, NEW two, NEW f, NEW g, Sums(f, N, one), Sums(g, N, two),
           NEW p \in 0 .. N, \A k \in 1 .. p : one[k] = two[k]
    PROVE  f[p] = g[p]
  <1> DEFINE S == {k \in 0 .. p : f[k] = g[k]}
  <1>1. p \in Nat /\ 0 \in S
    BY DEF Sums
  <1>2. ASSUME NEW k \in 0 .. p - 1, k \in S PROVE k + 1 \in S
    <2>1. k + 1 \in 1 .. N /\ k + 1 \in 1 .. p /\ (k + 1) - 1 = k /\ k + 1 \in 0 .. p
      OBVIOUS
    <2>2. f[k + 1] = f[k] + one[k + 1] /\ g[k + 1] = g[k] + two[k + 1]
      BY <2>1 DEF Sums
    <2> QED
      BY <1>2, <2>1, <2>2
  <1> HIDE DEF S
  <1>3. 0 .. p \subseteq S
    BY <1>1, <1>2, UpTo
  <1>4. p \in S
    BY <1>1, <1>3
  <1> QED
    BY <1>4 DEF S

\* Where a file begins, by the blocks that are passed and by the files.
SizeOf == [k \in 1 .. Len(manifest) |-> FileSize(manifest[k].disk)]
FirstSizeOf == [k \in 1 .. Len(manifest) |->
                   IF FirstAt(manifest[k].disk) = k THEN FileSize(manifest[k].disk) ELSE 0]

\* The sizes of the blocks, by either way of taking them.
LEMMA SizesAre ==
    ASSUME VmInv
    PROVE  /\ Len(manifest) \in Nat
           /\ SizeOf \in [1 .. Len(manifest) -> Nat] /\ FirstSizeOf \in [1 .. Len(manifest) -> Nat]
  <1>1. Len(manifest) \in Nat
    BY DEF VmInv, VmTypeOK
  <1>2. \A k \in 1 .. Len(manifest) : FileSize(manifest[k].disk) \in Nat
    BY FileSizeIs
  <1> QED
    BY <1>1, <1>2 DEF SizeOf, FirstSizeOf

\* The cursor of the search is a sum of the sizes of what it passed.
LEMMA CursorIs ==
    ASSUME VmInv
    PROVE  \E f : Sums(f, Len(manifest), SizeOf) /\ \A i : Cursor(i) = f[i - 1]
  <1> DEFINE N == Len(manifest)
             passed[k \in 0 .. Len(manifest)] ==
                 IF k = 0 THEN 0 ELSE passed[k - 1] + FileSize(manifest[k].disk)
  <1>1. N \in Nat /\ SizeOf \in [1 .. N -> Nat]
    BY SizesAre
  <1>2. PICK f : f = [k \in 0 .. N |-> IF k = 0 THEN 0 ELSE f[k - 1] + SizeOf[k]]
    <2> HIDE DEF N
    <2> QED
      BY <1>1, SumsExist
  <1>3. ASSUME NEW k \in 0 .. N, k # 0
        PROVE  k \in 1 .. N /\ SizeOf[k] = FileSize(manifest[k].disk)
    <2>1. k \in 1 .. N
      BY <1>1, <1>3
    <2> QED
      BY <2>1 DEF SizeOf
  <1>4. f = [k \in 0 .. N |-> IF k = 0 THEN 0 ELSE f[k - 1] + FileSize(manifest[k].disk)]
    BY <1>2, <1>3
  <1>5. passed = [k \in 0 .. N |-> IF k = 0 THEN 0 ELSE passed[k - 1] + FileSize(manifest[k].disk)]
    BY <1>4
  <1>6. \A i : Cursor(i) = passed[i - 1]
    BY DEF Cursor
  <1> HIDE DEF passed
  <1>7. passed[0] = 0
    BY <1>1, <1>5
  <1>8. ASSUME NEW k \in 1 .. N PROVE passed[k] = passed[k - 1] + SizeOf[k]
    <2>1. k \in 0 .. N /\ k # 0
      BY <1>1
    <2> QED
      BY <1>3, <1>5, <2>1
  <1>9. Sums(passed, N, SizeOf)
    BY <1>7, <1>8 DEF Sums
  <1> QED
    BY <1>6, <1>9

\* The base of a file is a sum of the sizes of the files before it.
LEMMA BaseIs ==
    ASSUME VmInv
    PROVE  \E g : Sums(g, Len(manifest), FirstSizeOf) /\ \A d : Base(d) = g[FirstAt(d) - 1]
  <1> DEFINE N == Len(manifest)
             size(k) == FileSize(manifest[k].disk)
             First(k) == FirstAt(manifest[k].disk) = k
             seen[k \in 0 .. Len(manifest)] ==
                 IF k = 0 THEN 0
                 ELSE IF FirstAt(manifest[k].disk) = k THEN seen[k - 1] + FileSize(manifest[k].disk)
                      ELSE seen[k - 1]
  <1>1. N \in Nat /\ FirstSizeOf \in [1 .. N -> Nat]
    BY SizesAre
  <1>2. PICK g : g = [k \in 0 .. N |-> IF k = 0 THEN 0 ELSE g[k - 1] + FirstSizeOf[k]]
    <2> HIDE DEF N
    <2> QED
      BY <1>1, SumsExist
  <1>3. ASSUME NEW k \in 0 .. N, k # 0
        PROVE  /\ k \in 1 .. N /\ k - 1 \in 0 .. N
               /\ FirstSizeOf[k] = IF First(k) THEN size(k) ELSE 0
    <2>1. k \in 1 .. N /\ k - 1 \in 0 .. N
      BY <1>1, <1>3
    <2> QED
      BY <2>1 DEF FirstSizeOf
  <1>4. Sums(g, N, FirstSizeOf)
    <2>1. g[0] = 0
      BY <1>1, <1>2
    <2>2. ASSUME NEW k \in 1 .. N PROVE g[k] = g[k - 1] + FirstSizeOf[k]
      <3>1. k \in 0 .. N /\ k # 0
        BY <1>1
      <3> QED
        BY <1>2, <3>1
    <2> QED
      BY <2>1, <2>2 DEF Sums
  <1>5. \A k \in 0 .. N : g[k] \in Nat
    <2> HIDE DEF N
    <2> QED
      BY <1>1, <1>4, SumsGrow
  <1>6. ASSUME NEW k \in 0 .. N, k # 0
        PROVE  g[k] = IF First(k) THEN g[k - 1] + size(k) ELSE g[k - 1]
    <2>1. g[k] = g[k - 1] + FirstSizeOf[k]
      BY <1>2, <1>6
    <2>2. g[k - 1] \in Nat
      BY <1>3, <1>5, <1>6
    <2> HIDE DEF First, size
    <2> QED
      BY <1>3, <1>6, <2>1, <2>2
  <1>7. g = [k \in 0 .. N |-> IF k = 0 THEN 0
                              ELSE IF First(k) THEN g[k - 1] + size(k) ELSE g[k - 1]]
    <2>1. g[0] = 0
      BY <1>4 DEF Sums
    <2>2. g = [k \in 0 .. N |-> g[k]]
      BY <1>2
    <2> HIDE DEF First, size, N
    <2> QED
      BY <1>6, <2>1, <2>2
  <1>8. seen = [k \in 0 .. N |-> IF k = 0 THEN 0
                                 ELSE IF First(k) THEN seen[k - 1] + size(k) ELSE seen[k - 1]]
    BY <1>7
  <1>9. \A d : Base(d) = seen[FirstAt(d) - 1]
    BY DEF Base
  <1> HIDE DEF seen
  <1> DEFINE S == {k \in 0 .. N : seen[k] = g[k]}
  <1>10. 0 \in S
    BY <1>1, <1>4, <1>8 DEF Sums
  <1>11. ASSUME NEW k \in 0 .. N - 1, k \in S PROVE k + 1 \in S
    <2>1. k + 1 \in 0 .. N /\ k + 1 # 0 /\ (k + 1) - 1 = k
      BY <1>1
    <2> HIDE DEF First, size
    <2>2. seen[k + 1] = IF First(k + 1) THEN seen[k] + size(k + 1) ELSE seen[k]
      BY <1>8, <2>1
    <2>3. g[k + 1] = IF First(k + 1) THEN g[k] + size(k + 1) ELSE g[k]
      BY <1>6, <2>1
    <2> QED
      BY <1>11, <2>1, <2>2, <2>3
  <1>12. 0 .. N \subseteq S
    <2> HIDE DEF S, N
    <2> QED
      BY <1>1, <1>10, <1>11, UpTo
  <1>13. Sums(seen, N, FirstSizeOf)
    <2>1. \A k \in 0 .. N : seen[k] = g[k]
      BY <1>12
    <2>2. \A k \in 1 .. N : k \in 0 .. N /\ k - 1 \in 0 .. N
      BY <1>1
    <2>3. 0 \in 0 .. N
      BY <1>1
    <2> QED
      BY <1>4, <2>1, <2>2, <2>3 DEF Sums
  <1> QED
    BY <1>9, <1>13

\* The first block of a disk.
LEMMA FirstAtIs ==
    ASSUME VmInv, NEW d, Places(d) # {}
    PROVE  /\ FirstAt(d) \in 1 .. Len(manifest) /\ manifest[FirstAt(d)].disk = d
           /\ \A i \in 1 .. Len(manifest) : manifest[i].disk = d => FirstAt(d) <= i
  <1>1. Places(d) = {i \in 1 .. Len(manifest) : manifest[i].disk = d}
    BY DEF Places, VmInv, VmTypeOK
  <1>2. Places(d) \in SUBSET Nat
    BY <1>1
  <1>3. PICK m \in Places(d) : \A n \in Places(d) : m <= n
    BY <1>2, LeastNumber
  <1>4. FirstAt(d) \in Places(d) /\ \A n \in Places(d) : FirstAt(d) <= n
    BY <1>3 DEF FirstAt, Min
  <1> QED
    BY <1>1, <1>4

\* Behind files of a single block, the search ends at the file, and the base is the cursor.
LEMMA SearchEnds ==
    ASSUME VmInv, NEW d \in DiskSet, Places(d) # {},
           \A e \in Before(d) : \A i, j \in Places(e) : i = j,
           NEW c \in 0 .. FileSize(d) - 1
    PROVE  LunRead(Base(d) + c) = ReadBacked(d, c, 1)[1]
  <1> DEFINE p == FirstAt(d)
             N == Len(manifest)
             size(k) == FileSize(manifest[k].disk)
             at == Base(d) + c
  <1>1. /\ N \in Nat /\ DOMAIN manifest = 1 .. N /\ SizeOf \in [1 .. N -> Nat]
        /\ FirstSizeOf \in [1 .. N -> Nat]
    BY SizesAre DEF VmInv, VmTypeOK
  <1>2. p \in 1 .. N /\ manifest[p].disk = d /\ \A i \in 1 .. N : manifest[i].disk = d => p <= i
    BY FirstAtIs
  <1> HIDE DEF p
  <1>3. PICK f : Sums(f, N, SizeOf) /\ \A i : Cursor(i) = f[i - 1]
    BY CursorIs
  <1>4. PICK g : Sums(g, N, FirstSizeOf) /\ \A e : Base(e) = g[FirstAt(e) - 1]
    BY BaseIs
  <1>5. ASSUME NEW k \in 1 .. p - 1 PROVE SizeOf[k] = FirstSizeOf[k]
    <2>1. k \in 1 .. N /\ k < p
      BY <1>2
    <2> DEFINE e == manifest[k].disk
    <2>2. e \in DiskSet /\ k \in Places(e)
      <3>1. manifest[k] \in VmBlock
        BY <2>1 DEF VmInv, VmTypeOK
      <3> QED
        BY <1>1, <2>1, <3>1 DEF VmBlock, Places
    <2>3. FirstAt(e) \in 1 .. N /\ manifest[FirstAt(e)].disk = e /\ FirstAt(e) <= k
      BY <2>1, <2>2, FirstAtIs
    <2>4. e \in Before(d)
      <3>1. FirstAt(e) < FirstAt(d)
        BY <1>2, <2>1, <2>3 DEF p
      <3> QED
        BY <2>2, <3>1 DEF Before
    <2>5. FirstAt(e) \in Places(e)
      BY <1>1, <2>3 DEF Places
    <2>6. FirstAt(e) = k
      BY <2>2, <2>4, <2>5
    <2> QED
      BY <2>1, <2>6 DEF SizeOf, FirstSizeOf
  <1>6. Base(d) = f[p - 1]
    <2>1. p - 1 \in 0 .. N
      BY <1>1, <1>2
    <2>2. \A k \in 1 .. p - 1 : SizeOf[k] = FirstSizeOf[k]
      BY <1>5
    <2> DEFINE q == p - 1
    <2> HIDE DEF q, N
    <2>3. q \in 0 .. N /\ \A k \in 1 .. q : SizeOf[k] = FirstSizeOf[k]
      BY <2>1, <2>2 DEF q
    <2>4. f[q] = g[q]
      BY <1>1, <1>3, <1>4, <2>3, SumsSame
    <2> QED
      BY <1>4, <2>4 DEF p, q
  <1>7. \A j \in 0 .. N : f[j] \in Nat /\ \A i \in 0 .. j : f[i] <= f[j]
    <2> HIDE DEF N
    <2> QED
      BY <1>1, <1>3, SumsGrow
  <1>8. Base(d) \in Nat /\ c \in Nat /\ FileSize(d) \in Nat /\ at \in Nat /\ at - Base(d) = c /\ c < FileSize(d)
    <2>1. p - 1 \in 0 .. N
      BY <1>1, <1>2
    <2>2. f[p - 1] \in Nat
      BY <1>7, <2>1
    <2>3. FileSize(d) \in Nat
      BY FileSizeIs
    <2> QED
      BY <1>6, <2>2, <2>3
  <1> HIDE DEF at
  <1>9. p \in Hits(at)
    <2>1. Cursor(p) = Base(d)
      BY <1>3, <1>6
    <2>2. Base(d) <= at /\ at < Base(d) + FileSize(d)
      BY <1>8 DEF at
    <2> QED
      BY <1>1, <1>2, <2>1, <2>2 DEF Hits
  <1>10. ASSUME NEW i \in Hits(at) PROVE p <= i
    <2>1. i \in 1 .. N /\ at < Cursor(i) + size(i)
      BY <1>1 DEF Hits
    <2>2. CASE i < p
      <3>1. i \in 0 .. p - 1 /\ p - 1 \in 0 .. N
        BY <1>1, <1>2, <2>1, <2>2
      <3>2. f[i] <= f[p - 1]
        BY <1>7, <3>1
      <3>3. f[i] = f[i - 1] + SizeOf[i] /\ SizeOf[i] = size(i)
        BY <1>3, <2>1 DEF Sums, SizeOf
      <3>4. Cursor(i) + size(i) = f[i]
        BY <1>3, <3>3
      <3>5. f[i] \in Nat
        BY <1>1, <1>7, <2>1
      <3>6. Base(d) <= at
        BY <1>8 DEF at
      <3> HIDE DEF size
      <3> QED
        BY <1>6, <1>8, <2>1, <3>2, <3>4, <3>5, <3>6
    <2> QED
      BY <1>1, <1>2, <2>1, <2>2
  <1>11. Min(Hits(at)) = p
    <2>1. Hits(at) \subseteq 1 .. N
      BY <1>1 DEF Hits
    <2>2. ASSUME NEW x \in Hits(at), \A y \in Hits(at) : x <= y PROVE x = p
      <3>1. x <= p /\ p <= x /\ x \in Int /\ p \in Int
        BY <1>1, <1>2, <1>9, <1>10, <2>1, <2>2
      <3> QED
        BY <3>1
    <2> QED
      BY <1>9, <1>10, <2>2 DEF Min
  <1>12. LunRead(at) = ReadBacked(d, at - Base(d), 1)[1]
    BY <1>2, <1>9, <1>11 DEF LunRead
  <1> QED
    BY <1>8, <1>12 DEF at

\* All readers of a saved snapshot agree on a disk that was read whole, no export moves a block,
\* and a file is at its place in the flat LUN behind files of a single block.
THEOREM ImageStaysReadable == VmSpec => [](VmTypeOK /\ ImageReadable)
  <1>1. ImageInv => LunInPlace
    <2>1. ImageInv => VmInv
      BY DEF ImageInv
    <2> QED
      BY <2>1, SearchEnds DEF LunInPlace
  <1> QED
    BY <1>1, ImageInvHolds, ImageInvAgrees, ExportStaysInPlace, PTL DEF ImageReadable
-----------------------------------------------------------------------------
(***************************************************************************)
(* The chunker.  A boundary is found from bytes of the chunk itself, up to *)
(* the largest size a chunk may have: it is at the same distance from where *)
(* the search starts wherever in the data that is, and however much lies   *)
(* behind (BoundaryShift).  So what the reader cuts of its buffer is what one *)
(* pass over the whole data cuts there, and both make one chain of chunks. *)
(***************************************************************************)
\* A remainder is less than its modulus.
LEMMA Remainder == ASSUME NEW a \in Int, NEW n \in Nat \ {0} PROVE a % n \in 0 .. n - 1
  OBVIOUS

\* A hash is a number.
LEMMA TimesNat == ASSUME NEW h \in Nat, NEW b \in Nat PROVE Times(h, b) \in Nat
  <1>1. h * 131 + b \in Int /\ HashModulus \in Nat \ {0}
    BY ChunkerAssumption
  <1> QED
    BY <1>1, Remainder DEF Times

\* So is the factor that a byte leaves the window with.
LEMMA MinusPowerInt == MinusPower \in Int
  <1> DEFINE power[k \in 0 .. HashWindow] == IF k = 0 THEN 1 ELSE Times(power[k - 1], 0)
             step == [k \in 1 .. HashWindow |-> [v \in Nat |-> Times(v, 0)]]
  <1>1. HashWindow \in Nat /\ HashModulus \in Nat /\ 1 \in Nat
    BY ChunkerAssumption
  <1>2. step \in [1 .. HashWindow -> [Nat -> Nat]]
    BY TimesNat
  <1> HIDE DEF step
  <1>3. PICK f : Ascends(f, HashWindow, Nat, 1, step)
    BY <1>1, <1>2, Ascent, Zenon
  <1>4. /\ f \in [0 .. HashWindow -> Nat] /\ f[0] = 1
        /\ \A k \in 1 .. HashWindow : f[k] = step[k][f[k - 1]]
    BY <1>3 DEF Ascends
  <1> USE DEF step
  <1>5. f = [k \in 0 .. HashWindow |-> IF k = 0 THEN 1 ELSE Times(f[k - 1], 0)]
    <2>1. ASSUME NEW k \in 0 .. HashWindow, k # 0 PROVE f[k] = Times(f[k - 1], 0)
      <3>1. k \in 1 .. HashWindow /\ k - 1 \in 0 .. HashWindow
        BY <1>1, <2>1
      <3> QED
        BY <1>4, <3>1
    <2> QED
      BY <1>4, <2>1
  <1>6. power = [k \in 0 .. HashWindow |-> IF k = 0 THEN 1 ELSE Times(power[k - 1], 0)]
    BY <1>5
  <1> HIDE DEF power
  <1>7. 0 .. HashWindow \subseteq {k \in 0 .. HashWindow : power[k] \in Nat}
    <2> DEFINE S == {k \in 0 .. HashWindow : power[k] \in Nat}
    <2>1. 0 \in S
      BY <1>1, <1>6
    <2>2. ASSUME NEW k \in 0 .. HashWindow - 1, k \in S PROVE k + 1 \in S
      <3>1. k + 1 \in 0 .. HashWindow /\ k + 1 # 0 /\ (k + 1) - 1 = k /\ power[k] \in Nat
        BY <1>1, <2>2
      <3>2. power[k + 1] = Times(power[k], 0)
        BY <1>6, <3>1
      <3> QED
        BY <3>1, <3>2, TimesNat
    <2> HIDE DEF S
    <2>3. 0 .. HashWindow \subseteq S
      BY <1>1, <2>1, <2>2, UpTo
    <2> QED
      BY <2>3 DEF S
  <1>8. power[HashWindow] \in Nat
    BY <1>1, <1>7
  <1>9. MinusPower = HashModulus - power[HashWindow]
    BY DEF MinusPower, power
  <1> QED
    BY <1>1, <1>8, <1>9

\* A window and a hash that slides over the data, both as the loops compute them.
OpensWith(data, from, first) ==
    /\ first \in [0 .. HashWindow -> Nat] /\ first[0] = 0
    /\ \A k \in 1 .. HashWindow : first[k] = Times(first[k - 1], Byte(data, from - HashWindow + k - 1))

SlidesAs(data, from, end, opening, slide, i) ==
    /\ \A k \in 0 .. from - 1 : slide[k] = opening
    /\ \A k \in from .. i :
          slide[k] = (Times(slide[k - 1], IF k + HashWindow <= end THEN Byte(data, k) ELSE 0)
                      + Byte(data, k - HashWindow - 1) * MinusPower) % HashModulus

\* The hash at a position is what the two loops compute.
LEMMA HashRule ==
    ASSUME NEW data \in Seq(Nat), NEW from \in Nat, NEW end \in Nat, NEW i \in from .. end - 1,
           HashWindow < from, end <= Len(data)
    PROVE  \E first, slide : /\ OpensWith(data, from, first)
                             /\ SlidesAs(data, from, end, first[HashWindow], slide, i)
                             /\ HashAt(data, from, end, i) = slide[i]
  <1> DEFINE front == IF from < HashWindow THEN 0 ELSE from - HashWindow
             initial[k \in 0 .. HashWindow] ==
                 IF k = 0 THEN 0
                 ELSE IF front + k - 1 < from THEN Times(initial[k - 1], Byte(data, front + k - 1))
                      ELSE initial[k - 1]
             entering(k) == IF k + HashWindow <= end THEN Byte(data, k) ELSE 0
             leaving(k) == IF k >= HashWindow + 1 THEN Byte(data, k - HashWindow - 1) ELSE 0
             slid[k \in 0 .. i] ==
                 IF k < from THEN initial[HashWindow]
                 ELSE (Times(slid[k - 1], entering(k)) + leaving(k) * MinusPower) % HashModulus
  <1>1. HashWindow \in Nat \ {0} /\ HashModulus \in Nat \ {0} /\ i \in Nat /\ Len(data) \in Nat
    BY ChunkerAssumption
  <1>2. HashAt(data, from, end, i) = slid[i]
    BY DEF HashAt
  <1>3. ASSUME NEW j \in 0 .. Len(data) - 1 PROVE Byte(data, j) \in Nat
    BY <1>1, <1>3 DEF Byte
  <1>4. front = from - HashWindow /\ front \in Nat
    BY <1>1
  <1>5. OpensWith(data, from, initial)
    <2> DEFINE step == [k \in 1 .. HashWindow |->
                            [v \in Nat |-> Times(v, Byte(data, from - HashWindow + k - 1))]]
    <2>1. ASSUME NEW k \in 1 .. HashWindow, NEW v \in Nat
          PROVE  Times(v, Byte(data, from - HashWindow + k - 1)) \in Nat
      <3>1. from - HashWindow + k - 1 \in 0 .. Len(data) - 1
        BY <1>1
      <3> QED
        BY <1>3, <3>1, TimesNat
    <2>2. step \in [1 .. HashWindow -> [Nat -> Nat]]
      BY <2>1
    <2>3. PICK f : Ascends(f, HashWindow, Nat, 0, step)
      <3> HIDE DEF step
      <3>1. HashWindow \in Nat /\ 0 \in Nat
        BY <1>1
      <3> QED
        BY <2>2, <3>1, Ascent, Zenon
    <2>4. /\ f \in [0 .. HashWindow -> Nat] /\ f[0] = 0
          /\ \A k \in 1 .. HashWindow : f[k] = step[k][f[k - 1]]
      BY <2>3 DEF Ascends
    <2>5. ASSUME NEW k \in 1 .. HashWindow
          PROVE  f[k] = Times(f[k - 1], Byte(data, from - HashWindow + k - 1))
      <3>1. k - 1 \in 0 .. HashWindow /\ f[k - 1] \in Nat
        BY <1>1, <2>4
      <3> QED
        BY <2>4, <3>1
    <2>6. f = [k \in 0 .. HashWindow |->
                  IF k = 0 THEN 0
                  ELSE IF front + k - 1 < from THEN Times(f[k - 1], Byte(data, front + k - 1))
                       ELSE f[k - 1]]
      <3>1. ASSUME NEW k \in 0 .. HashWindow, k # 0
            PROVE  k \in 1 .. HashWindow /\ front + k - 1 < from /\ front + k - 1 = from - HashWindow + k - 1
        BY <1>1, <1>4, <3>1
      <3> HIDE DEF front
      <3> QED
        BY <2>4, <2>5, <3>1
    <2> HIDE DEF front
    <2>7. initial = [k \in 0 .. HashWindow |->
                  IF k = 0 THEN 0
                  ELSE IF front + k - 1 < from THEN Times(initial[k - 1], Byte(data, front + k - 1))
                       ELSE initial[k - 1]]
      BY <2>6
    <2> HIDE DEF initial
    <2>8. initial[0] = 0
      BY <1>1, <2>7
    <2>9. ASSUME NEW k \in 1 .. HashWindow
          PROVE  initial[k] = Times(initial[k - 1], Byte(data, from - HashWindow + k - 1))
      <3>1. k \in 0 .. HashWindow /\ k # 0 /\ front + k - 1 < from /\ front + k - 1 = from - HashWindow + k - 1
        BY <1>1, <1>4
      <3> QED
        BY <2>7, <3>1
    <2>10. 0 .. HashWindow \subseteq {k \in 0 .. HashWindow : initial[k] = f[k]}
      <3> DEFINE S == {k \in 0 .. HashWindow : initial[k] = f[k]}
      <3>1. 0 \in S
        BY <1>1, <2>4, <2>8
      <3>2. ASSUME NEW k \in 0 .. HashWindow - 1, k \in S PROVE k + 1 \in S
        <4>1. initial[k] = f[k]
          BY <3>2
        <4> HIDE DEF S
        <4>2. k + 1 \in 1 .. HashWindow /\ k + 1 \in 0 .. HashWindow /\ (k + 1) - 1 = k
          BY <1>1
        <4>3. initial[k + 1] = f[k + 1]
          BY <2>5, <2>9, <4>1, <4>2
        <4> QED
          BY <4>2, <4>3 DEF S
      <3> HIDE DEF S
      <3>3. 0 .. HashWindow \subseteq S
        BY <1>1, <3>1, <3>2, UpTo
      <3> QED
        BY <3>3 DEF S
    <2>11. initial \in [0 .. HashWindow -> Nat]
      BY <2>4, <2>7, <2>10
    <2> QED
      BY <2>8, <2>9, <2>11 DEF OpensWith
  <1> HIDE DEF initial
  <1> DEFINE opening == initial[HashWindow]
  <1>6. opening \in Nat
    BY <1>1, <1>5 DEF OpensWith
  <1>7. SlidesAs(data, from, end, opening, slid, i)
    <2> DEFINE Slide(v, k) ==
            IF k < from THEN opening
            ELSE (Times(v, IF k + HashWindow <= end THEN Byte(data, k) ELSE 0)
                  + Byte(data, k - HashWindow - 1) * MinusPower) % HashModulus
               step == [k \in 1 .. i |-> [v \in Nat |-> Slide(v, k)]]
    <2>1. ASSUME NEW k \in 1 .. i, NEW v \in Nat PROVE Slide(v, k) \in Nat
      <3>1. CASE k >= from
        <4>1. k \in 0 .. Len(data) - 1 /\ k - HashWindow - 1 \in 0 .. Len(data) - 1
          BY <1>1, <3>1
        <4>2. Byte(data, k) \in Nat /\ Byte(data, k - HashWindow - 1) \in Nat
          BY <1>3, <4>1
        <4> DEFINE byte == IF k + HashWindow <= end THEN Byte(data, k) ELSE 0
                   sum == Times(v, byte) + Byte(data, k - HashWindow - 1) * MinusPower
        <4>3. byte \in Nat
          BY <4>2
        <4>4. Times(v, byte) \in Nat
          <5> HIDE DEF byte
          <5> QED
            BY <4>3, TimesNat
        <4>5. sum \in Int
          <5> HIDE DEF byte
          <5> QED
            BY <4>2, <4>4, MinusPowerInt
        <4>6. sum % HashModulus \in 0 .. HashModulus - 1
          <5> HIDE DEF sum
          <5> QED
            BY <1>1, <4>5, Remainder
        <4>7. Slide(v, k) = sum % HashModulus
          BY <1>1, <3>1
        <4> HIDE DEF Slide, sum
        <4> QED
          BY <4>6, <4>7
      <3> QED
        BY <1>6, <3>1
    <2>2. step \in [1 .. i -> [Nat -> Nat]]
      BY <2>1
    <2>3. PICK f : Ascends(f, i, Nat, opening, step)
      <3> HIDE DEF step, opening
      <3>1. i \in Nat
        BY <1>1
      <3> QED
        BY <1>6, <2>2, <3>1, Ascent, Zenon
    <2>4. f \in [0 .. i -> Nat] /\ f[0] = opening /\ \A k \in 1 .. i : f[k] = step[k][f[k - 1]]
      BY <2>3 DEF Ascends
    <2>5. ASSUME NEW k \in 1 .. i PROVE f[k] = Slide(f[k - 1], k)
      <3>1. k - 1 \in 0 .. i /\ f[k - 1] \in Nat
        BY <1>1, <2>4
      <3> HIDE DEF Slide
      <3> QED
        BY <2>4, <3>1
    <2>6. ASSUME NEW k \in 0 .. i, k >= from
          PROVE  /\ k \in 1 .. i /\ k >= HashWindow + 1
                 /\ leaving(k) = Byte(data, k - HashWindow - 1)
                 /\ entering(k) = IF k + HashWindow <= end THEN Byte(data, k) ELSE 0
      BY <1>1, <2>6
    <2> HIDE DEF opening, leaving, entering
    <2>7. f = [k \in 0 .. i |->
                  IF k < from THEN opening
                  ELSE (Times(f[k - 1], entering(k)) + leaving(k) * MinusPower) % HashModulus]
      <3>1. ASSUME NEW k \in 0 .. i, k < from PROVE f[k] = opening
        <4>1. k = 0 \/ (k \in 1 .. i /\ Slide(f[k - 1], k) = opening)
          BY <1>1, <3>1
        <4> HIDE DEF Slide
        <4> QED
          BY <2>4, <2>5, <4>1
      <3>2. ASSUME NEW k \in 0 .. i, k >= from
            PROVE  f[k] = (Times(f[k - 1], entering(k)) + leaving(k) * MinusPower) % HashModulus
        <4>1. f[k] = Slide(f[k - 1], k) /\ ~(k < from)
          BY <1>1, <2>5, <2>6, <3>2
        <4> QED
          BY <2>6, <3>2, <4>1
      <3> QED
        BY <1>1, <2>4, <3>1, <3>2
    <2>8. slid = [k \in 0 .. i |->
                  IF k < from THEN opening
                  ELSE (Times(slid[k - 1], entering(k)) + leaving(k) * MinusPower) % HashModulus]
      BY <2>7 DEF opening
    <2> HIDE DEF slid
    <2>9. ASSUME NEW k \in 0 .. from - 1 PROVE slid[k] = opening
      BY <1>1, <2>8, <2>9
    <2>10. ASSUME NEW k \in from .. i PROVE slid[k] = Slide(slid[k - 1], k)
      <3>1. k \in 0 .. i /\ ~(k < from) /\ k >= from
        BY <1>1, <2>10
      <3>2. slid[k] = (Times(slid[k - 1], entering(k)) + leaving(k) * MinusPower) % HashModulus
        BY <2>8, <3>1
      <3> QED
        BY <2>6, <3>1, <3>2
    <2>11. ASSUME NEW k \in from .. i
           PROVE  slid[k] = (Times(slid[k - 1], IF k + HashWindow <= end THEN Byte(data, k) ELSE 0)
                             + Byte(data, k - HashWindow - 1) * MinusPower) % HashModulus
      <3>1. ~(k < from)
        BY <1>1, <2>11
      <3> QED
        BY <2>10, <3>1
    <2> QED
      BY <2>9, <2>11 DEF SlidesAs
  <1> QED
    BY <1>2, <1>5, <1>7

\* The part has the bytes of the whole from d on.
PartOf(part, whole, d) ==
    d + Len(part) <= Len(whole) /\ \A j \in 1 .. Len(part) : part[j] = whole[d + j]

HashesAlike(whole, part, d, from, end) ==
    \A i \in from .. end - 1 : HashAt(whole, d + from, d + end, d + i) = HashAt(part, from, end, i)

\* The hash depends on the bytes from the one before the window on, and not on where they are.
LEMMA HashShift ==
    ASSUME NEW whole \in Seq(Nat), NEW part \in Seq(Nat), NEW d \in Nat, PartOf(part, whole, d),
           NEW from \in Nat, NEW end \in Nat, HashWindow < from, end <= Len(part)
    PROVE  HashesAlike(whole, part, d, from, end)
  <1> SUFFICES ASSUME NEW i \in from .. end - 1
               PROVE  HashAt(whole, d + from, d + end, d + i) = HashAt(part, from, end, i)
    BY DEF HashesAlike
  <1>1. HashWindow \in Nat \ {0} /\ i \in Nat /\ Len(part) \in Nat /\ Len(whole) \in Nat
    <2>1. HashWindow \in Nat \ {0}
      BY ChunkerAssumption
    <2>2. i \in Nat
      OBVIOUS
    <2> QED
      BY <2>1, <2>2, LenProperties
  <1>2. PICK f1, s1 : /\ OpensWith(whole, d + from, f1)
                      /\ SlidesAs(whole, d + from, d + end, f1[HashWindow], s1, d + i)
                      /\ HashAt(whole, d + from, d + end, d + i) = s1[d + i]
    <2>1. /\ d + from \in Nat /\ d + end \in Nat /\ d + i \in d + from .. d + end - 1
          /\ HashWindow < d + from /\ d + end <= Len(whole)
      BY <1>1 DEF PartOf
    <2> DEFINE first == d + from
               last == d + end
               at == d + i
    <2> HIDE DEF first, last, at
    <2>2. first \in Nat /\ last \in Nat /\ at \in first .. last - 1 /\ HashWindow < first /\ last <= Len(whole)
      BY <2>1 DEF first, last, at
    <2>3. \E f1, s1 : /\ OpensWith(whole, first, f1)
                      /\ SlidesAs(whole, first, last, f1[HashWindow], s1, at)
                      /\ HashAt(whole, first, last, at) = s1[at]
      BY <2>2, HashRule
    <2> QED
      BY <2>3 DEF first, last, at
  <1>3. PICK f2, s2 : /\ OpensWith(part, from, f2)
                      /\ SlidesAs(part, from, end, f2[HashWindow], s2, i)
                      /\ HashAt(part, from, end, i) = s2[i]
    BY HashRule
  <1>4. ASSUME NEW j \in 0 .. Len(part) - 1 PROVE Byte(whole, d + j) = Byte(part, j)
    <2>1. j + 1 \in 1 .. Len(part) /\ d + (j + 1) = (d + j) + 1
      BY <1>1
    <2> QED
      BY <2>1, SMTT(30) DEF Byte, PartOf
  <1>5. f1[HashWindow] = f2[HashWindow]
    <2> DEFINE S == {k \in 0 .. HashWindow : f1[k] = f2[k]}
    <2>1. 0 \in S
      BY <1>1, <1>2, <1>3 DEF OpensWith
    <2>2. ASSUME NEW k \in 0 .. HashWindow - 1, k \in S PROVE k + 1 \in S
      <3>1. /\ k + 1 \in 1 .. HashWindow /\ (k + 1) - 1 = k /\ f1[k] = f2[k]
            /\ from - HashWindow + (k + 1) - 1 \in 0 .. Len(part) - 1
            /\ (d + from) - HashWindow + (k + 1) - 1 = d + (from - HashWindow + (k + 1) - 1)
        <4>1. k \in Nat /\ k < HashWindow /\ from <= Len(part)
          BY <1>1
        <4>2. f1[k] = f2[k]
          BY <2>2
        <4>3. from - HashWindow + (k + 1) - 1 = from - HashWindow + k
          BY <1>1, <4>1
        <4>4. from - HashWindow + k \in 0 .. Len(part) - 1
          BY <1>1, <4>1
        <4>5. (d + from) - HashWindow + (k + 1) - 1 = d + (from - HashWindow + (k + 1) - 1)
          BY <1>1, <4>1
        <4>6. k + 1 \in 1 .. HashWindow /\ (k + 1) - 1 = k
          BY <1>1, <4>1
        <4>7. from - HashWindow + (k + 1) - 1 \in 0 .. Len(part) - 1
          BY <4>3, <4>4
        <4> QED
          BY <4>2, <4>5, <4>6, <4>7
      <3>2. /\ f1[k + 1] = Times(f1[k], Byte(whole, (d + from) - HashWindow + (k + 1) - 1))
            /\ f2[k + 1] = Times(f2[k], Byte(part, from - HashWindow + (k + 1) - 1))
        BY <1>2, <1>3, <3>1 DEF OpensWith
      <3>3. Byte(whole, (d + from) - HashWindow + (k + 1) - 1) = Byte(part, from - HashWindow + (k + 1) - 1)
        BY <1>4, <3>1
      <3> QED
        BY <3>1, <3>2, <3>3
    <2> HIDE DEF S
    <2>3. 0 .. HashWindow \subseteq S
      BY <1>1, <2>1, <2>2, UpTo
    <2> QED
      BY <1>1, <2>3 DEF S
  <1>6. s1[d + i] = s2[i]
    <2> DEFINE S == {k \in 0 .. i : k >= from - 1 => s1[d + k] = s2[k]}
    <2>1. ASSUME NEW k \in 0 .. i, k <= from - 1 PROVE k \in S
      <3>1. k \in 0 .. from - 1 /\ d + k \in 0 .. (d + from) - 1
        BY <1>1, <2>1
      <3>2. s1[d + k] = f1[HashWindow] /\ s2[k] = f2[HashWindow]
        BY <1>2, <1>3, <3>1 DEF SlidesAs
      <3> QED
        BY <1>5, <3>2
    <2>2. ASSUME NEW k \in 0 .. i - 1, k \in S PROVE k + 1 \in S
      <3>1. CASE k + 1 <= from - 1
        <4>1. k + 1 \in 0 .. i
          BY <1>1
        <4> HIDE DEF S
        <4> QED
          BY <2>1, <3>1, <4>1
      <3>2. CASE k + 1 >= from
        <4>1. /\ k + 1 \in from .. i /\ d + (k + 1) \in d + from .. d + i /\ (k + 1) - 1 = k
              /\ (d + (k + 1)) - 1 = d + k /\ s1[d + k] = s2[k] /\ k + 1 \in 0 .. i
              /\ k + 1 \in 0 .. Len(part) - 1 /\ (k + 1) - HashWindow - 1 \in 0 .. Len(part) - 1
              /\ (d + (k + 1)) - HashWindow - 1 = d + ((k + 1) - HashWindow - 1)
              /\ (d + (k + 1)) + HashWindow <= d + end <=> (k + 1) + HashWindow <= end
          BY <1>1, <2>2, <3>2
        <4>2. /\ Byte(whole, d + (k + 1)) = Byte(part, k + 1)
              /\ Byte(whole, (d + (k + 1)) - HashWindow - 1) = Byte(part, (k + 1) - HashWindow - 1)
          BY <1>4, <4>1
        <4>3. s1[d + (k + 1)] =
                (Times(s1[d + k],
                       IF (d + (k + 1)) + HashWindow <= d + end THEN Byte(whole, d + (k + 1)) ELSE 0)
                 + Byte(whole, (d + (k + 1)) - HashWindow - 1) * MinusPower) % HashModulus
          BY <1>2, <4>1 DEF SlidesAs
        <4>4. s2[k + 1] =
                (Times(s2[k], IF (k + 1) + HashWindow <= end THEN Byte(part, k + 1) ELSE 0)
                 + Byte(part, (k + 1) - HashWindow - 1) * MinusPower) % HashModulus
          BY <1>3, <4>1 DEF SlidesAs
        <4>5. s1[d + (k + 1)] = s2[k + 1]
          BY <4>1, <4>2, <4>3, <4>4
        <4> QED
          BY <4>1, <4>5
      <3>3. k + 1 <= from - 1 \/ k + 1 >= from
        BY <1>1
      <3> HIDE DEF S
      <3> QED
        BY <3>1, <3>2, <3>3
    <2>3. 0 \in S
      BY <1>1, <2>1
    <2> HIDE DEF S
    <2>4. 0 .. i \subseteq S
      BY <1>1, <2>2, <2>3, UpTo
    <2>5. i \in S
      BY <1>1, <2>4
    <2> QED
      BY <1>1, <2>5 DEF S
  <1> QED
    BY <1>2, <1>3, <1>6

\* A boundary depends neither on where the chunk begins nor on the bytes behind the search: the
\* part of a file that begins with the chunk and has all of the search is cut as the file is.
LEMMA BoundaryShift ==
    ASSUME NEW whole \in Seq(Nat), NEW part \in Seq(Nat), NEW d \in Nat, PartOf(part, whole, d),
           NEW end \in 1 .. Len(part), end = MaxChunk \/ d + end = Len(whole)
    PROVE  FindBoundary(whole, d, Len(whole)) = d + FindBoundary(part, 0, end)
  <1>1. /\ MinChunk \in Nat \ {0} /\ MaxChunk \in Nat \ {0} /\ MinChunk < MaxChunk
        /\ HashWindow \in Nat /\ HashWindow < MinChunk /\ Len(part) \in Nat /\ Len(whole) \in Nat
    BY ChunkerAssumption, LenProperties
  <1> DEFINE to == Least(MaxChunk, end)
             cuts == {i \in MinChunk .. to - 1 : HashAt(part, MinChunk, to, i) % AvgChunk = 0}
             wholeTo == Least(d + MaxChunk, Len(whole))
             wholeCuts == {i \in d + MinChunk .. wholeTo - 1 :
                               HashAt(whole, d + MinChunk, wholeTo, i) % AvgChunk = 0}
  <1>2. FindBoundary(part, 0, end) =
            IF MinChunk >= end THEN end ELSE IF cuts = {} THEN to ELSE Min(cuts) + 1
    BY <1>1 DEF FindBoundary
  <1>3. FindBoundary(whole, d, Len(whole)) =
            IF d + MinChunk >= Len(whole) THEN Len(whole)
            ELSE IF wholeCuts = {} THEN wholeTo ELSE Min(wholeCuts) + 1
    BY DEF FindBoundary
  <1> HIDE DEF to, wholeTo, cuts, wholeCuts
  <1>4. CASE MinChunk >= end
    <2>1. d + end = Len(whole) /\ d + MinChunk >= Len(whole)
      BY <1>1, <1>4
    <2> QED
      BY <1>2, <1>3, <1>4, <2>1
  <1>5. CASE MinChunk < end
    <2>1. to \in Nat /\ to <= Len(part) /\ wholeTo = d + to /\ d + MinChunk < Len(whole) /\ to > MinChunk
      <3>1. end = MaxChunk \/ d + end = Len(whole)
        OBVIOUS
      <3>2. end \in Nat /\ end <= Len(part) /\ d + end <= Len(whole)
        BY <1>1, SMTT(30) DEF PartOf
      <3>3. to = IF MaxChunk < end THEN MaxChunk ELSE end
        BY DEF Least, to
      <3>4. wholeTo = IF d + MaxChunk < Len(whole) THEN d + MaxChunk ELSE Len(whole)
        BY DEF Least, wholeTo
      <3>5. to \in Nat /\ to <= Len(part)
        BY <1>1, <3>2, <3>3
      <3>6. wholeTo = d + to
        <4>1. CASE MaxChunk < end
          <5>1. d + MaxChunk < Len(whole)
            BY <1>1, <3>2, <4>1
          <5> QED
            BY <3>3, <3>4, <4>1, <5>1
        <4>2. CASE ~(MaxChunk < end)
          <5>1. d + end <= d + MaxChunk
            BY <1>1, <3>2, <4>2
          <5>2. to = end
            BY <3>3, <4>2
          <5>3. CASE d + MaxChunk < Len(whole)
            <6>1. end = MaxChunk
              BY <1>1, <3>1, <5>1, <5>3
            <6> QED
              BY <3>4, <5>2, <5>3, <6>1
          <5>4. CASE ~(d + MaxChunk < Len(whole))
            <6>1. wholeTo = Len(whole)
              BY <3>4, <5>4
            <6>2. d + end = Len(whole)
              BY <1>1, <3>1, <3>2, <5>1, <5>4
            <6> QED
              BY <5>2, <6>1, <6>2
          <5> QED
            BY <5>3, <5>4
        <4> QED
          BY <4>1, <4>2
      <3>7. d + MinChunk < Len(whole) /\ to > MinChunk
        BY <1>1, <1>5, <3>1, <3>2, <3>3
      <3> QED
        BY <3>5, <3>6, <3>7
    <2>2. ASSUME NEW i \in MinChunk .. to - 1
          PROVE  HashAt(whole, d + MinChunk, wholeTo, d + i) = HashAt(part, MinChunk, to, i)
      <3>1. MinChunk \in Nat /\ HashWindow < MinChunk /\ to \in Nat /\ to <= Len(part)
        BY <1>1, <2>1
      <3>2. HashesAlike(whole, part, d, MinChunk, to)
        BY <3>1, HashShift
      <3> QED
        BY <2>1, <3>2 DEF HashesAlike
    <2> USE DEF cuts, wholeCuts
    <2>3. \A i \in cuts : d + i \in wholeCuts
      <3> SUFFICES ASSUME NEW i \in cuts PROVE d + i \in wholeCuts
        OBVIOUS
      <3>1. d + i \in d + MinChunk .. wholeTo - 1
        BY <1>1, <2>1
      <3> QED
        BY <2>2, <3>1
    <2>4. \A i \in wholeCuts : i - d \in cuts /\ i = d + (i - d)
      <3> SUFFICES ASSUME NEW i \in wholeCuts PROVE i - d \in cuts /\ i = d + (i - d)
        OBVIOUS
      <3>1. i - d \in MinChunk .. to - 1 /\ i = d + (i - d)
        BY <1>1, <2>1
      <3>2. HashAt(whole, d + MinChunk, wholeTo, d + (i - d)) = HashAt(part, MinChunk, to, i - d)
        BY <2>2, <3>1
      <3> QED
        BY <3>1, <3>2
    <2>5. cuts \in SUBSET Nat /\ wholeCuts \in SUBSET Nat
      <3>1. MinChunk .. to - 1 \subseteq Nat /\ d + MinChunk .. wholeTo - 1 \subseteq Nat
        BY <1>1, <2>1
      <3> QED
        BY <3>1
    <2> HIDE DEF cuts, wholeCuts
    <2>6. CASE cuts = {}
      <3>1. wholeCuts = {}
        BY <2>4, <2>6
      <3> QED
        BY <1>1, <1>2, <1>3, <1>5, <2>1, <2>6, <3>1
    <2>7. CASE cuts # {}
      <3>1. PICK m \in cuts : \A n \in cuts : m <= n
        BY <2>5, <2>7, LeastNumber
      <3>2. m \in Nat /\ d + m \in wholeCuts /\ wholeCuts # {}
        BY <2>3, <2>5, <3>1
      <3>3. ASSUME NEW x \in cuts, \A n \in cuts : x <= n PROVE x = m
        BY <2>5, <3>1, <3>3
      <3>4. Min(cuts) = m
        BY <3>1, <3>3 DEF Min
      <3>5. \A n \in wholeCuts : d + m <= n
        BY <2>4, <2>5, <3>1
      <3>6. ASSUME NEW x \in wholeCuts, \A n \in wholeCuts : x <= n PROVE x = d + m
        BY <2>5, <3>2, <3>5, <3>6
      <3>7. Min(wholeCuts) = d + m
        BY <3>2, <3>5, <3>6 DEF Min
      <3>8. FindBoundary(part, 0, end) = m + 1
        BY <1>1, <1>2, <1>5, <2>7, <3>4
      <3>9. FindBoundary(whole, d, Len(whole)) = d + m + 1
        BY <1>1, <1>3, <2>1, <3>2, <3>7
      <3> QED
        BY <3>2, <3>8, <3>9
    <2> QED
      BY <2>6, <2>7
  <1> QED
    BY <1>1, <1>4, <1>5

\* A chunk is never empty, never larger than the largest size nor past the end of the data, and
\* smaller than the smallest size only at that end.
THEOREM BoundaryWithin ==
    ASSUME NEW data, NEW start \in Nat, NEW end \in Nat, start < end
    PROVE  LET boundary == FindBoundary(data, start, end)
           IN  /\ boundary \in start + 1 .. end /\ boundary - start <= MaxChunk
               /\ boundary - start < MinChunk => boundary = end
  <1> DEFINE from == start + MinChunk
             to == Least(start + MaxChunk, end)
             cuts == {i \in from .. to - 1 : HashAt(data, from, to, i) % AvgChunk = 0}
             boundary == FindBoundary(data, start, end)
  <1>1. MinChunk \in Nat \ {0} /\ MaxChunk \in Nat \ {0} /\ MinChunk < MaxChunk
    BY ChunkerAssumption
  <1>2. boundary = IF from >= end THEN end ELSE IF cuts = {} THEN to ELSE Min(cuts) + 1
    BY DEF FindBoundary
  <1>3. from \in Nat /\ to \in Nat /\ to <= end /\ to <= start + MaxChunk /\ to \in {start + MaxChunk, end}
    BY <1>1 DEF Least
  <1>4. CASE from >= end
    BY <1>1, <1>2, <1>4
  <1>5. CASE from < end /\ cuts = {}
    BY <1>1, <1>2, <1>3, <1>5
  <1>6. CASE from < end /\ cuts # {}
    <2>1. cuts \subseteq from .. to - 1 /\ cuts # {}
      BY <1>6
    <2>2. boundary = Min(cuts) + 1
      BY <1>2, <1>3, <1>6
    <2> HIDE DEF cuts, boundary
    <2>3. cuts \subseteq Nat
      BY <1>3, <2>1
    <2>4. \E m \in cuts : \A n \in cuts : m <= n
      BY <2>1, <2>3, LeastNumber
    <2>5. Min(cuts) \in cuts
      BY <2>4 DEF Min
    <2>6. Min(cuts) \in from .. to - 1
      BY <2>1, <2>5
    <2> QED
      BY <1>1, <1>3, <2>2, <2>6 DEF boundary
  <1> QED
    BY <1>1, <1>4, <1>5, <1>6

\* Where a chunk begins, and its size.
ChunkAt == Nat \X Nat

\* The chunks lie one behind the other from d to e, with the sizes they may have.
GoodSize(chunk) ==
    /\ chunk[2] \in 1 .. MaxChunk
    /\ chunk[2] < MinChunk => chunk[1] + chunk[2] = Len(content)

Chain(chunks, d, e) ==
    /\ chunks \in Seq(ChunkAt) /\ EndOf(chunks, d) = e
    /\ \A i \in 1 .. Len(chunks) :
          /\ GoodSize(chunks[i])
          /\ chunks[i][1] = IF i = 1 THEN d ELSE chunks[i - 1][1] + chunks[i - 1][2]

\* One chunk is a chain.
LEMMA ChainOne ==
    ASSUME NEW d \in Nat, NEW size \in Nat, GoodSize(<<d, size>>)
    PROVE  Chain(<<<<d, size>>>>, d, d + size)
  <1> DEFINE one == <<<<d, size>>>>
  <1>1. one \in Seq(ChunkAt) /\ Len(one) = 1 /\ one[1] = <<d, size>> /\ one # <<>>
    BY DEF ChunkAt
  <1> HIDE DEF one
  <1>2. EndOf(one, d) = d + size
    BY <1>1 DEF EndOf, Last
  <1>3. ASSUME NEW i \in 1 .. Len(one) PROVE i = 1 /\ GoodSize(one[i]) /\ one[i][1] = d
    BY <1>1
  <1>4. Chain(one, d, d + size)
    BY <1>1, <1>2, <1>3 DEF Chain
  <1> QED
    BY <1>4 DEF one

\* A chain behind a chain is one.
LEMMA ChainJoin ==
    ASSUME NEW a, NEW b, NEW d \in Nat, NEW m \in Nat, NEW e \in Nat, Chain(a, d, m), Chain(b, m, e)
    PROVE  Chain(a \o b, d, e)
  <1>1. a \in Seq(ChunkAt) /\ b \in Seq(ChunkAt) /\ EndOf(a, d) = m /\ EndOf(b, m) = e
    BY DEF Chain
  <1>2. CASE a = <<>>
    <2>1. d = m /\ a \o b = b
      BY <1>1, <1>2 DEF EndOf
    <2> QED
      BY <2>1
  <1>3. CASE b = <<>>
    <2>1. m = e /\ a \o b = a
      BY <1>1, <1>3 DEF EndOf
    <2> QED
      BY <2>1
  <1>4. CASE a # <<>> /\ b # <<>>
    <2> DEFINE all == a \o b
    <2>1. /\ Len(a) \in Nat \ {0} /\ Len(b) \in Nat \ {0}
          /\ a[Len(a)][1] + a[Len(a)][2] = m /\ b[Len(b)][1] + b[Len(b)][2] = e
      BY <1>1, <1>4 DEF EndOf, Last
    <2>2. all \in Seq(ChunkAt) /\ Len(all) = Len(a) + Len(b)
      BY <1>1
    <2>3. \A i \in 1 .. Len(a) : all[i] = a[i]
      BY <1>1
    <2>4. \A i \in 1 .. Len(b) : all[Len(a) + i] = b[i]
      BY <1>1
    <2> HIDE DEF all
    <2>5. Len(b) \in 1 .. Len(b) /\ Len(a) \in 1 .. Len(a)
      BY <2>1
    <2>6. all # <<>> /\ all[Len(all)] = b[Len(b)]
      BY <2>1, <2>2, <2>4, <2>5
    <2>7. EndOf(all, d) = e
      BY <2>1, <2>6 DEF EndOf, Last
    <2>8. ASSUME NEW i \in 1 .. Len(all)
          PROVE  /\ GoodSize(all[i])
                 /\ all[i][1] = IF i = 1 THEN d ELSE all[i - 1][1] + all[i - 1][2]
      <3>1. CASE i \in 1 .. Len(a)
        <4>1. all[i] = a[i] /\ (i # 1 => all[i - 1] = a[i - 1])
          BY <2>1, <2>3, <3>1
        <4> QED
          BY <3>1, <4>1 DEF Chain
      <3>2. CASE i = Len(a) + 1
        <4>1. all[i] = b[1] /\ i # 1 /\ all[i - 1] = a[Len(a)] /\ 1 \in 1 .. Len(b)
          BY <2>1, <2>3, <2>4, <2>5, <3>2
        <4>2. GoodSize(b[1]) /\ b[1][1] = m
          BY <4>1 DEF Chain
        <4> QED
          BY <2>1, <4>1, <4>2
      <3>3. CASE i > Len(a) + 1
        <4> DEFINE k == i - Len(a)
        <4>1. /\ k \in 1 .. Len(b) /\ k # 1 /\ k - 1 \in 1 .. Len(b)
              /\ Len(a) + k = i /\ Len(a) + (k - 1) = i - 1 /\ i # 1
          <5>1. i \in Nat /\ i <= Len(a) + Len(b) /\ Len(a) \in Nat \ {0} /\ Len(b) \in Nat
            BY <2>1, <2>2
          <5>2. k > 1 /\ k <= Len(b) /\ k \in Nat /\ Len(a) + k = i
            BY <3>3, <5>1
          <5> HIDE DEF k
          <5> QED
            BY <5>1, <5>2
        <4> HIDE DEF k
        <4>2. all[i] = b[k] /\ all[i - 1] = b[k - 1]
          BY <2>4, <4>1
        <4>3. GoodSize(b[k]) /\ b[k][1] = b[k - 1][1] + b[k - 1][2]
          BY <4>1 DEF Chain
        <4> QED
          BY <4>1, <4>2, <4>3
      <3> QED
        BY <2>1, <2>2, <3>1, <3>2, <3>3
    <2>9. Chain(all, d, e)
      BY <2>2, <2>7, <2>8 DEF Chain
    <2> QED
      BY <2>9 DEF all
  <1> QED
    BY <1>2, <1>3, <1>4

\* chunk_data cuts at a boundary and goes on behind it.
LEMMA ChunksFromRule ==
    ASSUME NEW data \in Seq(Nat)
    PROVE  \A s \in 0 .. Len(data) :
              /\ ChunksFrom(data, s) =
                    IF s = Len(data) THEN <<>>
                    ELSE LET e == FindBoundary(data, s, Len(data))
                         IN  <<<<s, e - s>>>> \o ChunksFrom(data, e)
              /\ ChunksFrom(data, s) \in Seq(ChunkAt)
  <1> DEFINE N == Len(data)
             V == Seq(ChunkAt)
             cutAt(s) == FindBoundary(data, s, N)
             from[s \in 0 .. Len(data)] ==
                 IF s = Len(data) THEN <<>>
                 ELSE LET e == FindBoundary(data, s, Len(data)) IN <<<<s, e - s>>>> \o from[e]
             stop == {N}
             next == [s \in 0 .. N |-> cutAt(s)]
             step == [s \in 0 .. N |->
                         [v \in V |-> IF s = N THEN v ELSE <<<<s, cutAt(s) - s>>>> \o v]]
  <1>1. N \in Nat
    BY LenProperties
  <1>2. ASSUME NEW s \in (0 .. N) \ {N} PROVE cutAt(s) \in s + 1 .. N /\ cutAt(s) - s \in Nat
    <2>1. s \in Nat /\ N \in Nat /\ s < N
      BY <1>1
    <2> HIDE DEF N
    <2>2. cutAt(s) \in s + 1 .. N
      BY <2>1, BoundaryWithin
    <2> QED
      BY <2>1, <2>2
  <1>3. ChunksFrom(data, 0) = from[0] /\ \A s : ChunksFrom(data, s) = from[s]
    BY DEF ChunksFrom
  <1> HIDE DEF N, cutAt
  <1>4. step \in [0 .. N -> [V -> V]]
    <2>1. ASSUME NEW s \in 0 .. N, NEW v \in V, s # N PROVE <<<<s, cutAt(s) - s>>>> \o v \in V
      <3>1. <<s, cutAt(s) - s>> \in ChunkAt
        BY <1>1, <1>2, <2>1 DEF ChunkAt
      <3>2. <<<<s, cutAt(s) - s>>>> \in V
        BY <3>1
      <3> QED
        BY <3>2
    <2>2. ASSUME NEW s \in 0 .. N
          PROVE  [v \in V |-> IF s = N THEN v ELSE <<<<s, cutAt(s) - s>>>> \o v] \in [V -> V]
      BY <2>1
    <2> QED
      BY <2>2
  <1>5. \A s \in (0 .. N) \ stop : next[s] \in s + 1 .. N
    BY <1>2
  <1>6. <<>> \in V
    OBVIOUS
  <1>7. PICK f : Descends(f, N, V, <<>>, stop, next, step)
    <2> HIDE DEF step, next, stop, V
    <2> QED
      BY <1>1, <1>4, <1>5, <1>6, Descent, Zenon
  <1>8. f \in [0 .. N -> V] /\ \A s \in 0 .. N : f[s] = IF s = N THEN <<>> ELSE step[s][f[next[s]]]
    BY <1>7 DEF Descends
  <1>9. ASSUME NEW s \in 0 .. N, s # N PROVE f[s] = <<<<s, cutAt(s) - s>>>> \o f[cutAt(s)]
    <2>1. cutAt(s) \in 0 .. N /\ next[s] = cutAt(s)
      BY <1>1, <1>2, <1>9
    <2>2. f[cutAt(s)] \in V
      BY <1>8, <2>1
    <2> HIDE DEF V
    <2> QED
      BY <1>8, <1>9, <2>1, <2>2
  <1>10. f = [s \in 0 .. N |-> IF s = N THEN <<>> ELSE <<<<s, cutAt(s) - s>>>> \o f[cutAt(s)]]
    <2> HIDE DEF V
    <2> QED
      BY <1>8, <1>9
  <1>11. from = [s \in 0 .. N |-> IF s = N THEN <<>> ELSE <<<<s, cutAt(s) - s>>>> \o from[cutAt(s)]]
    BY <1>10 DEF N, cutAt
  <1> HIDE DEF from
  <1>12. ASSUME NEW s \in 0 .. N
         PROVE  from[s] = IF s = N THEN <<>> ELSE <<<<s, cutAt(s) - s>>>> \o from[cutAt(s)]
    BY <1>11
  <1>13. 0 .. N \subseteq {s \in 0 .. N : from[s] \in V}
    <2> DEFINE S == {s \in 0 .. N : from[s] \in V}
    <2>1. ASSUME NEW s \in 0 .. N, s + 1 .. N \subseteq S PROVE s \in S
      <3>1. CASE s = N
        BY <1>6, <1>12, <3>1
      <3>2. CASE s # N
        <4>1. cutAt(s) \in S /\ <<<<s, cutAt(s) - s>>>> \in Seq(ChunkAt)
          BY <1>2, <2>1, <3>2 DEF ChunkAt
        <4>2. from[cutAt(s)] \in Seq(ChunkAt)
          BY <4>1
        <4>3. <<<<s, cutAt(s) - s>>>> \o from[cutAt(s)] \in Seq(ChunkAt)
          BY <4>1, <4>2
        <4> QED
          BY <1>12, <3>2, <4>3
      <3> QED
        BY <3>1, <3>2
    <2> HIDE DEF S
    <2>2. 0 .. N \subseteq S
      BY <1>1, <2>1, DownTo
    <2> QED
      BY <2>2 DEF S
  <1> SUFFICES ASSUME NEW s \in 0 .. N
               PROVE  /\ ChunksFrom(data, s) =
                            IF s = N THEN <<>>
                            ELSE <<<<s, cutAt(s) - s>>>> \o ChunksFrom(data, cutAt(s))
                      /\ ChunksFrom(data, s) \in V
    BY DEF N, cutAt
  <1> QED
    BY <1>3, <1>12, <1>13

-----------------------------------------------------------------------------
\* The size of the chunk that the reader cuts from s on, of `room` bytes.
SizeAt(part, s, room) == FindBoundary(SubSeq(part, s + 1, Len(part)), 0, room)

\* The reader has the room to cut at s: a full window, or what is left of the file.
Roomy(part, d, s, room) == room \in 1 .. Len(part) - s /\ (room = MaxChunk \/ d + s + room = Len(content))

\* What the reader cuts from a part of the file is what chunk_data cuts from the file there.
LEMMA CutStep ==
    ASSUME content \in Seq(Nat), NEW part \in Seq(Nat), NEW d \in Nat, PartOf(part, content, d),
           NEW s \in 0 .. Len(part), NEW room, Roomy(part, d, s, room)
    PROVE  /\ SizeAt(part, s, room) \in 1 .. Len(part) - s
           /\ Chain(<<<<d + s, SizeAt(part, s, room)>>>>, d + s, d + s + SizeAt(part, s, room))
           /\ ChunksFrom(content, d + s) =
                 <<<<d + s, SizeAt(part, s, room)>>>>
                 \o ChunksFrom(content, d + s + SizeAt(part, s, room))
  <1> DEFINE rest == SubSeq(part, s + 1, Len(part))
             size == SizeAt(part, s, room)
             at == d + s
             N == Len(content)
  <1>1. /\ Len(part) \in Nat /\ N \in Nat /\ s \in Nat /\ room \in Nat \ {0} /\ room <= Len(part) - s
        /\ at \in Nat /\ at + room <= N /\ at < N
    <2>1. Len(part) \in Nat /\ N \in Nat /\ d + Len(part) <= N
      BY LenProperties DEF PartOf
    <2> HIDE DEF N
    <2>2. room \in Nat \ {0} /\ room <= Len(part) - s /\ s \in Nat
      BY <2>1 DEF Roomy
    <2> QED
      BY <2>1, <2>2
  <1>2. rest \in Seq(Nat) /\ Len(rest) = Len(part) - s /\ PartOf(rest, content, at)
    <2>1. s + 1 \in 1 .. Len(part) + 1 /\ s + 1 \in Nat
      BY <1>1
    <2>2. rest \in Seq(Nat) /\ Len(rest) = Len(part) - s /\ \A j \in 1 .. Len(part) - s : rest[j] = part[s + j]
      <3>1. ASSUME NEW i \in s + 1 .. Len(part) PROVE part[i] \in Nat
        <4>1. i \in 1 .. Len(part)
          BY <1>1, <2>1
        <4> QED
          BY <4>1, ElementOfSeq
      <3>2. /\ rest \in Seq(Nat)
            /\ Len(rest) = IF s + 1 <= Len(part) THEN Len(part) - (s + 1) + 1 ELSE 0
            /\ \A i \in 1 .. Len(part) - (s + 1) + 1 : rest[i] = part[(s + 1) + i - 1]
        <4>1. s + 1 \in Int /\ Len(part) \in Int /\ \A i \in s + 1 .. Len(part) : part[i] \in Nat
          BY <1>1, <3>1
        <4> QED
          BY <3>1, <4>1, SubSeqProperties
      <3> HIDE DEF rest
      <3>3. Len(rest) = Len(part) - s
        BY <1>1, <3>2
      <3>4. ASSUME NEW j \in 1 .. Len(part) - s PROVE rest[j] = part[s + j]
        <4>1. j \in 1 .. Len(part) - (s + 1) + 1 /\ (s + 1) + j - 1 = s + j
          BY <1>1
        <4> QED
          BY <3>2, <4>1
      <3> QED
        BY <3>2, <3>3, <3>4
    <2>3. ASSUME NEW j \in 1 .. Len(part) - s PROVE part[s + j] = content[at + j]
      <3>1. s + j \in 1 .. Len(part) /\ d + (s + j) = at + j
        BY <1>1
      <3> QED
        BY <3>1 DEF PartOf
    <2>4. at + (Len(part) - s) <= N
      BY <1>1 DEF PartOf
    <2> HIDE DEF rest, at, N
    <2> QED
      BY <2>2, <2>3, <2>4 DEF PartOf, N
  <1>3. size = FindBoundary(rest, 0, room) /\ room \in 1 .. Len(rest) /\ (room = MaxChunk \/ at + room = N)
    BY <1>1, <1>2 DEF SizeAt, Roomy
  <1> HIDE DEF rest, size, at
  <1>4. size \in 1 .. room
    <2>1. 0 < room
      BY <1>1
    <2>2. FindBoundary(rest, 0, room) \in 0 + 1 .. room
      BY <1>1, <2>1, BoundaryWithin
    <2> QED
      BY <1>3, <2>2
  <1>5. FindBoundary(content, at, N) = at + size
    BY <1>1, <1>2, <1>3, BoundaryShift, ZenonT(40)
  <1>6. ChunksFrom(content, at) = <<<<at, size>>>> \o ChunksFrom(content, at + size)
    <2>1. at \in 0 .. N /\ at # N
      BY <1>1
    <2>2. ChunksFrom(content, at) = LET e == FindBoundary(content, at, N)
                                    IN  <<<<at, e - at>>>> \o ChunksFrom(content, e)
      BY <2>1, ChunksFromRule
    <2>3. (at + size) - at = size
      BY <1>1, <1>4
    <2> QED
      BY <1>5, <2>2, <2>3
  <1>7. Chain(<<<<at, size>>>>, at, at + size)
    <2>1. /\ at + size \in at + 1 .. N /\ (at + size) - at <= MaxChunk
          /\ (at + size) - at < MinChunk => at + size = N
      BY <1>1, <1>5, BoundaryWithin
    <2>2. size \in Nat /\ (at + size) - at = size /\ MaxChunk \in Nat
      BY <1>1, <1>4, ChunkerAssumption
    <2>3. GoodSize(<<at, size>>)
      BY <1>4, <2>1, <2>2 DEF GoodSize
    <2> QED
      BY <1>1, <2>2, <2>3, ChainOne
  <1>8. size \in 1 .. Len(part) - s
    BY <1>1, <1>4
  <1> QED
    BY <1>6, <1>7, <1>8 DEF at, size

\* The reader's loop over a part of the file: it ends where it stops.
Loop(part, d, stop, room, f) ==
    /\ f \in [0 .. Len(part) -> Seq(ChunkAt)]
    /\ \A s \in 0 .. Len(part) :
          f[s] = IF s \in stop THEN <<>>
                 ELSE <<<<d + s, SizeAt(part, s, room[s])>>>> \o f[s + SizeAt(part, s, room[s])]

Rooms(part, d, stop, room) == \A s \in (0 .. Len(part)) \ stop : Roomy(part, d, s, room[s])

\* The chunks are the ones of chunk_data, from d up to a place where the loop stops.
CutsTo(part, d, stop, chunks) ==
    \E t \in stop : /\ t \in 0 .. Len(part) /\ Chain(chunks, d, d + t)
                    /\ ChunksFrom(content, d) = chunks \o ChunksFrom(content, d + t)

\* There is such a loop.
LEMMA LoopIs ==
    ASSUME content \in Seq(Nat), NEW part \in Seq(Nat), NEW d \in Nat, PartOf(part, content, d),
           NEW stop, NEW room, Rooms(part, d, stop, room)
    PROVE  \E f : Loop(part, d, stop, room, f)
  <1> DEFINE N == Len(part)
             V == Seq(ChunkAt)
             size(s) == SizeAt(part, s, room[s])
             next == [s \in 0 .. N |-> s + size(s)]
             step == [s \in 0 .. N |->
                         [v \in V |-> IF s \in stop THEN v ELSE <<<<d + s, size(s)>>>> \o v]]
  <1>1. N \in Nat
    BY LenProperties
  <1>2. ASSUME NEW s \in (0 .. N) \ stop PROVE size(s) \in 1 .. N - s /\ size(s) \in Nat /\ s \in Nat
    <2>1. Roomy(part, d, s, room[s]) /\ s \in 0 .. Len(part)
      BY DEF Rooms
    <2> DEFINE r == room[s]
    <2>2. Roomy(part, d, s, r)
      BY <2>1
    <2> HIDE DEF r
    <2>3. SizeAt(part, s, r) \in 1 .. Len(part) - s
      BY <2>1, <2>2, CutStep
    <2>4. size(s) \in 1 .. N - s
      BY <2>3 DEF r
    <2> HIDE DEF size, N
    <2> QED
      BY <1>1, <2>4
  <1> HIDE DEF N, size
  <1>3. step \in [0 .. N -> [V -> V]]
    <2>1. ASSUME NEW s \in 0 .. N, NEW v \in V, s \notin stop PROVE <<<<d + s, size(s)>>>> \o v \in V
      <3>1. <<d + s, size(s)>> \in ChunkAt
        BY <1>1, <1>2, <2>1 DEF ChunkAt
      <3>2. <<<<d + s, size(s)>>>> \in V
        BY <3>1
      <3> QED
        BY <3>2
    <2>2. ASSUME NEW s \in 0 .. N
          PROVE  [v \in V |-> IF s \in stop THEN v ELSE <<<<d + s, size(s)>>>> \o v] \in [V -> V]
      BY <2>1
    <2> QED
      BY <2>2
  <1>4. \A s \in (0 .. N) \ stop : next[s] \in s + 1 .. N
    BY <1>1, <1>2
  <1>5. <<>> \in V
    OBVIOUS
  <1>6. PICK f : Descends(f, N, V, <<>>, stop, next, step)
    <2> HIDE DEF step, next, V
    <2> QED
      BY <1>1, <1>3, <1>4, <1>5, Descent, Zenon
  <1>7. f \in [0 .. N -> V] /\ \A s \in 0 .. N : f[s] = IF s \in stop THEN <<>> ELSE step[s][f[next[s]]]
    BY <1>6 DEF Descends
  <1>8. ASSUME NEW s \in 0 .. N, s \notin stop PROVE f[s] = <<<<d + s, size(s)>>>> \o f[s + size(s)]
    <2>1. s + size(s) \in 0 .. N /\ next[s] = s + size(s)
      BY <1>1, <1>2, <1>8
    <2>2. f[s + size(s)] \in V
      BY <1>7, <2>1
    <2> HIDE DEF V
    <2> QED
      BY <1>7, <1>8, <2>1, <2>2
  <1>9. \A s \in 0 .. N : f[s] = IF s \in stop THEN <<>> ELSE <<<<d + s, size(s)>>>> \o f[s + size(s)]
    <2> HIDE DEF V
    <2> QED
      BY <1>7, <1>8
  <1> QED
    BY <1>7, <1>9 DEF Loop, N, size

\* Three parts of a sequence.
LEMMA ThreeParts ==
    ASSUME NEW a \in Seq(ChunkAt), NEW b \in Seq(ChunkAt), NEW c \in Seq(ChunkAt)
    PROVE  a \o (b \o c) = (a \o b) \o c
  BY ConcatAssociative, SMTT(30)

\* Wherever it begins, it cuts the chunks of chunk_data.
LEMMA LoopCuts ==
    ASSUME content \in Seq(Nat), NEW part \in Seq(Nat), NEW d \in Nat, PartOf(part, content, d),
           NEW stop, NEW room, Rooms(part, d, stop, room),
           Len(part) \in stop, NEW f, Loop(part, d, stop, room, f)
    PROVE  CutsTo(part, d, stop, f[0])
  <1> DEFINE N == Len(part)
             Cuts(s, t) == /\ t \in 0 .. N /\ Chain(f[s], d + s, d + t)
                           /\ ChunksFrom(content, d + s) = f[s] \o ChunksFrom(content, d + t)
             S == {s \in 0 .. N : \E t \in stop : Cuts(s, t)}
  <1>1. N \in Nat /\ Len(content) \in Nat /\ d + N <= Len(content)
    BY LenProperties DEF PartOf
  <1>2. ASSUME NEW s \in 0 .. N PROVE ChunksFrom(content, d + s) \in Seq(ChunkAt)
    <2>1. d + s \in 0 .. Len(content)
      BY <1>1
    <2> QED
      BY <2>1, ChunksFromRule
  <1>3. ASSUME NEW s \in 0 .. N, s + 1 .. N \subseteq S PROVE s \in S
    <2>1. CASE s \in stop
      <3>1. f[s] = <<>>
        BY <2>1 DEF Loop
      <3>2. Chain(<<>>, d + s, d + s)
        BY DEF Chain, EndOf
      <3>3. ChunksFrom(content, d + s) = <<>> \o ChunksFrom(content, d + s)
        BY <1>2
      <3>4. Cuts(s, s)
        BY <3>1, <3>2, <3>3
      <3> HIDE DEF Cuts
      <3> QED
        BY <2>1, <3>4
    <2>2. CASE s \notin stop
      <3> DEFINE r == room[s]
                 size == SizeAt(part, s, r)
      <3>1. Roomy(part, d, s, r) /\ s \in 0 .. Len(part)
        BY <2>2 DEF Rooms
      <3> HIDE DEF r
      <3>2. /\ size \in 1 .. N - s
            /\ Chain(<<<<d + s, size>>>>, d + s, d + s + size)
            /\ ChunksFrom(content, d + s) = <<<<d + s, size>>>> \o ChunksFrom(content, d + s + size)
        BY <3>1, CutStep
      <3>3. f[s] = <<<<d + s, size>>>> \o f[s + size]
        BY <2>2 DEF Loop, r
      <3> HIDE DEF size
      <3>4. /\ s + size \in s + 1 .. N /\ d + s + size = d + (s + size) /\ d + s \in Nat
            /\ size \in Nat /\ s + size \in 0 .. N /\ d + (s + size) \in Nat
        <4> HIDE DEF N
        <4> QED
          BY <1>1, <3>2
      <3>5. PICK t \in stop : Cuts(s + size, t)
        BY <1>3, <3>4
      <3>6. t \in 0 .. N /\ d + t \in Nat
        BY <3>5
      <3>7. Chain(f[s], d + s, d + t)
        <4>1. Chain(f[s + size], d + (s + size), d + t)
          BY <3>5
        <4>2. Chain(<<<<d + s, size>>>>, d + s, d + (s + size))
          BY <3>2, <3>4
        <4>3. Chain(<<<<d + s, size>>>> \o f[s + size], d + s, d + t)
          BY <3>4, <3>6, <4>1, <4>2, ChainJoin
        <4> QED
          BY <3>3, <4>3
      <3>8. ChunksFrom(content, d + s) = f[s] \o ChunksFrom(content, d + t)
        <4>1. /\ f[s + size] \in Seq(ChunkAt) /\ ChunksFrom(content, d + t) \in Seq(ChunkAt)
              /\ <<<<d + s, size>>>> \in Seq(ChunkAt)
          BY <1>2, <3>2, <3>4, <3>6 DEF Loop, Chain
        <4>2. ChunksFrom(content, d + s + size) = f[s + size] \o ChunksFrom(content, d + t)
          BY <3>4, <3>5
        <4> DEFINE a == <<<<d + s, size>>>>
                   b == f[s + size]
                   c == ChunksFrom(content, d + t)
        <4>3. a \in Seq(ChunkAt) /\ b \in Seq(ChunkAt) /\ c \in Seq(ChunkAt)
          BY <4>1
        <4>4. ChunksFrom(content, d + s) = a \o (b \o c) /\ f[s] = a \o b
          BY <3>2, <3>3, <4>2
        <4>5. a \o (b \o c) = (a \o b) \o c
          <5> HIDE DEF a, b, c
          <5> QED
            BY <4>3, ThreeParts
        <4> HIDE DEF a, b, c
        <4> QED
          BY <4>4, <4>5 DEF c
      <3>9. Cuts(s, t)
        BY <3>6, <3>7, <3>8
      <3> HIDE DEF Cuts
      <3> QED
        BY <3>9
    <2> QED
      BY <2>1, <2>2
  <1>4. 0 .. N \subseteq S
    <2> HIDE DEF S, N
    <2> QED
      BY <1>1, <1>3, DownTo
  <1>5. 0 \in S
    <2> HIDE DEF S, N
    <2> QED
      BY <1>1, <1>4
  <1>6. PICK t \in stop : Cuts(0, t)
    <2> HIDE DEF Cuts
    <2> QED
      BY <1>5
  <1>7. d + 0 = d
    OBVIOUS
  <1> QED
    BY <1>6, <1>7 DEF CutsTo

\* The loop of full windows ends at a chunk of chunk_data's.
LEMMA FullCuts ==
    ASSUME content \in Seq(Nat), NEW part \in Seq(Nat), NEW d \in Nat, PartOf(part, content, d)
    PROVE  \E t \in 0 .. Len(part) :
              /\ Chain(CutFull(part, d), d, d + t)
              /\ ChunksFrom(content, d) = CutFull(part, d) \o ChunksFrom(content, d + t)
  <1> DEFINE N == Len(part)
             from[s \in 0 .. Len(part)] ==
                 IF Len(part) - s < MaxChunk THEN <<>>
                 ELSE LET e == FindBoundary(SubSeq(part, s + 1, Len(part)), 0, MaxChunk)
                      IN  <<<<d + s, e>>>> \o from[s + e]
             stop == {s \in 0 .. N : N - s < MaxChunk}
             room == [s \in 0 .. N |-> MaxChunk]
  <1>1. N \in Nat /\ MaxChunk \in Nat \ {0}
    BY LenProperties, ChunkerAssumption
  <1>2. CutFull(part, d) = from[0]
    BY DEF CutFull
  <1>3. Rooms(part, d, stop, room)
    <2> SUFFICES ASSUME NEW s \in (0 .. N) \ stop PROVE Roomy(part, d, s, room[s])
      BY DEF Rooms
    <2>1. room[s] = MaxChunk /\ ~(N - s < MaxChunk)
      OBVIOUS
    <2>2. MaxChunk \in 1 .. N - s
      BY <1>1, <2>1
    <2> QED
      BY <2>1, <2>2 DEF Roomy
  <1>4. PICK f : Loop(part, d, stop, room, f)
    <2> HIDE DEF stop, room
    <2> QED
      BY <1>3, LoopIs
  <1>5. ASSUME NEW g PROVE Loop(part, d, stop, room, g) <=>
            /\ g \in [0 .. N -> Seq(ChunkAt)]
            /\ \A s \in 0 .. N : g[s] = IF N - s < MaxChunk THEN <<>>
                                        ELSE <<<<d + s, SizeAt(part, s, MaxChunk)>>>>
                                             \o g[s + SizeAt(part, s, MaxChunk)]
    BY DEF Loop
  <1>6. f = [s \in 0 .. N |-> IF N - s < MaxChunk THEN <<>>
                              ELSE <<<<d + s, SizeAt(part, s, MaxChunk)>>>>
                                   \o f[s + SizeAt(part, s, MaxChunk)]]
    <2>1. f \in [0 .. N -> Seq(ChunkAt)]
      BY <1>4, <1>5
    <2>2. \A s \in 0 .. N : f[s] = IF N - s < MaxChunk THEN <<>>
                                   ELSE <<<<d + s, SizeAt(part, s, MaxChunk)>>>>
                                        \o f[s + SizeAt(part, s, MaxChunk)]
      BY <1>4, <1>5
    <2> HIDE DEF N
    <2> QED
      BY ONLY <2>1, <2>2
  <1>7. from = [s \in 0 .. N |-> IF N - s < MaxChunk THEN <<>>
                                 ELSE <<<<d + s, SizeAt(part, s, MaxChunk)>>>>
                                      \o from[s + SizeAt(part, s, MaxChunk)]]
    BY <1>6 DEF SizeAt
  <1> HIDE DEF from
  <1>8. ASSUME NEW s \in 0 .. N
        PROVE  from[s] = IF N - s < MaxChunk THEN <<>>
                         ELSE <<<<d + s, SizeAt(part, s, MaxChunk)>>>>
                              \o from[s + SizeAt(part, s, MaxChunk)]
    BY <1>7
  <1>9. Loop(part, d, stop, room, from)
    <2> DEFINE T == {s \in 0 .. N : from[s] \in Seq(ChunkAt)}
    <2>1. ASSUME NEW s \in 0 .. N, s + 1 .. N \subseteq T PROVE s \in T
      <3>1. CASE N - s < MaxChunk
        <4>1. from[s] = <<>>
          BY <1>8, <3>1
        <4>2. <<>> \in Seq(ChunkAt)
          OBVIOUS
        <4>3. from[s] \in Seq(ChunkAt)
          BY <4>1, <4>2
        <4> QED
          BY <4>3
      <3>2. CASE ~(N - s < MaxChunk)
        <4> DEFINE e == SizeAt(part, s, MaxChunk)
        <4>1. Roomy(part, d, s, MaxChunk) /\ s \in 0 .. Len(part) /\ s \notin stop
          BY <1>3, <3>2 DEF Rooms
        <4>2. e \in 1 .. N - s
          BY <4>1, CutStep
        <4> HIDE DEF e
        <4>3. s + e \in s + 1 .. N /\ <<d + s, e>> \in ChunkAt
          <5> HIDE DEF N
          <5> QED
            BY <1>1, <4>2 DEF ChunkAt
        <4>4. from[s + e] \in Seq(ChunkAt)
          BY <2>1, <4>3
        <4>5. from[s] = <<<<d + s, e>>>> \o from[s + e]
          BY <1>8, <3>2 DEF e
        <4>6. <<<<d + s, e>>>> \in Seq(ChunkAt)
          BY <4>3
        <4>7. <<<<d + s, e>>>> \o from[s + e] \in Seq(ChunkAt)
          BY <4>4, <4>6
        <4>8. from[s] \in Seq(ChunkAt)
          BY <4>5, <4>7
        <4> QED
          BY <4>8
      <3> QED
        BY <3>1, <3>2
    <2>2. 0 .. N \subseteq T
      <3> HIDE DEF T, N
      <3> QED
        BY <1>1, <2>1, DownTo
    <2>3. from \in [0 .. N -> Seq(ChunkAt)]
      BY <1>7, <2>2
    <2> QED
      BY <1>5, <1>8, <2>3
  <1>10. Len(part) \in stop
    BY <1>1
  <1>11. PICK t \in stop : /\ t \in 0 .. Len(part) /\ Chain(from[0], d, d + t)
                            /\ ChunksFrom(content, d) = from[0] \o ChunksFrom(content, d + t)
    <2> HIDE DEF stop, room, N
    <2>1. CutsTo(part, d, stop, from[0])
      BY <1>3, <1>9, <1>10, LoopCuts
    <2> QED
      BY <2>1 DEF CutsTo
  <1> QED
    BY <1>2, <1>11

\* The flush ends at the end of the file.
LEMMA RestCuts ==
    ASSUME content \in Seq(Nat), NEW part \in Seq(Nat), NEW d \in Nat, PartOf(part, content, d),
           d + Len(part) = Len(content)
    PROVE  /\ Chain(CutRest(part, d), d, Len(content))
           /\ ChunksFrom(content, d) = CutRest(part, d)
  <1> DEFINE N == Len(part)
             from[s \in 0 .. Len(part)] ==
                 IF s = Len(part) THEN <<>>
                 ELSE LET e == FindBoundary(SubSeq(part, s + 1, Len(part)), 0, Len(part) - s)
                      IN  <<<<d + s, e>>>> \o from[s + e]
             stop == {N}
             room == [s \in 0 .. N |-> N - s]
  <1>1. N \in Nat /\ Len(content) \in Nat
    BY LenProperties
  <1>2. CutRest(part, d) = from[0]
    BY DEF CutRest
  <1>3. Rooms(part, d, stop, room)
    <2> SUFFICES ASSUME NEW s \in (0 .. N) \ stop PROVE Roomy(part, d, s, room[s])
      BY DEF Rooms
    <2>1. room[s] = N - s /\ s # N /\ s \in 0 .. N
      OBVIOUS
    <2>2. N - s \in 1 .. N - s /\ d + s + (N - s) = d + N
      <3> HIDE DEF N
      <3> QED
        BY <1>1, <2>1
    <2> QED
      BY <2>1, <2>2 DEF Roomy
  <1>4. PICK f : Loop(part, d, stop, room, f)
    <2> HIDE DEF stop, room
    <2> QED
      BY <1>3, LoopIs
  <1>5. ASSUME NEW g PROVE Loop(part, d, stop, room, g) <=>
            /\ g \in [0 .. N -> Seq(ChunkAt)]
            /\ \A s \in 0 .. N : g[s] = IF s = N THEN <<>>
                                        ELSE <<<<d + s, SizeAt(part, s, N - s)>>>>
                                             \o g[s + SizeAt(part, s, N - s)]
    BY DEF Loop
  <1>6. f = [s \in 0 .. N |-> IF s = N THEN <<>>
                              ELSE <<<<d + s, SizeAt(part, s, N - s)>>>>
                                   \o f[s + SizeAt(part, s, N - s)]]
    <2>1. f \in [0 .. N -> Seq(ChunkAt)]
      BY <1>4, <1>5
    <2>2. \A s \in 0 .. N : f[s] = IF s = N THEN <<>>
                                   ELSE <<<<d + s, SizeAt(part, s, N - s)>>>>
                                        \o f[s + SizeAt(part, s, N - s)]
      BY <1>4, <1>5
    <2> HIDE DEF N
    <2> QED
      BY ONLY <2>1, <2>2
  <1>7. from = [s \in 0 .. N |-> IF s = N THEN <<>>
                                 ELSE <<<<d + s, SizeAt(part, s, N - s)>>>>
                                      \o from[s + SizeAt(part, s, N - s)]]
    BY <1>6 DEF SizeAt
  <1> HIDE DEF from
  <1>8. ASSUME NEW s \in 0 .. N
        PROVE  from[s] = IF s = N THEN <<>>
                         ELSE <<<<d + s, SizeAt(part, s, N - s)>>>> \o from[s + SizeAt(part, s, N - s)]
    BY <1>7
  <1>9. Loop(part, d, stop, room, from)
    <2> DEFINE T == {s \in 0 .. N : from[s] \in Seq(ChunkAt)}
    <2>1. ASSUME NEW s \in 0 .. N, s + 1 .. N \subseteq T PROVE s \in T
      <3>1. CASE s = N
        <4>1. from[s] = <<>>
          BY <1>8, <3>1
        <4>2. <<>> \in Seq(ChunkAt)
          OBVIOUS
        <4>3. from[s] \in Seq(ChunkAt)
          BY <4>1, <4>2
        <4> QED
          BY <4>3
      <3>2. CASE s # N
        <4> DEFINE r == N - s
                   e == SizeAt(part, s, r)
        <4>1. Roomy(part, d, s, r) /\ s \in 0 .. Len(part) /\ s \notin stop
          BY <1>3, <3>2 DEF Rooms
        <4>2. from[s] = <<<<d + s, e>>>> \o from[s + e]
          BY <1>8, <3>2
        <4> HIDE DEF r
        <4>3. e \in 1 .. N - s
          BY <4>1, CutStep
        <4> HIDE DEF e
        <4>4. s + e \in s + 1 .. N /\ <<d + s, e>> \in ChunkAt
          <5> HIDE DEF N
          <5> QED
            BY <1>1, <4>3 DEF ChunkAt
        <4>5. from[s + e] \in Seq(ChunkAt)
          BY <2>1, <4>4
        <4>6. <<<<d + s, e>>>> \in Seq(ChunkAt)
          BY <4>4
        <4>7. <<<<d + s, e>>>> \o from[s + e] \in Seq(ChunkAt)
          BY <4>5, <4>6
        <4>8. from[s] \in Seq(ChunkAt)
          BY <4>2, <4>7
        <4> QED
          BY <4>8
      <3> QED
        BY <3>1, <3>2
    <2>2. 0 .. N \subseteq T
      <3> HIDE DEF T, N
      <3> QED
        BY <1>1, <2>1, DownTo
    <2>3. from \in [0 .. N -> Seq(ChunkAt)]
      BY <1>7, <2>2
    <2> QED
      BY <1>5, <1>8, <2>3
  <1>10. Len(part) \in stop
    OBVIOUS
  <1>11. PICK t \in stop : /\ t \in 0 .. Len(part) /\ Chain(from[0], d, d + t)
                            /\ ChunksFrom(content, d) = from[0] \o ChunksFrom(content, d + t)
    <2> HIDE DEF stop, room, N
    <2>1. CutsTo(part, d, stop, from[0])
      BY <1>3, <1>9, <1>10, LoopCuts
    <2> QED
      BY <2>1 DEF CutsTo
  <1>12. d + t = Len(content)
    <2>1. t = Len(part)
      OBVIOUS
    <2> QED
      BY <2>1
  <1>13. ChunksFrom(content, Len(content)) = <<>>
    <2>1. Len(content) \in 0 .. Len(content)
      BY <1>1
    <2> QED
      BY <2>1, ChunksFromRule
  <1>14. from[0] \o <<>> = from[0]
    BY <1>11 DEF Chain
  <1> QED
    BY <1>2, <1>11, <1>12, <1>13, <1>14

-----------------------------------------------------------------------------
\* What the reader has in its buffer is the part of the file behind what it has cut.
LEMMA BufferIsPart ==
    ASSUME content \in Seq(Nat), drained \in Nat, NEW n \in Nat, drained <= n, n <= Len(content)
    PROVE  /\ Buffer(n) \in Seq(Nat) /\ Len(Buffer(n)) = n - drained
           /\ PartOf(Buffer(n), content, drained)
  <1> DEFINE buffer == SubSeq(content, drained + 1, n)
  <1>1. Len(content) \in Nat
    BY LenProperties
  <1>2. /\ buffer \in Seq(Nat)
        /\ Len(buffer) = IF drained + 1 <= n THEN n - (drained + 1) + 1 ELSE 0
        /\ \A i \in 1 .. n - (drained + 1) + 1 : buffer[i] = content[(drained + 1) + i - 1]
    <2>1. ASSUME NEW i \in drained + 1 .. n PROVE content[i] \in Nat
      <3>1. i \in 1 .. Len(content)
        BY <1>1
      <3> QED
        BY <3>1, ElementOfSeq
    <2>2. drained + 1 \in Int /\ n \in Int
      OBVIOUS
    <2> QED
      BY <2>1, <2>2, SubSeqProperties
  <1> HIDE DEF buffer
  <1>3. Len(buffer) = n - drained
    <2>1. n - (drained + 1) + 1 = n - drained /\ (drained + 1 <= n \/ n - drained = 0)
      OBVIOUS
    <2> QED
      BY <1>2, <2>1
  <1>4. ASSUME NEW j \in 1 .. Len(buffer) PROVE buffer[j] = content[drained + j]
    <2>1. j \in 1 .. n - (drained + 1) + 1 /\ (drained + 1) + j - 1 = drained + j
      BY <1>3
    <2> QED
      BY <1>2, <2>1
  <1>5. drained + Len(buffer) <= Len(content)
    BY <1>1, <1>3
  <1> QED
    BY <1>2, <1>3, <1>4, <1>5 DEF Buffer, PartOf, buffer

\* The chunks of the file are the ones that were cut and those that it has from there.
ChunkInv ==
    /\ content \in Seq(ByteValue) /\ Len(content) \in FileSizes
    /\ drained \in Nat /\ consumed \in Nat /\ drained <= consumed /\ consumed <= Len(content)
    /\ Chain(cut, 0, drained)
    /\ ChunksOf(content) = cut \o ChunksFrom(content, drained)

\* It holds at first.
LEMMA ChunkInvBegins == ChunkInit => ChunkInv
  <1> SUFFICES ASSUME ChunkInit PROVE ChunkInv
    OBVIOUS
  <1>1. PICK n \in FileSizes : content \in [1 .. n -> ByteValue]
    BY DEF ChunkInit
  <1>2. n \in Nat /\ content \in Seq(ByteValue) /\ Len(content) = n /\ content \in Seq(Nat)
    BY <1>1, ChunkerAssumption
  <1>3. ChunksFrom(content, 0) \in Seq(ChunkAt)
    <2>1. 0 \in 0 .. Len(content)
      BY <1>2
    <2> QED
      BY <1>2, <2>1, ChunksFromRule
  <1>4. ChunksOf(content) = <<>> \o ChunksFrom(content, 0)
    BY <1>3 DEF ChunksOf
  <1>5. Chain(<<>>, 0, 0)
    BY DEF Chain, EndOf
  <1> QED
    BY <1>1, <1>2, <1>4, <1>5 DEF ChunkInit, ChunkInv

\* What is cut behind what was cut.
LEMMA CutBehind ==
    ASSUME ChunkInv, NEW new, NEW e \in 0 .. Len(content), Chain(new, drained, e),
           ChunksFrom(content, drained) = new \o ChunksFrom(content, e)
    PROVE  Chain(cut \o new, 0, e) /\ ChunksOf(content) = (cut \o new) \o ChunksFrom(content, e)
  <1>1. content \in Seq(Nat) /\ Len(content) \in Nat /\ e \in Nat /\ drained \in Nat
    BY ChunkerAssumption DEF ChunkInv
  <1>2. Chain(cut \o new, 0, e)
    BY <1>1, ChainJoin DEF ChunkInv
  <1>3. /\ cut \in Seq(ChunkAt) /\ new \in Seq(ChunkAt) /\ ChunksFrom(content, e) \in Seq(ChunkAt)
        /\ ChunksOf(content) = cut \o (new \o ChunksFrom(content, e))
    BY <1>1, ChunksFromRule DEF Chain, ChunkInv
  <1> DEFINE c == ChunksFrom(content, e)
  <1>4. c \in Seq(ChunkAt) /\ ChunksOf(content) = cut \o (new \o c)
    BY <1>3
  <1> HIDE DEF c
  <1>5. cut \o (new \o c) = (cut \o new) \o c
    BY <1>3, <1>4, ThreeParts
  <1> QED
    BY <1>2, <1>4, <1>5 DEF c

\* Every read keeps it.
LEMMA ChunkInvStays == ChunkInv /\ [ChunkNext]_chunkVars => ChunkInv'
  <1> SUFFICES ASSUME ChunkInv, [ChunkNext]_chunkVars PROVE ChunkInv'
    OBVIOUS
  <1>1. /\ content \in Seq(Nat) /\ Len(content) \in Nat /\ drained \in Nat /\ consumed \in Nat
        /\ drained <= consumed /\ consumed <= Len(content)
    BY ChunkerAssumption DEF ChunkInv
  <1>2. ASSUME NEW n \in 1 .. ReadUnit, ReadMore(n) PROVE ChunkInv'
    <2> DEFINE part == Buffer(consumed + n)
               new == CutFull(part, drained)
    <2>1. /\ content' = content /\ consumed' = consumed + n /\ consumed + n <= Len(content)
          /\ cut' = cut \o new /\ drained' = EndOf(new, drained) /\ n \in Nat
      BY <1>2 DEF ReadMore
    <2>2. part \in Seq(Nat) /\ Len(part) = consumed + n - drained /\ PartOf(part, content, drained)
      <3>1. consumed + n \in Nat /\ drained <= consumed + n
        BY <1>1, <2>1
      <3> QED
        BY <1>1, <2>1, <3>1, BufferIsPart
    <2> HIDE DEF part
    <2>3. PICK t \in 0 .. Len(part) :
              /\ Chain(new, drained, drained + t)
              /\ ChunksFrom(content, drained) = new \o ChunksFrom(content, drained + t)
      BY <1>1, <2>2, FullCuts
    <2> HIDE DEF new
    <2>4. drained + t \in 0 .. Len(content) /\ drained + t <= consumed + n /\ drained + t \in Nat
          /\ consumed + n \in Nat
      BY <1>1, <2>1, <2>2
    <2>5. drained' = drained + t
      BY <2>1, <2>3 DEF Chain
    <2>6. Chain(cut \o new, 0, drained + t)
          /\ ChunksOf(content) = (cut \o new) \o ChunksFrom(content, drained + t)
      BY <2>3, <2>4, CutBehind
    <2>7. content' \in Seq(ByteValue) /\ Len(content') \in FileSizes
      BY <2>1 DEF ChunkInv
    <2>8. (Chain(cut, 0, drained) /\ ChunksOf(content) = cut \o ChunksFrom(content, drained))'
      <3>1. /\ Chain(cut, 0, drained)' <=> Chain(cut \o new, 0, drained + t)
            /\ ChunksOf(content)' = ChunksOf(content)
            /\ ChunksFrom(content, drained)' = ChunksFrom(content, drained + t)
        BY <2>1, <2>5 DEF Chain, GoodSize, ChunksOf, ChunksFrom
      <3> QED
        BY <2>1, <2>6, <3>1
    <2> QED
      BY <2>1, <2>4, <2>5, <2>7, <2>8 DEF ChunkInv
  <1>3. ASSUME FlushRest PROVE ChunkInv'
    <2> DEFINE part == Buffer(consumed)
               new == CutRest(part, drained)
    <2>1. /\ content' = content /\ consumed' = consumed /\ consumed = Len(content)
          /\ cut' = cut \o new /\ drained' = consumed
      BY <1>3 DEF FlushRest
    <2>2. part \in Seq(Nat) /\ Len(part) = consumed - drained /\ PartOf(part, content, drained)
      BY <1>1, BufferIsPart
    <2> HIDE DEF part
    <2>3. drained + Len(part) = Len(content)
      BY <1>1, <2>1, <2>2
    <2>4. Chain(new, drained, Len(content)) /\ ChunksFrom(content, drained) = new
      BY <1>1, <2>2, <2>3, RestCuts
    <2> HIDE DEF new
    <2>5. Len(content) \in 0 .. Len(content)
      BY <1>1
    <2>6. ChunksFrom(content, Len(content)) = <<>>
      BY <1>1, <2>5, ChunksFromRule
    <2>7. new \o <<>> = new
      BY <2>4 DEF Chain
    <2>8. Chain(cut \o new, 0, Len(content))
          /\ ChunksOf(content) = (cut \o new) \o ChunksFrom(content, Len(content))
      BY <2>4, <2>5, <2>6, <2>7, CutBehind
    <2>9. content' \in Seq(ByteValue) /\ Len(content') \in FileSizes
      BY <2>1 DEF ChunkInv
    <2>10. (Chain(cut, 0, drained) /\ ChunksOf(content) = cut \o ChunksFrom(content, drained))'
      <3>1. /\ Chain(cut, 0, drained)' <=> Chain(cut \o new, 0, Len(content))
            /\ ChunksOf(content)' = ChunksOf(content)
            /\ ChunksFrom(content, drained)' = ChunksFrom(content, Len(content))
        BY <2>1 DEF Chain, GoodSize, ChunksOf, ChunksFrom
      <3> QED
        BY <2>1, <2>8, <3>1
    <2> QED
      BY <1>1, <2>1, <2>9, <2>10 DEF ChunkInv
  <1>4. ASSUME UNCHANGED chunkVars PROVE ChunkInv'
    <2>1. content' = content /\ consumed' = consumed /\ drained' = drained /\ cut' = cut
      BY <1>4 DEF chunkVars
    <2>2. /\ Chain(cut, 0, drained)' <=> Chain(cut, 0, drained)
          /\ ChunksOf(content)' = ChunksOf(content)
          /\ ChunksFrom(content, drained)' = ChunksFrom(content, drained)
      BY <2>1 DEF Chain, GoodSize, ChunksOf, ChunksFrom
    <2> QED
      BY <2>1, <2>2 DEF ChunkInv
  <1> QED
    BY <1>2, <1>3, <1>4 DEF ChunkNext

\* When the file has ended, the chunks are those of chunk_data, and tile it.
LEMMA ChunkInvSuffices == ChunkInv => ChunkTypeOK /\ ChunkingSound
  <1> SUFFICES ASSUME ChunkInv PROVE ChunkTypeOK /\ ChunkingSound
    OBVIOUS
  <1>1. /\ content \in Seq(Nat) /\ Len(content) \in Nat /\ drained \in Nat /\ consumed \in Nat
        /\ drained <= consumed /\ consumed <= Len(content) /\ drained \in 0 .. Len(content)
    BY ChunkerAssumption DEF ChunkInv
  <1>2. cut \in Seq(ChunkAt) /\ Len(cut) \in Nat /\ Chain(cut, 0, drained)
    BY DEF ChunkInv, Chain
  <1>3. ChunkTypeOK
    <2>1. ASSUME NEW i \in DOMAIN cut PROVE cut[i] \in Nat \X Nat
      BY <1>2 DEF ChunkAt
    <2> QED
      BY <2>1 DEF ChunkTypeOK, ChunkInv
  <1>4. StreamMatches
    <2> DEFINE rest == ChunksFrom(content, drained)
    <2>1. rest \in Seq(ChunkAt) /\ (drained = Len(content) => rest = <<>>)
      BY <1>1, ChunksFromRule
    <2>2. ChunksOf(content) = cut \o rest
      BY DEF ChunkInv
    <2> HIDE DEF rest
    <2>3. IsPrefix(cut, cut \o rest)
      BY <1>2, <2>1 DEF IsPrefix
    <2>4. drained = Len(content) => cut \o rest = cut
      BY <1>2, <2>1
    <2> QED
      BY <2>2, <2>3, <2>4 DEF StreamMatches
  <1>5. ChunksTile
    <2>1. ASSUME NEW i \in DOMAIN cut
          PROVE  cut[i][1] = EndOf(SubSeq(cut, 1, i - 1), 0)
      <3>1. i \in 1 .. Len(cut) /\ i \in Nat \ {0}
        BY <1>2
      <3>2. cut[i][1] = IF i = 1 THEN 0 ELSE cut[i - 1][1] + cut[i - 1][2]
        BY <1>2, <3>1 DEF Chain
      <3> DEFINE before == SubSeq(cut, 1, i - 1)
      <3>3. CASE i = 1
        <4>1. before = <<>>
          BY <3>3, SubSeqEmpty
        <4> QED
          BY <3>2, <3>3, <4>1 DEF EndOf
      <3>4. CASE i # 1
        <4>1. before \in Seq(ChunkAt) /\ Len(before) = i - 1 /\ before[i - 1] = cut[i - 1]
          BY <1>2, <3>1, <3>4
        <4> HIDE DEF before
        <4>2. before # <<>> /\ Last(before) = cut[i - 1]
          BY <3>1, <3>4, <4>1 DEF Last
        <4>3. EndOf(before, 0) = cut[i - 1][1] + cut[i - 1][2]
          BY <4>2 DEF EndOf
        <4> QED
          BY <3>2, <3>4, <4>3 DEF before
      <3> QED
        BY <3>3, <3>4
    <2>2. \A i \in DOMAIN cut : GoodSize(cut[i])
      BY <1>2 DEF Chain
    <2>3. drained = EndOf(cut, 0)
      BY <1>2 DEF Chain
    <2> QED
      BY <2>1, <2>2, <2>3 DEF ChunksTile, GoodSize
  <1> QED
    BY <1>3, <1>4, <1>5 DEF ChunkingSound

\* The reader cuts the file as chunk_data would, however it comes in, and the chunks tile it.
THEOREM ChunkingStaysSound == ChunkSpec => [](ChunkTypeOK /\ ChunkingSound)
  <1>1. ChunkSpec => []ChunkInv
    BY ChunkInvBegins, ChunkInvStays, PTL DEF ChunkSpec
  <1> QED
    BY <1>1, ChunkInvSuffices, PTL
=============================================================================
