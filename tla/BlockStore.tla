----------------------------- MODULE BlockStore -----------------------------
(***************************************************************************)
(* The storage backends under the block index: files that are written      *)
(* beside their place and renamed into it, or objects of a service that     *)
(* stores a whole object or nothing, whatever the client hears of it       *)
(* (external: S3, GCS through it, Azure).  Writers of one id write         *)
(* different bytes, as each encrypts the block anew.                       *)
(***************************************************************************)
EXTENDS Naturals

CONSTANTS
    BlockId,        \* ids of blocks
    StoreCall,      \* calls of a backend; a write's call stands for its bytes
    NoBytes         \* what an absent block holds

VARIABLES
    backend,        \* "local", "s3" or "azure"
    inPlace,        \* each id: [of, whole, synced], what a read returns
    onDisk,         \* the same after a failure of the machine
    scall,          \* each call: [at, op, id]
    heard,          \* what each call was answered: "", "ok" or "error"
    reverted        \* history: ids that went back to what they were at a failure of the machine

blockVars == <<backend, inPlace, onDisk, scall, heard, reverted>>

Absent == [of |-> NoBytes, whole |-> TRUE, synced |-> TRUE]
BytesOf(c, synced) == [of |-> c, whole |-> TRUE, synced |-> synced]
FileState == [of : StoreCall \cup {NoBytes}, whole : BOOLEAN, synced : BOOLEAN]
NewStoreCall == [at |-> "new", op |-> "", id |-> ""]

BlockTypeOK ==
    /\ backend \in {"local", "s3", "azure"} /\ reverted \subseteq BlockId
    /\ inPlace \in [BlockId -> FileState] /\ onDisk \in [BlockId -> FileState]
    /\ scall \in [StoreCall -> [at : {"new", "created", "written", "synced", "put", "remove",
                                     "delete", "over"},
                                op : {"", "write", "delete"}, id : BlockId \cup {""}]]
    /\ heard \in [StoreCall -> {"", "ok", "error"}]

BlockInit ==
    /\ backend \in {"local", "s3", "azure"} /\ reverted = {}
    /\ inPlace = [b \in BlockId |-> Absent] /\ onDisk = inPlace
    /\ scall = [c \in StoreCall |-> NewStoreCall] /\ heard = [c \in StoreCall |-> ""]

Turn(c, from, to) == scall[c].at = from /\ scall' = [scall EXCEPT ![c].at = to]
Answer(c, what) == heard' = [heard EXCEPT ![c] = IF @ = "" THEN what ELSE @]

-----------------------------------------------------------------------------
(* LocalStorage *)

(* A new file beside the place: nobody else writes it, and nothing ever removes it if the call
   ends before the rename. *)
BeginLocal(c, b) ==
    /\ backend = "local" /\ scall[c] = NewStoreCall
    /\ \/ scall' = [scall EXCEPT ![c] = [at |-> "created", op |-> "write", id |-> b]]
       \/ /\ inPlace[b] # Absent
          /\ scall' = [scall EXCEPT ![c] = [at |-> "remove", op |-> "delete", id |-> b]]
    /\ UNCHANGED <<backend, inPlace, onDisk, heard, reverted>>

WriteFile(c) == Turn(c, "created", "written") /\ UNCHANGED <<backend, inPlace, onDisk, heard, reverted>>
SyncFile(c) == Turn(c, "written", "synced") /\ UNCHANGED <<backend, inPlace, onDisk, heard, reverted>>

\* Mutant: the file is renamed without sync_all.
MutantRename(c) ==
    /\ Turn(c, "written", "over") /\ Answer(c, "ok")
    /\ inPlace' = [inPlace EXCEPT ![scall[c].id] = BytesOf(c, FALSE)]
    /\ UNCHANGED <<backend, onDisk, reverted>>

(* The directory is not synced: the rename lasts when the file system gets round to it. *)
RenameFile(c) ==
    /\ Turn(c, "synced", "over") /\ Answer(c, "ok")
    /\ inPlace' = [inPlace EXCEPT ![scall[c].id] = BytesOf(c, TRUE)]
    /\ UNCHANGED <<backend, onDisk, reverted>>

(* An id that is absent is deleted without an error, unless it was there when it was looked for. *)
DeleteLocal(c) ==
    /\ Turn(c, "remove", "over")
    /\ Answer(c, IF inPlace[scall[c].id] = Absent THEN "error" ELSE "ok")
    /\ inPlace' = [inPlace EXCEPT ![scall[c].id] = Absent]
    /\ UNCHANGED <<backend, onDisk, reverted>>

(* External: the file system writes its journal; the machine fails. *)
Journal(b) ==
    /\ backend = "local" /\ onDisk # inPlace
    /\ onDisk' = [onDisk EXCEPT ![b] = inPlace[b]]
    /\ UNCHANGED <<backend, inPlace, scall, heard, reverted>>

AfterFailure(file) == IF file.synced THEN {file} ELSE {file, [file EXCEPT !.whole = FALSE]}

MachineFailure ==
    /\ backend = "local"
    /\ inPlace' \in [BlockId -> FileState]
    /\ \A b \in BlockId : inPlace'[b] \in AfterFailure(inPlace[b]) \cup AfterFailure(onDisk[b])
    /\ onDisk' = inPlace' /\ reverted' = reverted \cup {b \in BlockId : inPlace'[b] # inPlace[b]}
    /\ scall' = [c \in StoreCall |-> IF scall[c].at = "new" THEN NewStoreCall
                                     ELSE [scall[c] EXCEPT !.at = "over"]]
    /\ UNCHANGED <<backend, heard>>

-----------------------------------------------------------------------------
(* S3Storage, GcsStorage, AzureBlobStorage *)

BeginObject(c, b) ==
    /\ backend # "local" /\ scall[c] = NewStoreCall
    /\ \/ scall' = [scall EXCEPT ![c] = [at |-> "put", op |-> "write", id |-> b]]
       \/ scall' = [scall EXCEPT ![c] = [at |-> "delete", op |-> "delete", id |-> b]]
    /\ UNCHANGED <<backend, inPlace, onDisk, heard, reverted>>

(* The service has done it; the answer may be lost. *)
StoreObject(c) ==
    /\ Turn(c, "put", "over") /\ \E what \in {"ok", "error"} : Answer(c, what)
    /\ inPlace' = [inPlace EXCEPT ![scall[c].id] = BytesOf(c, TRUE)] /\ onDisk' = inPlace'
    /\ UNCHANGED <<backend, reverted>>

(* S3 deletes what is not there, Azure answers an error. *)
DeleteObject(c) ==
    /\ Turn(c, "delete", "over")
    /\ \E what \in {"ok", "error"} :
        /\ backend = "azure" /\ inPlace[scall[c].id] = Absent => what = "error"
        /\ Answer(c, what)
    /\ inPlace' = [inPlace EXCEPT ![scall[c].id] = Absent] /\ onDisk' = inPlace'
    /\ UNCHANGED <<backend, reverted>>

(* The client gives up: the request is lost, or still on its way. *)
LoseObject(c) ==
    /\ scall[c].at \in {"put", "delete"} /\ heard[c] = ""
    /\ Answer(c, "error")
    /\ \E late \in BOOLEAN : scall' = IF late THEN scall ELSE [scall EXCEPT ![c].at = "over"]
    /\ UNCHANGED <<backend, inPlace, onDisk, reverted>>

(* The task of the call is aborted, or its process ends. *)
AbortLocal(c) ==
    /\ scall[c].at \in {"created", "written", "synced", "remove"}
    /\ scall' = [scall EXCEPT ![c].at = "over"] /\ Answer(c, "error")
    /\ UNCHANGED <<backend, inPlace, onDisk, reverted>>

BlockNext ==
    \/ \E c \in StoreCall :
        \/ \E b \in BlockId : BeginLocal(c, b) \/ BeginObject(c, b)
        \/ WriteFile(c) \/ SyncFile(c) \/ RenameFile(c) \/ DeleteLocal(c) \/ AbortLocal(c)
        \/ StoreObject(c) \/ DeleteObject(c) \/ LoseObject(c)
    \/ \E b \in BlockId : Journal(b)
    \/ MachineFailure

BlockSpec == BlockInit /\ [][BlockNext]_blockVars

-----------------------------------------------------------------------------
(* A write that was answered can be read, unless another call of the id wrote or deleted it or the
   machine failed before the rename had lasted. *)
WriteKept ==
    \A c \in StoreCall :
        heard[c] = "ok" /\ scall[c].op = "write" /\ scall[c].id \notin reverted
        /\ (\A d \in StoreCall \ {c} : scall[d].id # scall[c].id)
        => inPlace[scall[c].id].of = c

Torn == "torn"
View(files) == [b \in BlockId |-> IF files[b].whole THEN files[b].of ELSE Torn]
Promise == INSTANCE AtomicBlocks WITH
    Bytes <- StoreCall, Nil <- NoBytes, held <- View(inPlace), settled <- View(onDisk)

(* A backend keeps the promise of AtomicBlocks through concurrent writers, aborted calls, lost
   answers and failures of the machine, and what it has acknowledged it has. *)
KeepsPromise == Promise!Spec /\ [][WriteKept']_blockVars
=============================================================================
