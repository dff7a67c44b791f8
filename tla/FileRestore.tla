---------------------------- MODULE FileRestore ----------------------------
(***************************************************************************)
(* Restores into the restore directory and downloads of single files.      *)
(* Each runs in a task of its own: it loads the manifest, looks whether a  *)
(* file exists, truncates it and writes its blocks one after the other as  *)
(* it reads, decodes and checks them, then takes the next file.  Nothing   *)
(* keeps two of them from the same file, nor the blocks from being deleted *)
(* under them.                                                             *)
(*                                                                         *)
(* Manifests here have no gaps; VmImage is about those that have.          *)
(***************************************************************************)
EXTENDS Naturals, Sequences, FiniteSets, SequencesExt

CONSTANTS
    RestoreCall,    \* restores and downloads
    Path,           \* files under the restore directory
    BlocksOfFile,   \* [snapshot -> [its files -> their blocks by offset]]
    Encrypted,      \* blocks stored encrypted: a duplicate keeps the encoding of the first
    Damage          \* bound: blocks that are lost or rot

Snapshots == DOMAIN BlocksOfFile
FilesOf(s) == DOMAIN BlocksOfFile[s]
BlockIds == UNION {UNION {ToSet(BlocksOfFile[s][p]) : p \in FilesOf(s)} : s \in Snapshots}

\* A manifest lists blocks: it has no file without one.
ASSUME RestoreAssumption ==
    /\ \A s \in Snapshots : FilesOf(s) \subseteq Path
    /\ \A s \in Snapshots : \A p \in FilesOf(s) :
           BlocksOfFile[s][p] \in Seq(BlockIds) \ {<<>>}
    /\ BlockIds \cap {"none", "own", "hole", "rotten"} = {}
    /\ Encrypted \subseteq BlockIds /\ Damage \in Nat

VARIABLES
    blockIs,        \* each block in the repository: "good", "rotten", "mismarked" (rotten in
                    \* the first byte, which says how it is encoded) or "gone"
    onTarget,       \* each path: NoFile, or the pieces it holds
    fcall,          \* each call: [at, how, of, left, path, done]
    got,            \* what each download has read
    opened,         \* history: <<call, path>>: truncated by a restore that has not failed
    shared,         \* history: those of them another restore wrote to at the time or later
    cutOff,         \* history: paths whose last restore ended before its last block
    mingled         \* history: paths to which another restore wrote when the last one began

restoreVars == <<blockIs, onTarget, fcall, got, opened, shared, cutOff, mingled>>

NoFile == <<"none">>
OwnFile == <<"own">>
NewFcall == [at |-> "new", how |-> "", of |-> "", left |-> {}, path |-> "", done |-> 0]
Hows == {"vm", "files", "over", "grpc", "grpc over", "download"}
Overwrites(c) == fcall[c].how \in {"vm", "over", "grpc over"}

RestoreTypeOK ==
    /\ blockIs \in [BlockIds -> {"good", "rotten", "mismarked", "gone"}]
    /\ \A p \in Path : onTarget[p] \in Seq(BlockIds \cup {"none", "own", "hole", "rotten"})
    /\ \A c \in RestoreCall :
           fcall[c].at \in {"new", "next", "create", "write", "completed", "failed"}
    /\ opened \subseteq RestoreCall \X Path /\ shared \subseteq opened
    /\ cutOff \cup mingled \subseteq Path

RestoreInit ==
    /\ blockIs = [b \in BlockIds |-> "good"]
    /\ \E file \in {NoFile, OwnFile} : onTarget = [p \in Path |-> file]
    /\ fcall = [c \in RestoreCall |-> NewFcall] /\ got = [c \in RestoreCall |-> <<>>]
    /\ opened = {} /\ shared = {} /\ cutOff = {} /\ mingled = {}

Writers(p) ==
    {c \in RestoreCall : fcall[c].at = "write" /\ fcall[c].how # "download" /\ fcall[c].path = p}
FileOf(c) == BlocksOfFile[fcall[c].of][fcall[c].path]
NextBlock(c) == FileOf(c)[fcall[c].done + 1]

(* The calls end: their sessions say so, or are gone with the daemon. *)
EndAsFailed(calls) ==
    /\ fcall' = [c \in RestoreCall |-> IF c \in calls THEN [NewFcall EXCEPT !.at = "failed"]
                                       ELSE fcall[c]]
    /\ got' = [c \in RestoreCall |-> IF c \in calls THEN <<>> ELSE got[c]]
    /\ opened' = {o \in opened : o[1] \notin calls} /\ shared' = {o \in shared : o[1] \notin calls}
    /\ cutOff' = cutOff \cup {p \in Path : calls \cap Writers(p) # {}}
    /\ UNCHANGED <<onTarget, mingled>>

-----------------------------------------------------------------------------
(* The routes and their gRPC counterparts look for the snapshot, and the task they spawn looks
   again and fails if it was deleted since.  A restore of a VM has every file. *)
AskFiles(c, s, how, files) ==
    /\ fcall[c] = NewFcall
    /\ how = "vm" => files = FilesOf(s)
    /\ how = "download" => \E p \in files : files = {p}
    /\ \E at \in {"next", "failed"} :
        fcall' = [fcall EXCEPT ![c] =
                    IF at = "failed" THEN [NewFcall EXCEPT !.at = at]
                    ELSE [NewFcall EXCEPT !.at = at, !.how = how, !.of = s, !.left = files]]
    /\ UNCHANGED <<blockIs, onTarget, got, opened, shared, cutOff, mingled>>

(* stream_restore takes the files in any order. *)
SkipFile(c, p) ==
    /\ fcall[c].at = "next" /\ p \in fcall[c].left /\ fcall[c].how # "download"
    /\ onTarget[p] # NoFile /\ ~Overwrites(c)
    /\ fcall' = [fcall EXCEPT ![c].left = @ \ {p}]
    /\ UNCHANGED <<blockIs, onTarget, got, opened, shared, cutOff, mingled>>

Take(c, p, at) ==
    /\ fcall[c].at = "next" /\ p \in fcall[c].left
    /\ fcall' = [fcall EXCEPT ![c].at = at, ![c].path = p, ![c].left = @ \ {p}]
    /\ UNCHANGED <<blockIs, onTarget, got, opened, shared, cutOff, mingled>>

(* target.exists(); others go on writing before the file is created. *)
LookAt(c, p) ==
    /\ fcall[c].how # "download" /\ (onTarget[p] = NoFile \/ Overwrites(c))
    /\ Take(c, p, "create")

(* File::create, before any block has been read, whatever is there by now. *)
TruncateFile(c) ==
    LET p == fcall[c].path
    IN  /\ fcall[c].at = "create" /\ fcall' = [fcall EXCEPT ![c].at = "write"]
        /\ onTarget' = [onTarget EXCEPT ![p] = <<>>]
        /\ opened' = opened \cup {<<c, p>>}
        /\ shared' = shared \cup {o \in opened : o[2] = p}
                            \cup (IF Writers(p) = {} THEN {} ELSE {<<c, p>>})
        /\ IF Writers(p) = {} THEN cutOff' = cutOff \ {p} /\ mingled' = mingled \ {p}
           ELSE mingled' = mingled \cup {p} /\ UNCHANGED cutOff
        /\ UNCHANGED <<blockIs, got>>

BeginExtract(c, p) == fcall[c].how = "download" /\ Take(c, p, "write")

-----------------------------------------------------------------------------
(* The first byte of a block says whether it takes a key; the gRPC restores pass none. *)
HasKey(c) == NextBlock(c) \in Encrypted => fcall[c].how \notin {"grpc", "grpc over"}

\* Mutant: the digest is not compared.
MutantVerified(c) == blockIs[NextBlock(c)] # "gone" /\ HasKey(c)

(* read_block, decode_block and the digest. *)
Verified(c) == blockIs[NextBlock(c)] = "good" /\ HasKey(c)

Piece(b) == IF blockIs[b] \in {"rotten", "mismarked"} THEN "rotten" ELSE b

(* The file with a piece at the writer's own position. *)
Written(file, at, piece) ==
    [i \in 1 .. IF Len(file) > at THEN Len(file) ELSE at |->
        IF i = at THEN piece ELSE IF i <= Len(file) THEN file[i] ELSE "hole"]

(* One block further; after the last one the file is closed. *)
Further(c) ==
    fcall' = IF fcall[c].done + 1 < Len(FileOf(c)) THEN [fcall EXCEPT ![c].done = @ + 1]
             ELSE [fcall EXCEPT ![c].at = "next", ![c].done = 0]

WriteNext(c) ==
    /\ fcall[c].at = "write" /\ fcall[c].how # "download" /\ Verified(c) /\ Further(c)
    /\ onTarget' = [onTarget EXCEPT ![fcall[c].path] =
                        Written(@, fcall[c].done + 1, Piece(NextBlock(c)))]
    /\ UNCHANGED <<blockIs, got, opened, shared, cutOff, mingled>>

(* A block that is not as it should be, or a target that refuses the file or takes no more. *)
RestoreFails(c) ==
    /\ fcall[c].at \in {"next", "create", "write"} /\ fcall[c].how # "download"
    /\ fcall[c].at = "next" => fcall[c].left # {}
    /\ EndAsFailed({c}) /\ UNCHANGED blockIs

(* extract_file compares no digest.  Of what is rotten only a block that is still marked as
   encrypted is refused for certain: its tag is wrong. *)
Extractable(c) ==
    LET b == NextBlock(c)
    IN  blockIs[b] \in {"good", "mismarked"} \/ (blockIs[b] = "rotten" /\ b \notin Encrypted)

ExtractNext(c) ==
    /\ fcall[c].at = "write" /\ fcall[c].how = "download" /\ Extractable(c) /\ Further(c)
    /\ got' = [got EXCEPT ![c] = Append(@, Piece(NextBlock(c)))]
    /\ UNCHANGED <<blockIs, onTarget, opened, shared, cutOff, mingled>>

(* A block that cannot be decoded, or that cannot be read. *)
ExtractFails(c) ==
    /\ fcall[c].at = "write" /\ fcall[c].how = "download"
    /\ EndAsFailed({c}) /\ UNCHANGED blockIs

(* The disks of a VM are registered after the last of them is written, which may fail. *)
EndFiles(c) ==
    /\ fcall[c].at = "next" /\ fcall[c].left = {}
    /\ \/ /\ fcall' = [fcall EXCEPT ![c].at = "completed"]
          /\ UNCHANGED <<onTarget, got, opened, shared, cutOff, mingled>>
       \/ fcall[c].how = "vm" /\ EndAsFailed({c})
    /\ UNCHANGED blockIs

-----------------------------------------------------------------------------
(* External: a deletion or the medium takes a block. *)
LoseBlock(b) ==
    /\ Cardinality({d \in BlockIds : blockIs[d] # "good"}) < Damage
    /\ blockIs[b] = "good"
    /\ \E what \in {"rotten", "mismarked", "gone"} : blockIs' = [blockIs EXCEPT ![b] = what]
    /\ UNCHANGED <<onTarget, fcall, got, opened, shared, cutOff, mingled>>

(* The daemon stops: what was written stays. *)
RestoreRestart ==
    /\ \E c \in RestoreCall : fcall[c].at \in {"next", "create", "write"}
    /\ EndAsFailed({c \in RestoreCall : fcall[c].at # "new"}) /\ UNCHANGED blockIs

(* Calls that have not begun are alike: the next one is any of them. *)
NextFcall ==
    LET unused == {c \in RestoreCall : fcall[c] = NewFcall}
    IN  IF unused = {} THEN {} ELSE {CHOOSE c \in unused : TRUE}

RestoreNext ==
    \/ \E c \in NextFcall, s \in Snapshots, how \in Hows :
        \E files \in SUBSET FilesOf(s) \ {{}} : AskFiles(c, s, how, files)
    \/ \E c \in RestoreCall :
        \/ \E p \in Path : SkipFile(c, p) \/ LookAt(c, p) \/ BeginExtract(c, p)
        \/ TruncateFile(c) \/ WriteNext(c) \/ RestoreFails(c) \/ ExtractNext(c) \/ ExtractFails(c) \/ EndFiles(c)
    \/ \E b \in BlockIds : LoseBlock(b)
    \/ RestoreRestart

RestoreSpec == RestoreInit /\ [][RestoreNext]_restoreVars

-----------------------------------------------------------------------------
(* Every file that a restore wrote and calls completed is as the snapshot has it, whatever
   became of the blocks meanwhile, unless another restore wrote to it too. *)
CompletedWhole ==
    \A o \in opened \ shared :
        fcall[o[1]].at = "completed" => onTarget[o[2]] = BlocksOfFile[fcall[o[1]].of][o[2]]

(* A file that is neither the user's own nor a whole one of a snapshot is being written, or its
   last restore was cut off or ran into another one of it. *)
RemainsExplained ==
    \A p \in Path :
        \/ onTarget[p] \in {NoFile, OwnFile}
        \/ \E s \in Snapshots : p \in FilesOf(s) /\ onTarget[p] = BlocksOfFile[s][p]
        \/ Writers(p) # {} \/ p \in cutOff \cup mingled

(* What a download may deliver for a block that is not the block: it is rotten, and was stored
   without encryption or no longer says that it was stored with it. *)
MayRot(b) == b \notin Encrypted \/ blockIs[b] = "mismarked"

(* Nothing rotten reaches the target; of what is encrypted and still says so, no download either. *)
NothingRotten ==
    /\ \A p \in Path : \A i \in DOMAIN onTarget[p] : onTarget[p][i] # "rotten"
    /\ \A c \in RestoreCall :
        fcall[c].at = "completed" /\ fcall[c].how = "download" =>
            \A i \in DOMAIN FileOf(c) :
                got[c][i] = FileOf(c)[i] \/ (got[c][i] = "rotten" /\ MayRot(FileOf(c)[i]))

(* What a restore or a download delivers is what was backed up, or it is known not to be. *)
RestoreSound == CompletedWhole /\ RemainsExplained /\ NothingRotten
=============================================================================
