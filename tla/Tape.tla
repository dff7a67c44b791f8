-------------------------------- MODULE Tape --------------------------------
(***************************************************************************)
(* The tape library: drives and the media pool, kept in memory, and the    *)
(* virtual tapes, files with an index of a reserved size followed by the   *)
(* data.  Appending to a tape reads its index, then the whole file, and    *)
(* writes the file anew; nothing keeps two appends to one tape apart, nor  *)
(* a format from an append.                                                *)
(*                                                                         *)
(* A file on a tape has length 1, its content is the call that wrote it.   *)
(***************************************************************************)
EXTENDS Naturals, Sequences, FiniteSets

CONSTANTS
    Drive,        \* tape drives
    Barcode,      \* barcodes of media
    Device,       \* virtual tapes (device_path)
    TapeCall,     \* calls of write_to_tape
    TapeName,     \* names of files on tapes
    NameIn,       \* the name each call writes
    FormatCall,   \* calls of format_media
    Nothing,      \* no media in the drive
    IndexMax,     \* entries the reserved index partition holds
    MediaSize     \* capacity_bytes of a medium, in files

ASSUME TapeAssumption ==
    /\ Nothing \notin Barcode \cup TapeName /\ NameIn \in [TapeCall -> TapeName]
    /\ IndexMax \in Nat /\ MediaSize \in Nat \ {0}

VARIABLES
    loaded,       \* loaded_media of the registered drives: a function on a set of drives
    pool,         \* media_pool: [at, status, used] of the barcodes in it
    tape,         \* each virtual tape: [whole, index, data]
    writing,      \* each write: [at, on, to, name, index, data]
    formatting    \* each format: [at, to, barcode]

(* History: no action reads these. *)
VARIABLES
    written,      \* [by, to, name]: writes that were acknowledged
    unsettled,    \* tapes that two writes, a format beside a write or another, a format that did
                  \* not come to its end, or a broken write have unsettled
    reused        \* archived media that retention or a write took back into use

tapeVars == <<loaded, pool, tape, writing, formatting, written, unsettled, reused>>

Media == [at : Device, status : {"available", "inuse", "full", "archived"}, used : Nat]
Unread == [whole |-> FALSE, index |-> <<>>, data |-> <<>>]
NoFormat == [at |-> "idle", to |-> Nothing, barcode |-> Nothing]
NoWrite == [at |-> "new", on |-> Nothing, to |-> Nothing, name |-> Nothing,
           index |-> <<>>, data |-> <<>>]
Over == [NoWrite EXCEPT !.at = "over"]
Steps == {"index", "data", "open", "fill", "loose fill", "done", "failed"}

TapeTypeOK ==
    /\ DOMAIN loaded \subseteq Drive /\ \A d \in DOMAIN loaded : loaded[d] \in Barcode \cup {Nothing}
    /\ DOMAIN pool \subseteq Barcode /\ \A b \in DOMAIN pool : pool[b] \in Media
    /\ \A p \in Device : tape[p].whole \in BOOLEAN /\ tape[p].data \in Seq(TapeCall)
    /\ \A p \in Device : \A i \in DOMAIN tape[p].index : tape[p].index[i].name \in TapeName
    /\ \A c \in TapeCall : writing[c].at \in Steps \cup {"new", "over"}
    /\ \A f \in FormatCall : formatting[f].at \in {"idle", "fill", "loose fill", "register"}
    /\ unsettled \subseteq Device /\ reused \subseteq Barcode

TapeInit ==
    /\ loaded = <<>> /\ pool = <<>> /\ tape = [p \in Device |-> Unread]
    /\ writing = [c \in TapeCall |-> NoWrite] /\ formatting = [f \in FormatCall |-> NoFormat]
    /\ written = {} /\ unsettled = {} /\ reused = {}

Put(f, k, v) == [j \in DOMAIN f \cup {k} |-> IF j = k THEN v ELSE f[j]]

(* Each write and read holds the drives' lock for reading until it answers; what changes a drive
   waits for all of them. *)
Waiting(c) == writing[c].at \in Steps \ {"loose fill"}
DrivesFree == \A c \in TapeCall : ~Waiting(c)
OnTape(p) == {c \in TapeCall : writing[c].at \in Steps /\ writing[c].to = p}

RegisterDrive(d, b) ==
    /\ DrivesFree /\ d \notin DOMAIN loaded /\ loaded' = Put(loaded, d, b)
    /\ UNCHANGED <<pool, tape, writing, formatting, written, unsettled, reused>>

(* Nothing asks whether another drive has the medium. *)
LoadMedia(d, b) ==
    /\ DrivesFree /\ d \in DOMAIN loaded /\ b \in DOMAIN pool
    /\ loaded' = Put(loaded, d, b)
    /\ UNCHANGED <<pool, tape, writing, formatting, written, unsettled, reused>>

EjectMedia(d) ==
    /\ DrivesFree /\ d \in DOMAIN loaded /\ loaded' = Put(loaded, d, Nothing)
    /\ UNCHANGED <<pool, tape, writing, formatting, written, unsettled, reused>>

(* A medium as the caller describes it, such as one of an earlier life of the daemon. *)
AddMedia(b, p, status) ==
    /\ b \notin DOMAIN pool
    /\ pool' = Put(pool, b, [at |-> p, status |-> status,
                             used |-> IF status = "archived" THEN MediaSize ELSE 0])
    /\ UNCHANGED <<loaded, tape, writing, formatting, written, unsettled, reused>>

BeingFormatted(p) == {f \in FormatCall : formatting[f].at # "idle" /\ formatting[f].to = p}

(* Formatting cuts the tape to nothing, writes an empty index, and only then looks the barcode up.
   It waits for no write and for no other format.  One that fails, is refused for its barcode or
   is left by its caller has erased the tape all the same. *)
FormatBegins(f, p, b) ==
    /\ formatting[f].at = "idle"
    /\ formatting' = [formatting EXCEPT ![f] = [at |-> "fill", to |-> p, barcode |-> b]]
    /\ tape' = [tape EXCEPT ![p] = Unread]
    /\ unsettled' = unsettled \cup (IF OnTape(p) \cup BeingFormatted(p) = {} THEN {} ELSE {p})
    /\ UNCHANGED <<loaded, pool, writing, written, reused>>

(* The empty index lies over what a write has put there since.  The tape may be as good as
   formatted when writing it fails. *)
FormatFills(f) ==
    LET p == formatting[f].to
        formatted == [tape EXCEPT ![p] = [whole |-> TRUE, index |-> <<>>, data |-> tape[p].data]]
    IN  /\ formatting[f].at \in {"fill", "loose fill"}
        /\ \/ /\ tape' = formatted /\ UNCHANGED unsettled
              /\ formatting' = [formatting EXCEPT ![f] =
                     IF @.at = "fill" THEN [@ EXCEPT !.at = "register"] ELSE NoFormat]
           \/ /\ tape' \in {tape, formatted} /\ unsettled' = unsettled \cup {p}
              /\ formatting' = [formatting EXCEPT ![f] = NoFormat]
        /\ UNCHANGED <<loaded, pool, writing, written, reused>>

FormatRegisters(f) ==
    LET p == formatting[f].to b == formatting[f].barcode IN
    /\ formatting[f].at = "register" /\ formatting' = [formatting EXCEPT ![f] = NoFormat]
    /\ IF b \in DOMAIN pool THEN unsettled' = unsettled \cup {p} /\ UNCHANGED <<pool, written>>
       ELSE /\ pool' = Put(pool, b, [at |-> p, status |-> "available", used |-> 0])
            /\ written' = {w \in written : w.to # p} /\ UNCHANGED unsettled
    /\ UNCHANGED <<loaded, tape, writing, reused>>

FormatLeft(f) ==
    /\ formatting[f].at \in {"fill", "register"}
    /\ formatting' = [formatting EXCEPT ![f] =
           IF @.at = "fill" THEN [@ EXCEPT !.at = "loose fill"] ELSE NoFormat]
    /\ unsettled' = unsettled \cup {formatting[f].to}
    /\ UNCHANGED <<loaded, pool, tape, writing, written, reused>>

(* Archived media whose retention is over are available again, with all that is on them. *)
ReleaseMedia ==
    LET over == {b \in DOMAIN pool : pool[b].status = "archived"} IN
    /\ over # {} /\ reused' = reused \cup over
    /\ pool' = [b \in DOMAIN pool |-> IF b \in over THEN [pool[b] EXCEPT !.status = "available"]
                                      ELSE pool[b]]
    /\ UNCHANGED <<loaded, tape, writing, formatting, written, unsettled>>

-----------------------------------------------------------------------------
(* write_to_tape and LtfsManager::append_file *)

Go(c, at) == writing' = [writing EXCEPT ![c].at = at]
Leave(c) == writing' = [writing EXCEPT ![c] = Over]

(* Only a full medium is refused: another write may be on it, or it is archived. *)
WriteBegins(c, d) ==
    /\ writing[c].at = "new" /\ d \in DOMAIN loaded /\ loaded[d] \in DOMAIN pool
    /\ LET b == loaded[d] IN
       /\ pool[b].status # "full"
       /\ pool' = [pool EXCEPT ![b].status = "inuse"]
       /\ writing' = [writing EXCEPT ![c] = [at |-> "index", on |-> b, to |-> pool[b].at,
                                       name |-> NameIn[c], index |-> <<>>, data |-> <<>>]]
       /\ unsettled' = unsettled \cup
              (IF OnTape(pool[b].at) \cup BeingFormatted(pool[b].at) = {} THEN {} ELSE {pool[b].at})
       /\ reused' = reused \cup (IF pool[b].status = "archived" THEN {b} ELSE {})
    /\ UNCHANGED <<loaded, tape, formatting, written>>

(* An index that outgrew its partition is cut off, and no JSON any more. *)
Readable(t) == t.whole /\ Len(t.index) <= IndexMax

ReadIndex(c) ==
    /\ writing[c].at = "index"
    /\ IF Readable(tape[writing[c].to])
         THEN writing' = [writing EXCEPT ![c].at = "data", ![c].index = tape[writing[c].to].index]
         ELSE Go(c, "failed")
    /\ UNCHANGED <<loaded, pool, tape, formatting, written, unsettled, reused>>

ReadTape(c) ==
    /\ writing[c].at = "data"
    /\ writing' = [writing EXCEPT ![c].at = "open", ![c].data = tape[writing[c].to].data]
    /\ UNCHANGED <<loaded, pool, tape, formatting, written, unsettled, reused>>

(* fs::write opens the file and cuts it to nothing, then writes what it has. *)
OpenTape(c) ==
    /\ writing[c].at = "open" /\ tape' = [tape EXCEPT ![writing[c].to] = Unread]
    /\ Go(c, "fill") /\ UNCHANGED <<loaded, pool, formatting, written, unsettled, reused>>

\* Mutant: the end of the data is where the last file begins.
MutantDataEnd(index) == IF index = <<>> THEN 0 ELSE index[Len(index)].offset

(* The end of the data by the index as it was read, whatever the data is by now. *)
DataEnd(index) ==
    LET ends == {index[i].offset + 1 : i \in DOMAIN index} IN
    IF ends = {} THEN 0 ELSE CHOOSE e \in ends : \A f \in ends : f <= e

(* The new file lies over what another writer has put there since the file was opened.  A write
   that breaks off leaves nothing that reads, or the index without the new file. *)
Appended(c) ==
    LET data == Append(writing[c].data, c) old == tape[writing[c].to].data IN
    [whole |-> TRUE,
     index |-> Append(writing[c].index, [name |-> writing[c].name,
                                         offset |-> DataEnd(writing[c].index)]),
     data |-> data \o SubSeq(old, Len(data) + 1, Len(old))]

FillTape(c) ==
    /\ writing[c].at \in {"fill", "loose fill"}
    /\ \/ /\ tape' = [tape EXCEPT ![writing[c].to] = Appended(c)]
          /\ IF writing[c].at = "fill" THEN Go(c, "done") ELSE Leave(c)
          /\ UNCHANGED unsettled
       \/ /\ IF writing[c].at = "fill" THEN Go(c, "failed") ELSE Leave(c)
          /\ unsettled' = unsettled \cup {writing[c].to}
          /\ \/ UNCHANGED tape
             \/ tape' = [tape EXCEPT ![writing[c].to] = [Appended(c) EXCEPT
                             !.data = SubSeq(@, 1, Len(writing[c].data))]]
    /\ UNCHANGED <<loaded, pool, formatting, written, reused>>

WriteEnds(c) ==
    /\ writing[c].at = "done"
    /\ LET used == pool[writing[c].on].used + 1 IN
       pool' = [pool EXCEPT ![writing[c].on].used = used,
                            ![writing[c].on].status = IF used >= MediaSize THEN "full"
                                                   ELSE "available"]
    /\ written' = written \cup {[by |-> c, to |-> writing[c].to, name |-> writing[c].name]}
    /\ Leave(c) /\ UNCHANGED <<loaded, tape, unsettled, reused, formatting>>

(* Whatever the medium was, it is available after a failure. *)
WriteFails(c) ==
    /\ writing[c].at = "failed" /\ pool' = [pool EXCEPT ![writing[c].on].status = "available"]
    /\ Leave(c) /\ UNCHANGED <<loaded, tape, formatting, written, unsettled, reused>>

(* The caller hangs up and the handler is dropped where it waits; a file operation that has
   started goes on. *)
CallerLeaves(c) ==
    /\ Waiting(c) /\ IF writing[c].at = "fill" THEN Go(c, "loose fill") ELSE Leave(c)
    /\ UNCHANGED <<loaded, pool, tape, formatting, written, unsettled, reused>>

(* Drives and pool are gone with the process, the tapes stay as they are. *)
TapeRestart ==
    /\ loaded' = <<>> /\ pool' = <<>> /\ reused' = {}
    /\ writing' = [c \in TapeCall |-> IF writing[c].at \in Steps THEN Over ELSE writing[c]]
    /\ formatting' = [f \in FormatCall |-> NoFormat]
    /\ unsettled' = unsettled
           \cup {writing[c].to : c \in {e \in TapeCall : writing[e].at \in {"fill", "loose fill"}}}
           \cup {formatting[f].to : f \in {e \in FormatCall : formatting[e].at # "idle"}}
    /\ UNCHANGED <<tape, written>>

TapeNext ==
    \/ \E d \in Drive, b \in Barcode \cup {Nothing} : RegisterDrive(d, b)
    \/ \E d \in Drive, b \in Barcode : LoadMedia(d, b)
    \/ \E d \in Drive : EjectMedia(d)
    \/ \E b \in Barcode, p \in Device, s \in {"available", "archived"} : AddMedia(b, p, s)
    \/ \E f \in FormatCall, p \in Device, b \in Barcode : FormatBegins(f, p, b)
    \/ \E f \in FormatCall : FormatFills(f) \/ FormatRegisters(f) \/ FormatLeft(f)
    \/ ReleaseMedia
    \/ \E c \in TapeCall, d \in Drive : WriteBegins(c, d)
    \/ \E c \in TapeCall : ReadIndex(c) \/ ReadTape(c) \/ OpenTape(c) \/ FillTape(c)
                           \/ WriteEnds(c) \/ WriteFails(c) \/ CallerLeaves(c)
    \/ TapeRestart

TapeSpec == TapeInit /\ [][TapeNext]_tapeVars

-----------------------------------------------------------------------------
(* read_file: the first entry of the name, and what lies at its offset. *)
ReadFile(p, n) ==
    LET t == tape[p] named == {i \in DOMAIN t.index : t.index[i].name = n} IN
    IF ~Readable(t) \/ named = {} THEN {}
    ELSE LET at == t.index[CHOOSE i \in named : \A j \in named : i <= j].offset IN
         IF at < Len(t.data) THEN {t.data[at + 1]} ELSE {}

(***************************************************************************)
(* What a caller was told is written reads back, unless it was written     *)
(* under a name the tape already had, the index has outgrown its           *)
(* partition, the tape is being formatted, or a second write, a format     *)
(* that failed, was refused, left or came beside a write, or a write that  *)
(* broke off has unsettled the tape; and a medium that is used up is not   *)
(* offered again, unless retention reused it or two writes shared its      *)
(* tape.                                                                   *)
(***************************************************************************)
TapeReadsBack ==
    \A w \in written :
        LET t == tape[w.to] IN
        \/ ReadFile(w.to, w.name) = {w.by}
        \/ w.to \in unsettled \/ Len(t.index) > IndexMax \/ BeingFormatted(w.to) # {}
        \/ \E c \in TapeCall : writing[c].at \in {"fill", "loose fill"} /\ writing[c].to = w.to
        \/ Cardinality({i \in DOMAIN t.index : t.index[i].name = w.name}) > 1

UsedUpIsFull ==
    \A b \in DOMAIN pool :
        \/ pool[b].used < MediaSize
        \/ pool[b].used = MediaSize /\ pool[b].status # "available"
        \/ b \in reused \/ pool[b].at \in unsettled

TapeSound == TapeReadsBack /\ UsedUpIsFull
=============================================================================
