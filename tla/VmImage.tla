------------------------------ MODULE VmImage ------------------------------
(***************************************************************************)
(* What a VM snapshot holds and what its readers make of it.               *)
(*                                                                         *)
(* A VM job freezes the disks with a hypervisor snapshot and reads, of     *)
(* every disk, the ranges the hypervisor names as changed since the change *)
(* id it gives at that moment, or the whole disk if it tracks no changes.  *)
(* The manifest lists the blocks in the order they were read.  It is then  *)
(* read by a restore, a download, an NFS export and a flat iSCSI LUN.      *)
(*                                                                         *)
(* A disk is a sequence of cells 0 .. Capacity - 1; the content of a block *)
(* is the sequence of its cells' values, and 0 is the value of a cell that *)
(* was never written.                                                      *)
(***************************************************************************)
EXTENDS Integers, Sequences, SequencesExt, FiniteSetsExt

CONSTANTS
    Disks,       \* the VM's disks in the order the hypervisor lists them
    Capacity,    \* cells of a disk
    ReadChunk,   \* READ_CHUNK, in cells
    GuestWrites  \* bound on the writes of the guest

ASSUME VmImageAssumption ==
    /\ Capacity \in Nat \ {0} /\ ReadChunk \in Nat \ {0} /\ GuestWrites \in Nat
    /\ Disks \in Seq(ToSet(Disks))

\* The hypervisor lists a disk once, under a label of its own.
ASSUME DiskAssumption == \A i, j \in DOMAIN Disks : Disks[i] = Disks[j] => i = j

DiskSet == ToSet(Disks)
Cell == 0 .. Capacity - 1
Image == [Cell -> 0 .. GuestWrites]
VmBlock == [disk : DiskSet, offset : Cell, cells : Seq(0 .. GuestWrites)]

VARIABLES
    guest,     \* the disks as the guest sees them
    writes,    \* writes of the guest so far
    cbt,       \* disks for which the hypervisor gives a change id
    frozen,    \* the disks at the hypervisor snapshot
    changed,   \* cells written since then
    manifest,  \* blocks [disk, offset, cells] read so far
    job        \* -1: not started, then the disks read, then one more: saved

vmVars == <<guest, writes, cbt, frozen, changed, manifest, job>>

VmTypeOK ==
    /\ guest \in [DiskSet -> Image] /\ frozen \in [DiskSet -> Image]
    /\ writes \in 0 .. GuestWrites /\ cbt \subseteq DiskSet
    /\ changed \in [DiskSet -> SUBSET Cell]
    /\ manifest \in Seq(VmBlock) /\ \A b \in ToSet(manifest) : b.cells # <<>>
    /\ job \in -1 .. Len(Disks) + 1

VmInit ==
    /\ guest = [d \in DiskSet |-> [c \in Cell |-> 0]] /\ frozen = guest
    /\ writes = 0 /\ cbt \in SUBSET DiskSet
    /\ changed = [d \in DiskSet |-> {}]
    /\ manifest = <<>> /\ job = -1

Saved == job = Len(Disks) + 1

GuestWrite(d, c) ==
    /\ writes < GuestWrites /\ ~Saved
    /\ writes' = writes + 1
    /\ guest' = [guest EXCEPT ![d][c] = writes + 1]
    /\ changed' = [changed EXCEPT ![d] = @ \cup {c}]
    /\ UNCHANGED <<cbt, frozen, manifest, job>>

CreateSnapshot ==
    /\ job = -1 /\ job' = 0
    /\ frozen' = guest /\ changed' = [d \in DiskSet |-> {}]
    /\ UNCHANGED <<guest, writes, cbt, manifest>>

(***************************************************************************)
(* get_change_id asks for the id of the disk as it is now, and             *)
(* get_changed_blocks for what has changed since: the cells written after  *)
(* the snapshot.  Adjacent cells are one range.                            *)
(***************************************************************************)
QueryChanged(d) == changed[d]

Ranges(S) == {r \in S \X S : /\ r[1] <= r[2] /\ r[1] .. r[2] \subseteq S
                             /\ r[1] - 1 \notin S /\ r[2] + 1 \notin S}

ToRead(d) == IF d \in cbt THEN Ranges(QueryChanged(d)) ELSE {<<0, Capacity - 1>>}

\* Mutant: the loop over a range stops one chunk early.
MutantChunks(r) == {o \in r[1] .. r[2] : (o - r[1]) % ReadChunk = 0 /\ o + ReadChunk <= r[2]}

(* The offsets at which a range is read, ReadChunk cells at a time. *)
Chunks(r) == {o \in r[1] .. r[2] : (o - r[1]) % ReadChunk = 0}

BlockAt(d, r, o) ==
    LET end == Min({o + ReadChunk - 1, r[2]})
    IN  [disk |-> d, offset |-> o, cells |-> [i \in 1 .. end - o + 1 |-> frozen[d][o + i - 1]]]

ReadDisk ==
    /\ job \in 0 .. Len(Disks) - 1 /\ job' = job + 1
    /\ LET d == Disks[job + 1]
           blocks == UNION {{BlockAt(d, r, o) : o \in Chunks(r)} : r \in ToRead(d)}
       IN  \E n \in 0 .. Capacity : \E read \in [1 .. n -> blocks] :
              /\ ToSet(read) = blocks
              /\ \A i, j \in DOMAIN read : i < j => read[i].offset < read[j].offset
              /\ manifest' = manifest \o read
    /\ UNCHANGED <<guest, writes, cbt, frozen, changed>>

(* The hypervisor snapshot is removed, the manifest saved, the row inserted as Full. *)
SaveSnapshot ==
    /\ job = Len(Disks) /\ job' = job + 1
    /\ UNCHANGED <<guest, writes, cbt, frozen, changed, manifest>>

VmNext == ReadDisk \/ SaveSnapshot \/ CreateSnapshot
          \/ \E d \in DiskSet, c \in Cell : GuestWrite(d, c)

VmSpec == VmInit /\ [][VmNext]_vmVars
----------------------------------------------------------------------------
(* The readers. *)

BlocksOf(d) == {b \in ToSet(manifest) : b.disk = d}
End(b) == b.offset + Len(b.cells)
FileSize(d) == Max({0} \cup {End(b) : b \in BlocksOf(d)})

(* What the block of d at offset o has, if there is one. *)
CellsAt(d, o) ==
    LET at == {b \in BlocksOf(d) : b.offset = o}
    IN  IF at = {} THEN <<>> ELSE (CHOOSE b \in at : TRUE).cells

(* stream_restore writes the blocks of a path one after the other, ordered by offset. *)
Restored(d) ==
    LET written[o \in 0 .. Capacity] ==
            IF o = 0 THEN <<>> ELSE written[o - 1] \o CellsAt(d, o - 1)
    IN  written[Capacity]

(* extract_file_range: the parts of the blocks inside [start, end), ordered by offset and
   joined; the size of the file is the sum of its blocks. *)
Part(d, o, start, end) ==
    LET lo == Max({o, start}) hi == Min({o + Len(CellsAt(d, o)), end})
    IN  IF lo >= hi THEN <<>> ELSE SubSeq(CellsAt(d, o), lo - o + 1, hi - o)

Extracted(d, start, end) ==
    LET last == Min({end, Len(Restored(d))})
        joined[o \in 0 .. Capacity] ==
            IF o = 0 THEN <<>> ELSE joined[o - 1] \o Part(d, o - 1, start, last)
    IN  joined[Capacity]

\* Mutant: the source offset is taken from the request instead of the block.
MutantReadBacked(d, offset, len) ==
    [i \in 1 .. len |->
        LET c == offset + i - 1
            over == {b \in BlocksOf(d) : b.offset <= c /\ c < End(b)}
        IN  IF over = {} THEN 0
            ELSE LET b == CHOOSE b \in over : TRUE
                 IN  b.cells[Min({Len(b.cells), i})]]

(* read_backed_range: every block is copied to its place, holes read as 0. *)
ReadBacked(d, offset, len) ==
    [i \in 1 .. len |->
        LET c == offset + i - 1
            over == {b \in BlocksOf(d) : b.offset <= c /\ c < End(b)}
        IN  IF over = {} THEN 0
            ELSE LET b == CHOOSE b \in over : TRUE IN b.cells[c - b.offset + 1]]

(***************************************************************************)
(* The flat LUN.  The file of an offset is searched block by block, and    *)
(* every block passed moves the cursor by the size of its whole file; the  *)
(* base of the file that is found is summed file by file.                  *)
(***************************************************************************)
Places(d) == {i \in DOMAIN manifest : manifest[i].disk = d}
FirstAt(d) == Min(Places(d))
Before(d) == {e \in DiskSet : Places(e) # {} /\ FirstAt(e) < FirstAt(d)}

Cursor(i) ==
    LET passed[k \in 0 .. Len(manifest)] ==
            IF k = 0 THEN 0 ELSE passed[k - 1] + FileSize(manifest[k].disk)
    IN  passed[i - 1]

Base(d) ==
    LET seen[k \in 0 .. Len(manifest)] ==
            IF k = 0 THEN 0
            ELSE IF FirstAt(manifest[k].disk) = k THEN seen[k - 1] + FileSize(manifest[k].disk)
                 ELSE seen[k - 1]
    IN  seen[FirstAt(d) - 1]

Hits(offset) == {i \in DOMAIN manifest :
    Cursor(i) <= offset /\ offset < Cursor(i) + FileSize(manifest[i].disk)}

LunRead(offset) ==
    IF Hits(offset) = {} THEN 0
    ELSE LET d == manifest[Min(Hits(offset))].disk
         IN  ReadBacked(d, offset - Base(d), 1)[1]
----------------------------------------------------------------------------
(***************************************************************************)
(* A disk whose changes the hypervisor does not track is the same to all   *)
(* readers: what a restore writes, what a download joins from ranges, and  *)
(* what an export reads at any offset is the frozen disk.                  *)
(***************************************************************************)
ReadersAgree ==
    Saved => \A d \in DiskSet \ cbt :
        /\ Restored(d) = [i \in 1 .. Capacity |-> frozen[d][i - 1]]
        /\ ReadBacked(d, 0, Capacity) = Restored(d)
        /\ Extracted(d, 0, Capacity) = Restored(d)
        /\ \A c \in 1 .. Capacity - 1 :
              Extracted(d, 0, c) \o Extracted(d, c, Capacity) = Restored(d)

(***************************************************************************)
(* An export never moves a block: a disk reads, at every offset, as the    *)
(* frozen cell or as 0.                                                    *)
(***************************************************************************)
ExportInPlace ==
    Saved => \A d \in DiskSet, o, c \in Cell :
        o <= c => ReadBacked(d, o, Capacity - o)[c - o + 1] \in {0, frozen[d][c]}

(***************************************************************************)
(* "Treat the concatenation of all files as one flat LUN."  A file is at   *)
(* its place in the LUN if every file before it is a single block.         *)
(***************************************************************************)
LunInPlace ==
    Saved => \A d \in DiskSet :
        (Places(d) # {} /\ \A e \in Before(d) : \A i, j \in Places(e) : i = j)
        => \A c \in 0 .. FileSize(d) - 1 : LunRead(Base(d) + c) = ReadBacked(d, c, 1)[1]

(***************************************************************************)
(* What all readers make of a saved snapshot, together.                    *)
(***************************************************************************)
ImageReadable == ReadersAgree /\ ExportInPlace /\ LunInPlace

(***************************************************************************)
(* "Determine which byte ranges to read: CBT changed blocks when the       *)
(* hypervisor exposes a change id, otherwise the whole disk": a snapshot   *)
(* that is recorded as Full restores what the guest had written by the     *)
(* time the disks were frozen.                                             *)
(***************************************************************************)
FullSnapshotRestores ==
    Saved => \A d \in DiskSet, c \in Cell :
        frozen[d][c] # 0 => c + 1 \in DOMAIN Restored(d) /\ Restored(d)[c + 1] = frozen[d][c]
=============================================================================
