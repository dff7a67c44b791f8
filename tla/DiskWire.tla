------------------------------ MODULE DiskWire ------------------------------
(***************************************************************************)
(* The two servers that export a backed-up disk while it is recovered, as  *)
(* their connections see them: an iSCSI target, whose stream of PDUs only  *)
(* their lengths keep in step, and an NFS server, whose records carry      *)
(* their own.  The client frames its calls as the servers read them (the   *)
(* CDB in the data segment, no credentials before the arguments).  What a  *)
(* read of the disk is made of is VmImage's; here it is one file.          *)
(***************************************************************************)
EXTENDS Naturals, Sequences, FiniteSets, SequencesExt

CONSTANTS
    WireConn,       \* connections
    DiskSizes,      \* sizes of a disk, in bytes
    Sector,         \* bytes of a sector
    MaxRead,        \* MAX_READ_BYTES of either server
    Sockets,        \* connections at a time: 64
    AddressSpace,   \* 2^64
    Lbas,           \* sectors a client asks for
    WireCalls       \* bound: calls of a connection

ASSUME WireAssumption ==
    /\ {Sector, Sockets, AddressSpace} \subseteq Nat \ {0}
    /\ DiskSizes \cup Lbas \cup {MaxRead, WireCalls} \subseteq Nat
    /\ \A n \in DiskSizes : n < AddressSpace

VARIABLES
    export,         \* [by |-> "iscsi" or "nfs", size |-> bytes of the disk]
    conn,           \* each connection: [at, stream, answered, last]
    callsOf         \* history: the calls of each connection

wireVars == <<export, conn, callsOf>>

Stray == [to |-> [op |-> "nothing"], answer |-> [what |-> "ok"]]
NewConn == [at |-> "new", stream |-> <<>>, answered |-> 0, last |-> Stray]
Padding == [op |-> "padding"]

(* Byte i of the disk is i + 1, so that no two are alike and none is 0. *)
Disk(n) == [i \in 1 .. export.size |-> i][n]
NumBlocks == (export.size + Sector - 1) \div Sector

(* read_backed_range: zeros where no block is. *)
DiskRange(offset, len) == [i \in 1 .. len |-> IF offset + i <= export.size THEN Disk(offset + i) ELSE 0]

Pings == {[op |-> op, whole |-> whole] : op \in {"login", "text", "nop"}, whole \in BOOLEAN}
Commands == {[op |-> op] : op \in {"logout", "inquiry", "ready", "capacity", "cut", "header", "other",
                                   "unknown"}}
SectorReads == {[op |-> "read", lba |-> lba, blocks |-> n] : lba \in Lbas, n \in 0 .. 2}
NfsCalls == {[op |-> op] : op \in {"mnt", "lookup", "getroot", "getattr", "write", "list", "info",
                                   "unknown"}}
FileReads == {[op |-> "read", offset |-> o, count |-> n] : o \in 0 .. 2, n \in {0, 1, MaxRead + 1}}
Calls == IF export.by = "iscsi" THEN Pings \cup Commands \cup SectorReads ELSE NfsCalls \cup FileReads

(* PDUs whose data segment is not a multiple of four bytes long. *)
Unaligned(call) == call.op \in {"login", "text", "nop"} /\ ~call.whole

WireTypeOK ==
    /\ export.by \in {"iscsi", "nfs"} /\ export.size \in DiskSizes
    /\ \A c \in WireConn : conn[c].at \in {"new", "open", "astray", "closed"}
    /\ \A c \in WireConn : callsOf[c] \in Seq(Calls) /\ conn[c].stream \in Seq(Calls \cup {Padding})
    /\ \A c \in WireConn : conn[c].answered <= WireCalls

WireInit ==
    /\ export \in [by : {"iscsi", "nfs"}, size : DiskSizes]
    /\ conn = [c \in WireConn |-> NewConn] /\ callsOf = [c \in WireConn |-> <<>>]

Served == {c \in WireConn : conn[c].at \in {"open", "astray"}}

(* Of a connection that is closed nothing is kept. *)
Close(c) ==
    /\ conn' = [conn EXCEPT ![c] = [NewConn EXCEPT !.at = "closed"]]
    /\ callsOf' = [callsOf EXCEPT ![c] = <<>>]

(* A connection over the limit is dropped at once; the permit of one that ends is free again. *)
Accept(c) ==
    /\ conn[c] = NewConn
    /\ IF Cardinality(Served) < Sockets
       THEN conn' = [conn EXCEPT ![c].at = "open"] /\ UNCHANGED callsOf ELSE Close(c)
    /\ UNCHANGED export

(* The client sends without waiting for an answer, and pads as to_bytes does. *)
Send(c, call) ==
    /\ c \in Served /\ Len(callsOf[c]) < WireCalls
    /\ callsOf' = [callsOf EXCEPT ![c] = Append(@, call)]
    /\ conn' = [conn EXCEPT ![c].stream = @ \o (IF Unaligned(call) THEN <<call, Padding>> ELSE <<call>>)]
    /\ UNCHANGED export

-----------------------------------------------------------------------------
(* handle_scsi and the rest of handle_conn: the answers to a call, or "panic", or "end". *)
Good(data) == [what |-> "good", data |-> data]
Check == [what |-> "check"]

\* Mutant: a read that fails reads as zeros.
MutantReadBlocks(lba, n) ==
    {Good(DiskRange((lba * Sector) % AddressSpace, n * Sector)), Good([i \in 1 .. n * Sector |-> 0])}

(* The offset wraps around, or the multiplication panics, as the build has it. *)
ReadBlocks(lba, n) ==
    IF n = 0 THEN {Good(<<>>)}
    ELSE IF n > MaxRead \div Sector THEN {Check}
    ELSE {Good(DiskRange((lba * Sector) % AddressSpace, n * Sector)), Check}
         \cup (IF lba * Sector < AddressSpace THEN {} ELSE {[what |-> "panic"]})

(* The last sector of an empty disk wraps around, or the subtraction panics. *)
ReadCapacity ==
    IF NumBlocks = 0 THEN {[what |-> "last", last |-> AddressSpace - 1], [what |-> "panic"]}
    ELSE {[what |-> "last", last |-> NumBlocks - 1]}

(* A CDB that is cut off is indexed past its end; one in the header is not seen. *)
ScsiAnswers(call) ==
    CASE call.op \in {"login", "text", "nop"} -> {[what |-> "ok"]}
      [] call.op \in {"logout", "inquiry", "ready"} -> {Good(<<>>)}
      [] call.op = "capacity" -> ReadCapacity
      [] call.op = "read" -> ReadBlocks(call.lba, call.blocks)
      [] call.op = "cut" -> {[what |-> "panic"]}
      [] call.op \in {"header", "other"} -> {Check}
      [] call.op = "unknown" -> {[what |-> "end"]}

Smaller(a, b) == IF a < b THEN a ELSE b

(* A read that fails is an empty one, and every read is said to be the last. *)
NfsRead(offset, count) == {Good(DiskRange(offset, Smaller(count, MaxRead))), Good(<<>>)}

(* Nothing is written or made; there are no directories; the rest is answered for any handle. *)
OtherAnswers(call) ==
    CASE call.op = "write" -> {[what |-> "rofs"]}
      [] call.op = "list" -> {[what |-> "noent"], [what |-> "notdir"]}
      [] call.op = "info" -> {[what |-> "ok"]}

(* The handle that MNT gives is none of the server's; lookup asks for no handle. *)
NfsAnswers(call) ==
    CASE call.op \in {"mnt", "lookup", "getattr"} -> {[what |-> "ok"]}
      [] call.op = "getroot" -> {[what |-> "noent"]}
      [] call.op = "read" -> NfsRead(call.offset, call.count)
      [] call.op \in {"write", "list", "info"} -> OtherAnswers(call)
      [] call.op = "unknown" -> {[what |-> "unavailable"]}

Answers(call) == IF export.by = "iscsi" THEN ScsiAnswers(call) ELSE NfsAnswers(call)

(* One connection is served by one task, a call at a time. *)
Serve(c) ==
    /\ conn[c].at = "open" /\ conn[c].stream # <<>> /\ Head(conn[c].stream) # Padding
    /\ \E answer \in Answers(Head(conn[c].stream)) :
        IF answer.what \in {"panic", "end"} THEN Close(c)
        ELSE /\ conn' = [conn EXCEPT ![c].stream = Tail(@), ![c].answered = @ + 1,
                                     ![c].last = [to |-> Head(conn[c].stream), answer |-> answer]]
             /\ UNCHANGED callsOf
    /\ UNCHANGED export

(* The padding is read as the beginning of a PDU, once enough bytes have come: of a ping without a
   tag, which is answered, or of one that takes all that follows for its data. *)
GoAstray(c) ==
    /\ \/ conn[c].at = "open" /\ Len(conn[c].stream) > 1 /\ Head(conn[c].stream) = Padding
       \/ conn[c].at = "astray" /\ conn[c].stream # <<>>
    /\ \E answers \in {0, 1} :
        /\ conn[c].answered + answers <= Len(callsOf[c])
        /\ conn' = [conn EXCEPT ![c].at = "astray", ![c].stream = <<>>, ![c].answered = @ + answers,
                                ![c].last = IF answers = 0 THEN @ ELSE Stray]
    /\ UNCHANGED <<export, callsOf>>

Disconnect(c) ==
    /\ c \in Served /\ Close(c) /\ UNCHANGED export

WireNext ==
    \E c \in WireConn :
        \/ Accept(c) \/ Serve(c) \/ GoAstray(c) \/ Disconnect(c)
        \/ \E call \in Calls : Send(c, call)

WireSpec == WireInit /\ [][WireNext]_wireVars

-----------------------------------------------------------------------------
(* The n-th answer of a connection is the one to its n-th call, unless a PDU before it was padded. *)
InStep ==
    \A c \in WireConn :
        conn[c].answered > 0 =>
            \/ conn[c].last.to = callsOf[c][conn[c].answered]
            \/ \E i \in 1 .. Smaller(conn[c].answered, Len(callsOf[c])) : Unaligned(callsOf[c][i])

(* Every byte of a read that is answered as good is the one of the disk at its place, or a zero
   after the end of the disk, and there are as many as were asked for; over NFS there may be none.
   iSCSI serves sectors beyond its capacity too, wherever they wrap around to. *)
BytesAt(data, place) ==
    \A i \in DOMAIN data : data[i] = IF place + i <= export.size THEN Disk(place + i) ELSE 0

ReadsHonest ==
    \A c \in WireConn :
        LET call == conn[c].last.to
            answer == conn[c].last.answer
        IN  call.op = "read" /\ answer.what = "good" =>
                IF export.by = "iscsi"
                THEN /\ Len(answer.data) = call.blocks * Sector
                     /\ call.lba < NumBlocks => BytesAt(answer.data, call.lba * Sector)
                ELSE /\ Len(answer.data) \in {0, Smaller(call.count, MaxRead)}
                     /\ BytesAt(answer.data, call.offset)

(* What a connection is told is what it asked for, and there are not too many of them. *)
WireSound == InStep /\ ReadsHonest /\ Cardinality(Served) <= Sockets
=============================================================================
