------------------------------ MODULE Chunker ------------------------------
(***************************************************************************)
(* The chunker: where find_chunk_boundary cuts, the chunks of a buffer,    *)
(* and the reader that cuts as it reads and drops what it has cut.  Bytes  *)
(* are counted from 0 as in the code.  The hash has the code's recurrence, *)
(* with a small modulus instead of 2^64.                                   *)
(***************************************************************************)
EXTENDS Integers, Sequences, SequencesExt, FiniteSetsExt

CONSTANTS
    MinChunk, AvgChunk, MaxChunk,   \* ChunkSizeConfig
    HashWindow,                     \* window_size
    HashModulus,                    \* 2^64
    ByteValue,                      \* values of a byte
    FileSizes,                      \* sizes of the files that are read
    ReadUnit                        \* most bytes of one read

(* No boundary looks at a byte before its chunk: the defaults have 4096 bytes and 48. *)
ASSUME ChunkerAssumption ==
    /\ {MinChunk, AvgChunk, MaxChunk, HashWindow, HashModulus, ReadUnit} \subseteq Nat \ {0}
    /\ HashWindow < MinChunk /\ MinChunk < MaxChunk /\ ByteValue \cup FileSizes \subseteq Nat

VARIABLES
    content,        \* the file
    consumed,       \* bytes that were read
    drained,        \* bytes that have left the front of the buffer
    cut             \* the chunks so far: <<offset, size>>

chunkVars == <<content, consumed, drained, cut>>

ChunkTypeOK ==
    /\ content \in Seq(ByteValue) /\ Len(content) \in FileSizes
    /\ drained <= consumed /\ consumed <= Len(content)
    /\ \A i \in DOMAIN cut : cut[i] \in Nat \X Nat

ChunkInit ==
    /\ content \in UNION {[1 .. n -> ByteValue] : n \in FileSizes}
    /\ consumed = 0 /\ drained = 0 /\ cut = <<>>

-----------------------------------------------------------------------------
Byte(data, i) == data[i + 1]
Least(a, b) == IF a < b THEN a ELSE b
Times(h, b) == (h * 131 + b) % HashModulus
MinusPower ==
    LET power[k \in 0 .. HashWindow] == IF k = 0 THEN 1 ELSE Times(power[k - 1], 0)
    IN  HashModulus - power[HashWindow]

(* The hash after the window before `from` (what of it is in the data) and the bytes from there
   to i: within HashWindow of the end a zero enters, and the byte that leaves is one before the
   window. *)
HashAt(data, from, end, i) ==
    LET first == IF from < HashWindow THEN 0 ELSE from - HashWindow
        initial[k \in 0 .. HashWindow] ==
            IF k = 0 THEN 0
            ELSE IF first + k - 1 < from THEN Times(initial[k - 1], Byte(data, first + k - 1))
                 ELSE initial[k - 1]
        entering(k) == IF k + HashWindow <= end THEN Byte(data, k) ELSE 0
        leaving(k) == IF k >= HashWindow + 1 THEN Byte(data, k - HashWindow - 1) ELSE 0
        slid[k \in 0 .. i] ==
            IF k < from THEN initial[HashWindow]
            ELSE (Times(slid[k - 1], entering(k)) + leaving(k) * MinusPower) % HashModulus
    IN  slid[i]

(* Where the chunk ends that begins at `start`, in data that ends at `end`. *)
FindBoundary(data, start, end) ==
    LET from == start + MinChunk
        to == Least(start + MaxChunk, end)
        cuts == {i \in from .. to - 1 : HashAt(data, from, to, i) % AvgChunk = 0}
    IN  IF from >= end THEN end ELSE IF cuts = {} THEN to ELSE Min(cuts) + 1

(* chunk_data: the chunks from `start` on *)
ChunksFrom(data, start) ==
    LET from[s \in 0 .. Len(data)] ==
            IF s = Len(data) THEN <<>>
            ELSE LET e == FindBoundary(data, s, Len(data)) IN <<<<s, e - s>>>> \o from[e]
    IN  from[start]

ChunksOf(data) == ChunksFrom(data, 0)

-----------------------------------------------------------------------------
(* chunk_reader *)

Buffer(n) == SubSeq(content, drained + 1, n)

(* The loop that cuts while there is a full window: the chunks it appends, offset by `at`. *)
\* Mutant: the loop goes by what is buffered and not by the largest chunk.
MutantCutFull(data, at) ==
    LET from[s \in 0 .. Len(data)] ==
            IF Len(data) - s < MinChunk THEN <<>>
            ELSE LET e == FindBoundary(SubSeq(data, s + 1, Len(data)), 0, Len(data) - s)
                 IN  <<<<at + s, e>>>> \o from[s + e]
    IN  from[0]

CutFull(data, at) ==
    LET from[s \in 0 .. Len(data)] ==
            IF Len(data) - s < MaxChunk THEN <<>>
            ELSE LET e == FindBoundary(SubSeq(data, s + 1, Len(data)), 0, MaxChunk)
                 IN  <<<<at + s, e>>>> \o from[s + e]
    IN  from[0]

(* The flush: the rest as one buffer. *)
CutRest(data, at) ==
    LET from[s \in 0 .. Len(data)] ==
            IF s = Len(data) THEN <<>>
            ELSE LET e == FindBoundary(SubSeq(data, s + 1, Len(data)), 0, Len(data) - s)
                 IN  <<<<at + s, e>>>> \o from[s + e]
    IN  from[0]

(* Where the chunks end that were cut behind `at`. *)
EndOf(chunks, at) == IF chunks = <<>> THEN at ELSE Last(chunks)[1] + Last(chunks)[2]

ReadMore(n) ==
    LET new == CutFull(Buffer(consumed + n), drained) IN
    /\ consumed + n <= Len(content) /\ consumed' = consumed + n
    /\ cut' = cut \o new /\ drained' = EndOf(new, drained)
    /\ UNCHANGED content

FlushRest ==
    /\ consumed = Len(content) /\ drained < consumed
    /\ cut' = cut \o CutRest(Buffer(consumed), drained) /\ drained' = consumed
    /\ UNCHANGED <<content, consumed>>

ChunkNext == FlushRest \/ \E n \in 1 .. ReadUnit : ReadMore(n)

ChunkSpec == ChunkInit /\ [][ChunkNext]_chunkVars

-----------------------------------------------------------------------------
(* However the file comes in, the reader has cut it where chunk_data would have, as far as it has
   come: a boundary depends neither on the reads nor on bytes that are not there yet. *)
StreamMatches == IsPrefix(cut, ChunksOf(content)) /\ (drained = Len(content) => cut = ChunksOf(content))

(* The chunks are the file: each begins where the one before ends, none is larger than the
   largest size, and only the last is smaller than the smallest. *)
ChunksTile ==
    /\ drained = EndOf(cut, 0)
    /\ \A i \in DOMAIN cut :
          /\ cut[i][1] = EndOf(SubSeq(cut, 1, i - 1), 0)
          /\ cut[i][2] \in 1 .. MaxChunk
          /\ cut[i][2] < MinChunk => cut[i][1] + cut[i][2] = Len(content)

ChunkingSound == StreamMatches /\ ChunksTile

=============================================================================
