------------------------------ MODULE Chunking ------------------------------
(***************************************************************************)
(* The chunks of a package (torrent.cpp: generateChunks, getChunk,         *)
(* putChunk, validateChunk, createTorrentDataFile; the columns of          *)
(* torrentDB.cpp): a peer divides its package and hashes the chunks, this  *)
(* node receives the hashes, asks for chunks, and writes those it accepts  *)
(* into its own file.                                                      *)
(*                                                                         *)
(* A byte is the pair of the content it is of and its place in it, so that *)
(* no two bytes are equal by chance, and a hash is the bytes it is made    *)
(* of.  A hash of 64 bits that has been through its 32-bit column is not   *)
(* the same any more (wide).  Offsets are computed in 32 bits.             *)
(*                                                                         *)
(* The calls come in any order that the class permits.  The node uses it   *)
(* more narrowly: it registers a torrent it received at its next start,    *)
(* after Load.                                                             *)
(***************************************************************************)
EXTENDS Integers, Sequences

CONSTANTS ChunkSize,    \* the bytes of a chunk: 32768
          OffsetLimit,  \* an offset is less than that: 2^32
          Sizes,        \* the sizes of packages the peer makes
          MaxContents   \* bound on the packages it makes under the name

ASSUME ChunkSizeAssumption == ChunkSize \in Nat \ {0}
ASSUME OffsetAssumption == OffsetLimit \in Nat \ {0}
ASSUME SizesAssumption == Sizes \subseteq Nat \ {0} /\ MaxContents \in Nat

VARIABLES theirs,   \* the torrent of the peer
          ours,     \* the torrent this node has received, and what it holds
          data,     \* the data file of this node; empty if there is none
          answer    \* what the job manager got from the peer

chunkVars == <<theirs, ours, data, answer>>

Hole == <<0, 0>>
Least(a, b) == IF a <= b THEN a ELSE b

\* Up to ChunkSize bytes of the package of size s of content c, from offset at.
Read(c, s, at) ==
  [k \in 1..(IF at < s THEN Least(ChunkSize, s - at) ELSE 0) |-> <<c, at + k>>]

\* The offset of getChunk and putChunk, in the arithmetic of unsigned int.
Offset(i) == (i * ChunkSize) % OffsetLimit

Hash(bytes) == [of |-> bytes, wide |-> TRUE]

\* What is left of a hash in a column of type INT.
Column(h) == [h EXCEPT !.wide = FALSE]
Columns(hashes) == [i \in DOMAIN hashes |-> Column(hashes[i])]

\* generateChunks: the file is read through, chunk after chunk, and of each
\* all bytes but the last are hashed.  Of a size that is a multiple of
\* ChunkSize the last read has no byte, and an exception ends the program.
HasChunks(s) == s % ChunkSize # 0
Chunks(c, s) ==
  [i \in 0..(s \div ChunkSize) |->
     LET chunk == Read(c, s, i * ChunkSize)
     IN  Hash([k \in 1..(Len(chunk) - 1) |-> chunk[k]])]

\* content 0: there is no torrent
NoTorrent == [content |-> 0, size |-> 0, hashes |-> << >>]
NotOurs == [content |-> 0, size |-> 0, hashes |-> << >>, held |-> {}]
NoAnswer == [index |-> -2, bytes |-> << >>]

ChunkInit ==
  /\ theirs = NoTorrent
  /\ ours = NotOurs
  /\ data = << >>
  /\ answer = NoAnswer

-----------------------------------------------------------------------------
(* The peer. *)

\* -tc, also of other files under the same name: Torrent::create.
Create(s) ==
  /\ theirs.content < MaxContents
  /\ HasChunks(s)
  /\ theirs' = [content |-> theirs.content + 1, size |-> s,
                hashes |-> Chunks(theirs.content + 1, s)]
  /\ UNCHANGED <<ours, data, answer>>

\* The peer starts again: its torrents come from the rows.
TheirsLoad ==
  /\ theirs.content # 0
  /\ theirs' = [theirs EXCEPT !.hashes = Columns(@)]
  /\ UNCHANGED <<ours, data, answer>>

\* ChunkReq: the peer reads the chunk, the exchange may be cut anywhere.
Answer(i, n) ==
  /\ answer = NoAnswer
  /\ theirs.content # 0 /\ ours.content # 0
  /\ LET chunk == Read(theirs.content, theirs.size, Offset(i))
     IN  /\ n <= Len(chunk)
         /\ answer' = [index |-> i, bytes |-> [k \in 1..n |-> chunk[k]]]
  /\ UNCHANGED <<theirs, ours, data>>

-----------------------------------------------------------------------------
(* This node. *)

\* createTorrentFromSerializedObj: all chunks are missing.
Receive ==
  /\ theirs.content # 0
  /\ ours.content = 0
  /\ ours' = [content |-> theirs.content, size |-> theirs.size,
              hashes |-> theirs.hashes, held |-> {}]
  /\ UNCHANGED <<theirs, data, answer>>

\* This node starts again: flags and hashes come from the rows.
Load ==
  /\ ours.content # 0
  /\ ours' = [ours EXCEPT !.hashes = Columns(@)]
  /\ answer' = NoAnswer
  /\ UNCHANGED <<theirs, data>>

\* createTorrentDataFile: a file of the right size.
DataFile == IF data = << >> THEN [k \in 1..ours.size |-> Hole] ELSE data

\* f with the bytes b, if there are any, from offset at
Written(f, at, b) ==
  IF b = << >> THEN f
  ELSE [k \in 1..(IF at + Len(b) > Len(f) THEN at + Len(b) ELSE Len(f)) |->
          IF k > at /\ k <= at + Len(b) THEN b[k - at]
          ELSE IF k <= Len(f) THEN f[k] ELSE Hole]

\* Slip: the length of the chunk is compared, and not its hash.
IsLongEnough(i, b) ==
  i \in DOMAIN ours.hashes /\ Len(ours.hashes[i].of) = Len(b)

\* validateChunk: all the bytes are hashed.
IsValid(i, b) == i \in DOMAIN ours.hashes /\ ours.hashes[i] = Hash(b)

\* completeRequest(ChunkReq): the data file is made if there is none, and the
\* chunk is put there if its hash is right.
Put ==
  /\ answer # NoAnswer
  /\ LET i == answer.index
         b == answer.bytes
     IN  IF IsValid(i, b)
           THEN /\ data' = Written(DataFile, Offset(i), b)
                /\ ours' = [ours EXCEPT !.held = @ \union {i}]
           ELSE data' = DataFile /\ UNCHANGED ours
  /\ answer' = NoAnswer
  /\ UNCHANGED theirs

\* The index of a request is one of a chunk, or -1 if none is missing.
Requests == DOMAIN ours.hashes \union {-1}

ChunkNext ==
  \/ \E s \in Sizes : Create(s)
  \/ TheirsLoad \/ Receive \/ Load \/ Put
  \/ \E i \in Requests, n \in 0..ChunkSize : Answer(i, n)

ChunkSpec == ChunkInit /\ [][ChunkNext]_chunkVars

-----------------------------------------------------------------------------
(* Properties. *)

Byte == (0..MaxContents) \X Nat
ByteString(n) == {b \in Seq(Byte) : Len(b) <= n}

ChunkTypeOK ==
  /\ theirs.content \in 0..MaxContents
  /\ theirs.size \in Sizes \union {0}
  /\ ours.content \in 0..theirs.content
  /\ ours.size \in Sizes \union {0}
  /\ ours.held \subseteq DOMAIN ours.hashes
  /\ data \in Seq(Byte)
  /\ answer.index \in -2..(ours.size \div ChunkSize)
  /\ answer.bytes \in ByteString(ChunkSize)

\* The bytes of chunk i of our torrent that its hash covers: all but the last.
Covered(i) ==
  {k \in 1..ours.size : i * ChunkSize < k /\ k < (i + 1) * ChunkSize /\ k < ours.size}

\* A chunk that this node holds, and gives to its peers, is where it belongs in
\* a file of the right size, and has every byte that its hash covers, whatever
\* was answered, cut off, created anew by the peer or wrapped around
\* (torrent.cpp, putChunk and validateChunk).
HeldIsGenuine ==
  ours.held # {} =>
    /\ Len(data) = ours.size
    /\ \A i \in ours.held : \A k \in Covered(i) : data[k] = <<ours.content, k>>

\* A chunk of our torrent that arrives whole is accepted (torrent.h: "divides
\* the package into chunks that can be transfered accross a channel and checked
\* against a hash").
GenuineChunkIsAccepted ==
  [][\A i \in DOMAIN ours.hashes :
       /\ Put
       /\ answer = [index |-> i, bytes |-> Read(ours.content, ours.size, i * ChunkSize)]
       => i \in ours'.held]_chunkVars
=============================================================================
