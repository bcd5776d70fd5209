-------------------------- MODULE PackagingProofs --------------------------
(***************************************************************************)
(* The chunks of torrents and their packages.                              *)
(*                                                                         *)
(* A chunk that is held is genuine for any size of chunks, packages and    *)
(* offsets: the hash ties the bytes to their place, so that a chunk that   *)
(* is read at an offset that has wrapped around is never accepted, but for *)
(* one of no bytes.                                                        *)
(*                                                                         *)
(* A package that is made, or unpacked, while the other thread is at rest  *)
(* comes out right, for any names; and no file temp outlives the work but  *)
(* that of a program that ended.  A thread that is alone has found the     *)
(* other idle at its beginning, and loses the flag when the other begins:  *)
(* so that, as long as it keeps it, every change of temp and of the        *)
(* package is its own.                                                     *)
(*                                                                         *)
(* The last theorem is about Chunking and Packaging together, as they are  *)
(* composed in MCPackage.                                                  *)
(***************************************************************************)
EXTENDS MCPackage, SequenceTheorems, TLAPS

-----------------------------------------------------------------------------
(* Chunks. *)

\* The part of chunk i that is hashed.
Part(c, s, i) ==
  [k \in 1..(Len(Read(c, s, i * ChunkSize)) - 1) |-> Read(c, s, i * ChunkSize)[k]]

\* The hashes of a torrent are those of its content, whole or cut.
HashesFit(t) ==
  /\ t.size \in Nat
  /\ DOMAIN t.hashes = 0..(t.size \div ChunkSize)
  /\ \A i \in DOMAIN t.hashes :
       /\ t.hashes[i] = [of |-> t.hashes[i].of, wide |-> t.hashes[i].wide]
       /\ t.hashes[i].of = Part(t.content, t.size, i)

Records ==
  /\ theirs = [content |-> theirs.content, size |-> theirs.size,
               hashes |-> theirs.hashes]
  /\ ours = [content |-> ours.content, size |-> ours.size,
             hashes |-> ours.hashes, held |-> ours.held]
  /\ answer = [index |-> answer.index, bytes |-> answer.bytes]

\* What was answered is a part of some package, at the offset of the index.
AnswerIsRead ==
  \E c \in Nat : \A k \in 1..Len(answer.bytes) :
    answer.bytes[k] = <<c, Offset(answer.index) + k>>

\* There is a data file, of the right size, or none.
DataFits ==
  /\ data = << >> \/ Len(data) = ours.size
  /\ ours.content = 0 => data = << >> /\ ours.held = {} /\ answer = NoAnswer
  /\ ours.content # 0 => ours.size \in Sizes
  /\ theirs.content # 0 => theirs.size \in Sizes

Inv ==
  /\ ChunkTypeOK
  /\ Records
  /\ theirs.content # 0 => HashesFit(theirs)
  /\ ours.content # 0 => HashesFit(ours)
  /\ AnswerIsRead
  /\ DataFits
  /\ HeldIsGenuine

(* What is read, written and hashed. *)

LEMMA Quotient ==
  ASSUME NEW s \in Nat
  PROVE  s \div ChunkSize \in Nat
BY ChunkSizeAssumption

LEMMA SequenceOf ==
  ASSUME NEW S, NEW n \in Nat, NEW f, f \in [1..n -> S]
  PROVE  f \in Seq(S) /\ Len(f) = n /\ DOMAIN f = 1..n
<1>1. f \in Seq(S)
  BY SeqDef
<1>2. DOMAIN f = 1..n /\ DOMAIN f = 1..Len(f) /\ Len(f) \in Nat
  BY <1>1, LenProperties
<1> QED
  BY <1>1, <1>2

\* A read is a sequence of at most ChunkSize bytes, those of its place.
LEMMA ReadIs ==
  ASSUME NEW c \in 0..MaxContents, NEW s \in Nat, NEW offset \in Nat
  PROVE  /\ Read(c, s, offset) \in Seq(Byte)
         /\ Len(Read(c, s, offset)) = IF offset < s THEN Least(ChunkSize, s - offset) ELSE 0
         /\ Len(Read(c, s, offset)) \in 0..ChunkSize
         /\ \A k \in 1..Len(Read(c, s, offset)) : Read(c, s, offset)[k] = <<c, offset + k>>
<1> DEFINE n == IF offset < s THEN Least(ChunkSize, s - offset) ELSE 0
<1>1. n \in 0..ChunkSize /\ n \in Nat
  BY ChunkSizeAssumption DEF Least
<1>2. Read(c, s, offset) = [k \in 1..n |-> <<c, offset + k>>]
  BY DEF Read
<1>3. Read(c, s, offset) \in [1..n -> Byte]
  BY <1>1, <1>2 DEF Byte
<1> HIDE DEF n
<1>4. Read(c, s, offset) \in Seq(Byte) /\ Len(Read(c, s, offset)) = n
  BY <1>1, <1>3, SequenceOf
<1> QED
  BY <1>1, <1>2, <1>4 DEF n

\* The part that is hashed has one byte less.
LEMMA PartIs ==
  ASSUME NEW c \in 0..MaxContents, NEW s \in Nat, NEW i \in Nat
  PROVE  LET chunk == Read(c, s, i * ChunkSize)
             n == IF chunk = << >> THEN 0 ELSE Len(chunk) - 1
         IN  /\ n \in 0..ChunkSize
             /\ Part(c, s, i) \in Seq(Byte)
             /\ Len(Part(c, s, i)) = n
             /\ \A k \in 1..n : Part(c, s, i)[k] = <<c, i * ChunkSize + k>>
<1> DEFINE chunk == Read(c, s, i * ChunkSize)
           n == IF chunk = << >> THEN 0 ELSE Len(chunk) - 1
<1>1. i * ChunkSize \in Nat
  BY ChunkSizeAssumption
<1>2. PICK offset \in Nat : offset = i * ChunkSize
  BY <1>1
<1>3. /\ chunk \in Seq(Byte) /\ Len(chunk) \in 0..ChunkSize
      /\ \A k \in 1..Len(chunk) : chunk[k] = <<c, offset + k>>
  BY <1>2, ReadIs
<1>4. /\ n \in 0..ChunkSize /\ n \in Nat /\ 1..n = 1..(Len(chunk) - 1)
      /\ n <= Len(chunk)
  BY <1>3, EmptySeq, ChunkSizeAssumption
<1>5. Part(c, s, i) = [k \in 1..(Len(chunk) - 1) |-> chunk[k]]
  BY DEF Part
<1> HIDE DEF chunk, n
<1>6. Part(c, s, i) = [k \in 1..n |-> chunk[k]]
  BY <1>4, <1>5
<1>7. \A k \in 1..n : chunk[k] \in Byte /\ chunk[k] = <<c, offset + k>>
  BY <1>3, <1>4, ElementOfSeq
<1>8. Part(c, s, i) \in [1..n -> Byte]
  BY <1>6, <1>7
<1>9. Part(c, s, i) \in Seq(Byte) /\ Len(Part(c, s, i)) = n
  BY <1>4, <1>8, SequenceOf
<1> QED
  BY <1>2, <1>4, <1>6, <1>7, <1>9 DEF chunk, n

\* The hash of a chunk ties its bytes to their place: what is accepted is the
\* part of the chunk that the hash covers, and is written where it belongs.
LEMMA AcceptedIsGenuine ==
  ASSUME Inv, answer # NoAnswer, NEW i, i = answer.index, NEW b, b = answer.bytes,
         IsValid(i, b), NEW base, base = i * ChunkSize
  PROVE  /\ i \in Nat /\ base \in Nat /\ b \in Seq(Byte)
         /\ b = << >> => Covered(i) = {}
         /\ b # << >> =>
              /\ Offset(i) = base
              /\ base + Len(b) <= ours.size
              /\ \A k \in 1..Len(b) : b[k] = <<ours.content, base + k>>
              /\ \A k \in Covered(i) : k - base \in 1..Len(b)
<1> DEFINE c == ours.content
           s == ours.size
           chunk == Read(c, s, i * ChunkSize)
           n == IF chunk = << >> THEN 0 ELSE Len(chunk) - 1
<1>1. /\ ours.content # 0 /\ HashesFit(ours) /\ s \in Nat
      /\ c \in 0..MaxContents
  BY SMTT(30), SizesAssumption DEF Inv, DataFits, ChunkTypeOK, HashesFit
<1>2. i \in Nat /\ ours.hashes[i].of = Part(c, s, i)
  <2>1. i \in DOMAIN ours.hashes /\ DOMAIN ours.hashes = 0..(s \div ChunkSize)
    BY <1>1 DEF IsValid, HashesFit
  <2>2. PICK q \in Nat : q = s \div ChunkSize
    BY <1>1, Quotient
  <2>3. i \in Nat
    BY <2>1, <2>2
  <2>4. ours.hashes[i].of = Part(ours.content, ours.size, i)
    BY <1>1, <2>1 DEF HashesFit
  <2> QED
    BY <2>3, <2>4
<1>3. b = Part(c, s, i)
  <2>1. ours.hashes[i] = Hash(b)
    BY DEF IsValid
  <2>2. Hash(b).of = b
    BY DEF Hash
  <2> QED
    BY <1>2, <2>1, <2>2
<1>4. base \in Nat
  BY <1>2, ChunkSizeAssumption
<1>5. /\ Len(chunk) = IF base < s THEN Least(ChunkSize, s - base) ELSE 0
      /\ chunk \in Seq(Byte)
  <2>1. PICK c1 \in 0..MaxContents, s1 \in Nat, at1 \in Nat :
          c1 = c /\ s1 = s /\ at1 = i * ChunkSize /\ at1 = base
    BY <1>1, <1>4
  <2>2. /\ Read(c1, s1, at1) \in Seq(Byte)
        /\ Len(Read(c1, s1, at1)) =
             IF at1 < s1 THEN Least(ChunkSize, s1 - at1) ELSE 0
    BY ReadIs
  <2> QED
    BY <2>1, <2>2
<1>6. /\ n \in 0..ChunkSize /\ b \in Seq(Byte) /\ Len(b) = n
      /\ \A k \in 1..n : b[k] = <<c, base + k>>
  <2>1. PICK c1 \in 0..MaxContents, s1 \in Nat : c1 = c /\ s1 = s
    BY <1>1
  <2>2. LET chunk1 == Read(c1, s1, i * ChunkSize)
            n1 == IF chunk1 = << >> THEN 0 ELSE Len(chunk1) - 1
        IN  /\ n1 \in 0..ChunkSize
            /\ Part(c1, s1, i) \in Seq(Byte)
            /\ Len(Part(c1, s1, i)) = n1
            /\ \A k \in 1..n1 : Part(c1, s1, i)[k] = <<c1, i * ChunkSize + k>>
    BY <1>2, PartIs
  <2> QED
    BY <1>3, <2>1, <2>2
<1>7. Covered(i) = {k \in 1..s : base < k /\ k < base + ChunkSize /\ k < s}
  BY <1>2, ChunkSizeAssumption DEF Covered
<1>8. chunk = << >> <=> Len(chunk) = 0
  BY <1>5, EmptySeq
<1>9. \A k \in Covered(i) : k - base \in 1..Len(b)
  <2> SUFFICES ASSUME NEW k \in 1..s, base < k, k < base + ChunkSize, k < s
               PROVE  k - base \in 1..n
    BY <1>6, <1>7
  <2>1. base < s /\ Len(chunk) = Least(ChunkSize, s - base)
    BY <1>1, <1>4, <1>5
  <2>2. n = Least(ChunkSize, s - base) - 1
    BY <1>1, <1>4, <1>8, <2>1, ChunkSizeAssumption DEF Least
  <2> QED
    BY SMTT(30), <1>1, <1>4, <2>1, <2>2, ChunkSizeAssumption DEF Least
<1>10. ASSUME b = << >>
       PROVE  Covered(i) = {}
  <2>1. Len(b) = 0
    BY <1>10, EmptySeq
  <2> QED
    BY <1>9, <2>1
<1>11. ASSUME b # << >>
       PROVE  Offset(i) = base /\ base + Len(b) <= s
  <2>1. Len(b) >= 1 /\ Len(b) = n /\ n \in Nat
    BY <1>6, <1>11, EmptySeq
  <2>2. PICK d \in Nat : \A k \in 1..Len(b) : b[k] = <<d, Offset(i) + k>>
    BY DEF Inv, AnswerIsRead
  <2>3. 1 \in 1..Len(b) /\ 1 \in 1..n
    BY <2>1
  <2>4. <<d, Offset(i) + 1>> = <<c, base + 1>>
    BY <1>6, <2>2, <2>3
  <2>5. Offset(i) \in Nat
    BY <1>2, ChunkSizeAssumption, OffsetAssumption DEF Offset
  <2>6. Offset(i) = base
    BY <1>4, <2>4, <2>5
  <2>7. base < s /\ n <= s - base
    BY <1>1, <1>4, <1>5, <1>8, <2>1, ChunkSizeAssumption DEF Least
  <2> QED
    BY <1>1, <1>4, <2>1, <2>6, <2>7
<1> QED
  BY <1>2, <1>4, <1>6, <1>9, <1>10, <1>11

\* The data file that is there, or is made, has the right size.
LEMMA DataFileFits ==
  ASSUME Inv, ours.content # 0
  PROVE  DataFile \in Seq(Byte) /\ Len(DataFile) = ours.size /\ ours.size \in Nat
<1>1. ours.size \in Nat
  BY SizesAssumption DEF Inv, DataFits
<1>4. data \in Seq(Byte)
  BY DEF Inv, ChunkTypeOK
<1>2. CASE data = << >>
  <2>1. Hole \in Byte
    BY SizesAssumption DEF Hole, Byte
  <2>2. DataFile = [k \in 1..ours.size |-> Hole]
    BY <1>2 DEF DataFile
  <2>3. DataFile \in [1..ours.size -> Byte]
    BY <2>1, <2>2
  <2> QED
    BY <1>1, <2>3, SequenceOf
<1>3. CASE data # << >>
  BY <1>1, <1>3, <1>4 DEF DataFile, Inv, DataFits
<1> QED
  BY <1>2, <1>3

\* Bytes written inside of a file leave its size, and the bytes around them.
LEMMA WrittenInside ==
  ASSUME NEW f \in Seq(Byte), NEW b \in Seq(Byte), NEW offset \in Nat,
         b # << >>, offset + Len(b) <= Len(f)
  PROVE  /\ Written(f, offset, b) \in Seq(Byte)
         /\ Len(Written(f, offset, b)) = Len(f)
         /\ \A k \in 1..Len(f) :
              Written(f, offset, b)[k] = IF k - offset \in 1..Len(b) THEN b[k - offset] ELSE f[k]
<1>1. Len(f) \in Nat /\ Len(b) \in Nat
  BY LenProperties
<1>2. Written(f, offset, b) =
        [k \in 1..Len(f) |-> IF k > offset /\ k <= offset + Len(b) THEN b[k - offset]
                             ELSE IF k <= Len(f) THEN f[k] ELSE Hole]
  BY <1>1 DEF Written
<1>3. \A k \in 1..Len(f) :
        Written(f, offset, b)[k] = IF k - offset \in 1..Len(b) THEN b[k - offset] ELSE f[k]
  BY <1>1, <1>2
<1>4. \A k \in 1..Len(f) : Written(f, offset, b)[k] \in Byte
  BY <1>1, <1>3, ElementOfSeq
<1>5. Written(f, offset, b) \in [1..Len(f) -> Byte]
  BY <1>2, <1>4
<1> QED
  BY <1>1, <1>3, <1>5, SequenceOf

(* The initial states, and every step. *)

LEMMA InitInv == ChunkInit => Inv
<1> SUFFICES ASSUME ChunkInit PROVE Inv
  OBVIOUS
<1>1. ours = NotOurs /\ theirs = NoTorrent /\ data = << >> /\ answer = NoAnswer
  BY DEF ChunkInit
<1>2. data \in Seq(Byte) /\ answer.bytes \in ByteString(ChunkSize) /\ Len(answer.bytes) = 0
  BY <1>1, EmptySeq, ChunkSizeAssumption DEF ByteString, NoAnswer
<1>3. ours.size \div ChunkSize = 0
  BY <1>1, ChunkSizeAssumption DEF NotOurs
<1>4. ChunkTypeOK
  BY <1>1, <1>2, <1>3, SizesAssumption DEF ChunkTypeOK, NoTorrent, NotOurs, NoAnswer
<1>5. AnswerIsRead
  BY <1>2 DEF AnswerIsRead
<1> QED
  BY <1>1, <1>4, <1>5
  DEF Inv, Records, DataFits, HeldIsGenuine, NoTorrent, NotOurs, NoAnswer

\* The chunks that are held have a data file.
LEMMA HeldHasData ==
  ASSUME Inv, ours.held # {}
  PROVE  DataFile = data /\ ours.content # 0
<1>1. ours.content # 0
  BY DEF Inv, DataFits
<1>2. ASSUME data = << >>
      PROVE  FALSE
  <2>1. ours.size = 0
    BY <1>2, EmptySeq DEF Inv, HeldIsGenuine
  <2> QED
    BY <1>1, <2>1, SizesAssumption DEF Inv, DataFits
<1> QED
  BY <1>1, <1>2 DEF DataFile

\* Putting a chunk that is accepted makes it genuine, and leaves those that
\* are held genuine.
LEMMA PutWrites ==
  ASSUME Inv, answer # NoAnswer, NEW i, i = answer.index, NEW b, b = answer.bytes,
         IsValid(i, b), NEW w, w = Written(DataFile, Offset(i), b)
  PROVE  /\ w \in Seq(Byte) /\ Len(w) = ours.size
         /\ \A j \in ours.held \union {i} : \A k \in Covered(j) :
              w[k] = <<ours.content, k>>
<1>1. PICK base : base = i * ChunkSize
  OBVIOUS
<1>2. /\ i \in Nat /\ base \in Nat /\ b \in Seq(Byte)
      /\ b = << >> => Covered(i) = {}
      /\ b # << >> =>
           /\ Offset(i) = base
           /\ base + Len(b) <= ours.size
           /\ \A k \in 1..Len(b) : b[k] = <<ours.content, base + k>>
           /\ \A k \in Covered(i) : k - base \in 1..Len(b)
  BY <1>1, AcceptedIsGenuine
<1>3. ours.content # 0
  BY DEF Inv, DataFits
<1>4. DataFile \in Seq(Byte) /\ Len(DataFile) = ours.size /\ ours.size \in Nat
  BY <1>3, DataFileFits
<1>5. \A j \in ours.held : \A k \in Covered(j) : DataFile[k] = <<ours.content, k>>
  BY HeldHasData DEF Inv, HeldIsGenuine
<1>6. \A j : Covered(j) \subseteq 1..ours.size
  BY DEF Covered
<1>7. CASE b = << >>
  BY <1>2, <1>4, <1>5, <1>7 DEF Written
<1>8. CASE b # << >>
  <2>1. PICK f \in Seq(Byte) : f = DataFile
    BY <1>4
  <2>2. PICK bs \in Seq(Byte) : bs = b
    BY <1>2
  <2>3. /\ Written(f, base, bs) \in Seq(Byte)
        /\ Len(Written(f, base, bs)) = Len(f)
        /\ \A k \in 1..Len(f) :
             Written(f, base, bs)[k] = IF k - base \in 1..Len(bs) THEN bs[k - base] ELSE f[k]
    <3>1. base \in Nat /\ bs # << >> /\ base + Len(bs) <= Len(f)
      BY <1>2, <1>4, <1>8, <2>1, <2>2
    <3> QED
      BY <3>1, WrittenInside
  <2>4. /\ w \in Seq(Byte) /\ Len(w) = ours.size
        /\ \A k \in 1..ours.size :
             w[k] = IF k - base \in 1..Len(b) THEN b[k - base] ELSE DataFile[k]
    BY <1>2, <1>4, <1>8, <2>1, <2>2, <2>3
  <2>5. \A k \in 1..ours.size :
          k - base \in 1..Len(b) => w[k] = <<ours.content, k>>
    <3> SUFFICES ASSUME NEW k \in 1..ours.size, k - base \in 1..Len(b)
                 PROVE  w[k] = <<ours.content, k>>
      OBVIOUS
    <3>1. w[k] = <<ours.content, base + (k - base)>>
      BY <1>2, <1>8, <2>4
    <3>2. base + (k - base) = k
      BY <1>2, <1>4
    <3> QED
      BY <3>1, <3>2
  <2>6. \A k \in Covered(i) : w[k] = <<ours.content, k>>
    BY <1>2, <1>6, <1>8, <2>5
  <2>7. \A j \in ours.held : \A k \in Covered(j) : w[k] = <<ours.content, k>>
    BY <1>5, <1>6, <2>4, <2>5
  <2> QED
    BY <2>4, <2>6, <2>7
<1> QED
  BY <1>7, <1>8

\* A chunk that is put leaves every chunk that is held genuine.
LEMMA PutKeepsInv ==
  ASSUME Inv, Put
  PROVE  Inv'
<1>1. PICK i, b : i = answer.index /\ b = answer.bytes
  OBVIOUS
<1>2. /\ answer # NoAnswer /\ answer' = NoAnswer /\ UNCHANGED theirs
      /\ \/ /\ IsValid(i, b)
            /\ data' = Written(DataFile, Offset(i), b)
            /\ ours' = [ours EXCEPT !.held = @ \union {i}]
         \/ data' = DataFile /\ UNCHANGED ours
  BY <1>1 DEF Put
<1>3. ours.content # 0
  BY <1>2 DEF Inv, DataFits
<1>4. /\ answer'.index = -2 /\ Len(answer'.bytes) = 0
      /\ answer'.bytes \in ByteString(ChunkSize)
      /\ answer' = [index |-> answer'.index, bytes |-> answer'.bytes]
  BY <1>2, EmptySeq, ChunkSizeAssumption DEF NoAnswer, ByteString
<1>5. \E grown : /\ ours' = [ours EXCEPT !.held = grown]
                 /\ grown \subseteq DOMAIN ours.hashes
                 /\ data' \in Seq(Byte) /\ Len(data') = ours.size
                 /\ \A j \in grown : \A k \in Covered(j) : data'[k] = <<ours.content, k>>
  <2>1. CASE /\ IsValid(i, b)
             /\ data' = Written(DataFile, Offset(i), b)
             /\ ours' = [ours EXCEPT !.held = @ \union {i}]
    <3>1. PICK w : w = data'
      OBVIOUS
    <3>2. /\ w \in Seq(Byte) /\ Len(w) = ours.size
          /\ \A j \in ours.held \union {i} : \A k \in Covered(j) :
               w[k] = <<ours.content, k>>
      BY <1>1, <1>2, <2>1, <3>1, PutWrites
    <3>3. ours.held \union {i} \subseteq DOMAIN ours.hashes
      BY <2>1 DEF IsValid, Inv, ChunkTypeOK
    <3> QED
      BY <2>1, <3>1, <3>2, <3>3
  <2>2. CASE data' = DataFile /\ UNCHANGED ours
    <3>1. ours' = [ours EXCEPT !.held = ours.held]
      BY <2>2 DEF Inv, Records
    <3>2. DataFile \in Seq(Byte) /\ Len(DataFile) = ours.size
      BY <1>3, DataFileFits
    <3>3. \A j \in ours.held : \A k \in Covered(j) : DataFile[k] = <<ours.content, k>>
      BY HeldHasData DEF Inv, HeldIsGenuine
    <3> QED
      BY <2>2, <3>1, <3>2, <3>3 DEF Inv, ChunkTypeOK
  <2> QED
    BY <1>2, <2>1, <2>2
<1>6. PICK grown : /\ ours' = [ours EXCEPT !.held = grown]
                   /\ grown \subseteq DOMAIN ours.hashes
                   /\ data' \in Seq(Byte) /\ Len(data') = ours.size
                   /\ \A j \in grown : \A k \in Covered(j) : data'[k] = <<ours.content, k>>
  BY <1>5
<1>7. /\ ours'.content = ours.content /\ ours'.size = ours.size
      /\ ours'.hashes = ours.hashes /\ ours'.held = grown
      /\ ours' = [content |-> ours'.content, size |-> ours'.size,
                  hashes |-> ours'.hashes, held |-> ours'.held]
  BY <1>6 DEF Inv, Records
<1>8. Records'
  BY <1>2, <1>4, <1>7 DEF Records, Inv
<1>9. AnswerIsRead'
  BY <1>4 DEF AnswerIsRead
<1>10. HashesFit(ours)' /\ (theirs.content # 0 => HashesFit(theirs))'
  BY <1>2, <1>3, <1>7 DEF HashesFit, Inv
<1>11. DataFits'
  BY <1>2, <1>3, <1>6, <1>7 DEF DataFits, Inv
<1>12. HeldIsGenuine'
  BY <1>6, <1>7 DEF HeldIsGenuine, Covered
<1>13. ChunkTypeOK'
  <2>1. ours.size \in Nat
    BY <1>3, SizesAssumption DEF Inv, DataFits
  <2>2. PICK q \in Nat : q = ours.size \div ChunkSize
    BY <2>1, Quotient
  <2>3. answer'.index \in -2..(ours'.size \div ChunkSize)
    BY <1>4, <1>7, <2>2
  <2> QED
    BY <1>2, <1>4, <1>6, <1>7, <2>3 DEF ChunkTypeOK, Inv
<1> QED
  BY <1>8, <1>9, <1>10, <1>11, <1>12, <1>13 DEF Inv

\* Hashes that are cut to their columns are still those of the content.
LEMMA ColumnsFit ==
  ASSUME NEW t, HashesFit(t), NEW u, u.content = t.content, u.size = t.size,
         u.hashes = Columns(t.hashes)
  PROVE  HashesFit(u) /\ DOMAIN u.hashes = DOMAIN t.hashes
<1>1. DOMAIN u.hashes = DOMAIN t.hashes
  BY DEF Columns
<1>2. ASSUME NEW i \in DOMAIN t.hashes
      PROVE  u.hashes[i] = [of |-> t.hashes[i].of, wide |-> FALSE]
  <2>1. u.hashes[i] = [t.hashes[i] EXCEPT !.wide = FALSE]
    BY DEF Columns, Column
  <2>2. t.hashes[i] = [of |-> t.hashes[i].of, wide |-> t.hashes[i].wide]
    BY DEF HashesFit
  <2> QED
    BY <2>1, <2>2
<1>3. ASSUME NEW i \in DOMAIN u.hashes
      PROVE  /\ u.hashes[i] = [of |-> u.hashes[i].of, wide |-> u.hashes[i].wide]
             /\ u.hashes[i].of = Part(u.content, u.size, i)
  <2>1. u.hashes[i] = [of |-> t.hashes[i].of, wide |-> FALSE]
    BY <1>1, <1>2
  <2>2. t.hashes[i].of = Part(t.content, t.size, i)
    BY <1>1 DEF HashesFit
  <2> QED
    BY <2>1, <2>2
<1>4. u.size \in Nat /\ DOMAIN u.hashes = 0..(u.size \div ChunkSize)
  BY <1>1 DEF HashesFit
<1> QED
  BY <1>1, <1>3, <1>4 DEF HashesFit

LEMMA CreateKeepsInv ==
  ASSUME Inv, NEW s \in Sizes, Create(s)
  PROVE  Inv'
<1>1. theirs.content \in 0..MaxContents /\ ours.content \in 0..theirs.content
  BY DEF Inv, ChunkTypeOK
<1>2. PICK c \in 1..MaxContents : c = theirs.content + 1
  BY <1>1, SizesAssumption DEF Create
<1>3. /\ theirs' = [content |-> c, size |-> s, hashes |-> Chunks(c, s)]
      /\ UNCHANGED <<ours, data, answer>>
  BY <1>2 DEF Create
<1>4. s \in Nat
  BY SizesAssumption
<1>5. HashesFit(theirs)'
  <2>1. DOMAIN theirs'.hashes = 0..(s \div ChunkSize)
    BY <1>3 DEF Chunks
  <2>2. \A i \in DOMAIN theirs'.hashes :
          theirs'.hashes[i] = [of |-> Part(c, s, i), wide |-> TRUE]
    BY <1>3, <2>1 DEF Chunks, Hash, Part
  <2> QED
    BY <1>3, <1>4, <2>1, <2>2 DEF HashesFit
<1>6. ChunkTypeOK'
  BY <1>1, <1>2, <1>3, SizesAssumption DEF ChunkTypeOK, Inv
<1>7. Records' /\ AnswerIsRead' /\ DataFits' /\ HeldIsGenuine'
  BY <1>1, <1>2, <1>3
  DEF Records, AnswerIsRead, DataFits, HeldIsGenuine, Covered, Inv
<1>8. (ours.content # 0 => HashesFit(ours))'
  BY <1>3 DEF HashesFit, Inv
<1> QED
  BY <1>5, <1>6, <1>7, <1>8 DEF Inv

LEMMA TheirsLoadKeepsInv ==
  ASSUME Inv, TheirsLoad
  PROVE  Inv'
<1>1. /\ theirs.content # 0 /\ UNCHANGED <<ours, data, answer>>
      /\ theirs'.content = theirs.content /\ theirs'.size = theirs.size
      /\ theirs'.hashes = Columns(theirs.hashes)
      /\ theirs' = [content |-> theirs'.content, size |-> theirs'.size,
                    hashes |-> theirs'.hashes]
  BY DEF TheirsLoad, Inv, Records
<1>2. HashesFit(theirs)'
  <2>1. PICK u : u = theirs'
    OBVIOUS
  <2>2. HashesFit(u)
    BY <1>1, <2>1, ColumnsFit DEF Inv
  <2> QED
    BY <2>1, <2>2 DEF HashesFit
<1>3. ChunkTypeOK'
  BY <1>1 DEF ChunkTypeOK, Inv
<1>4. Records' /\ AnswerIsRead' /\ DataFits' /\ HeldIsGenuine'
  BY <1>1 DEF Records, AnswerIsRead, DataFits, HeldIsGenuine, Covered, Inv
<1>5. (ours.content # 0 => HashesFit(ours))'
  BY <1>1 DEF HashesFit, Inv
<1> QED
  BY <1>2, <1>3, <1>4, <1>5 DEF Inv

LEMMA ReceiveKeepsInv ==
  ASSUME Inv, Receive
  PROVE  Inv'
<1>1. /\ theirs.content # 0 /\ UNCHANGED <<theirs, data, answer>>
      /\ data = << >> /\ answer = NoAnswer
      /\ ours' = [content |-> theirs.content, size |-> theirs.size,
                  hashes |-> theirs.hashes, held |-> {}]
  BY DEF Receive, Inv, DataFits
<1>2. (theirs.content # 0 => HashesFit(theirs))' /\ HashesFit(ours)'
  BY <1>1 DEF HashesFit, Inv
<1>3. ChunkTypeOK'
  <2>1. theirs.size \in Nat /\ theirs.size \in Sizes
    BY <1>1, SizesAssumption DEF Inv, DataFits
  <2>2. PICK q \in Nat : q = ours'.size \div ChunkSize
    BY <1>1, <2>1, Quotient
  <2>3. answer'.index \in -2..(ours'.size \div ChunkSize)
    BY <1>1, <2>2 DEF NoAnswer
  <2> QED
    BY <1>1, <2>1, <2>3 DEF ChunkTypeOK, Inv
<1>4. Records' /\ AnswerIsRead' /\ DataFits' /\ HeldIsGenuine'
  BY <1>1 DEF Records, AnswerIsRead, DataFits, HeldIsGenuine, Inv
<1> QED
  BY <1>2, <1>3, <1>4 DEF Inv

LEMMA LoadKeepsInv ==
  ASSUME Inv, Load
  PROVE  Inv'
<1>1. /\ ours.content # 0 /\ UNCHANGED <<theirs, data>> /\ answer' = NoAnswer
      /\ ours'.content = ours.content /\ ours'.size = ours.size
      /\ ours'.held = ours.held /\ ours'.hashes = Columns(ours.hashes)
      /\ ours' = [content |-> ours'.content, size |-> ours'.size,
                  hashes |-> ours'.hashes, held |-> ours'.held]
  BY DEF Load, Inv, Records
<1>2. /\ answer'.index = -2 /\ Len(answer'.bytes) = 0
      /\ answer'.bytes \in ByteString(ChunkSize)
      /\ answer' = [index |-> answer'.index, bytes |-> answer'.bytes]
  BY <1>1, EmptySeq, ChunkSizeAssumption DEF NoAnswer, ByteString
<1>3. HashesFit(ours)' /\ DOMAIN ours'.hashes = DOMAIN ours.hashes
  <2>1. PICK u : u = ours'
    OBVIOUS
  <2>2. HashesFit(u) /\ DOMAIN u.hashes = DOMAIN ours.hashes
    BY <1>1, <2>1, ColumnsFit DEF Inv
  <2> QED
    BY <2>1, <2>2 DEF HashesFit
<1>4. ChunkTypeOK'
  <2>1. ours.size \in Nat
    BY <1>1, SizesAssumption DEF Inv, DataFits
  <2>2. PICK q \in Nat : q = ours.size \div ChunkSize
    BY <2>1, Quotient
  <2>3. answer'.index \in -2..(ours'.size \div ChunkSize)
    BY <1>1, <1>2, <2>2
  <2> QED
    BY <1>1, <1>2, <1>3, <2>3 DEF ChunkTypeOK, Inv
<1>5. Records' /\ AnswerIsRead' /\ DataFits' /\ HeldIsGenuine'
  BY <1>1, <1>2 DEF Records, AnswerIsRead, DataFits, HeldIsGenuine, Covered, Inv
<1>6. (theirs.content # 0 => HashesFit(theirs))'
  BY <1>1 DEF HashesFit, Inv
<1> QED
  BY <1>3, <1>4, <1>5, <1>6 DEF Inv

LEMMA AnswerKeepsInv ==
  ASSUME Inv, NEW i \in Requests, NEW n \in 0..ChunkSize, Answer(i, n)
  PROVE  Inv'
<1>1. theirs.content # 0 /\ ours.content # 0 /\ UNCHANGED <<theirs, ours, data>>
  BY DEF Answer
<1>2. PICK c \in 0..MaxContents, s \in Nat : c = theirs.content /\ s = theirs.size
  BY <1>1, SizesAssumption DEF Inv, DataFits, ChunkTypeOK
<1>3. PICK q \in Nat : q = ours.size \div ChunkSize
  BY <1>1, Quotient, SizesAssumption DEF Inv, DataFits
<1>4. i \in -1..q
  <2>1. DOMAIN ours.hashes = 0..q
    BY <1>1, <1>3 DEF Inv, HashesFit
  <2> QED
    BY <2>1 DEF Requests
<1>5. PICK offset \in Nat : offset = Offset(i)
  BY <1>4, ChunkSizeAssumption, OffsetAssumption DEF Offset
<1>6. PICK chunk : chunk = Read(c, s, offset)
  OBVIOUS
<1>7. /\ chunk \in Seq(Byte) /\ Len(chunk) \in 0..ChunkSize
      /\ \A k \in 1..Len(chunk) : chunk[k] = <<c, offset + k>>
  BY <1>6, ReadIs
<1>8. n <= Len(chunk) /\ answer' = [index |-> i, bytes |-> [k \in 1..n |-> chunk[k]]]
  BY <1>2, <1>5, <1>6 DEF Answer
<1>9. PICK b : b = [k \in 1..n |-> chunk[k]]
  OBVIOUS
<1>10. n \in Nat /\ n <= ChunkSize /\ b \in Seq(Byte) /\ Len(b) = n
  <2>1. n \in Nat /\ n <= ChunkSize /\ \A k \in 1..n : k \in 1..Len(chunk)
    BY <1>7, <1>8, ChunkSizeAssumption
  <2>2. \A k \in 1..n : chunk[k] \in Byte
    BY <1>7, <2>1, ElementOfSeq
  <2>3. b \in [1..n -> Byte]
    BY <1>9, <2>2
  <2> QED
    BY <2>1, <2>3, SequenceOf
<1>11. answer' = [index |-> i, bytes |-> b]
  BY <1>8, <1>9
<1>12. AnswerIsRead'
  <2>1. \A k \in 1..n : b[k] = <<c, offset + k>>
    BY <1>7, <1>8, <1>9, <1>10
  <2>2. c \in Nat
    BY SizesAssumption
  <2> QED
    BY <1>5, <1>10, <1>11, <2>1, <2>2 DEF AnswerIsRead, Offset
<1>13. ChunkTypeOK'
  <2>1. i \in -2..(ours'.size \div ChunkSize)
    BY <1>1, <1>3, <1>4
  <2>2. b \in ByteString(ChunkSize)
    BY <1>10 DEF ByteString
  <2> QED
    BY <1>1, <1>11, <2>1, <2>2 DEF ChunkTypeOK, Inv
<1>14. Records' /\ DataFits' /\ HeldIsGenuine'
  BY <1>1, <1>11 DEF Records, DataFits, HeldIsGenuine, Covered, Inv
<1>15. (theirs.content # 0 => HashesFit(theirs))' /\ (ours.content # 0 => HashesFit(ours))'
  BY <1>1 DEF HashesFit, Inv
<1> QED
  BY <1>12, <1>13, <1>14, <1>15 DEF Inv

LEMMA StepInv == Inv /\ [ChunkNext]_chunkVars => Inv'
<1> SUFFICES ASSUME Inv, [ChunkNext]_chunkVars
             PROVE  Inv'
  OBVIOUS
<1>1. ASSUME NEW s \in Sizes, Create(s) PROVE Inv'
  BY <1>1, CreateKeepsInv
<1>2. CASE TheirsLoad
  BY <1>2, TheirsLoadKeepsInv
<1>3. CASE Receive
  BY <1>3, ReceiveKeepsInv
<1>4. CASE Load
  BY <1>4, LoadKeepsInv
<1>5. CASE Put
  BY <1>5, PutKeepsInv
<1>6. ASSUME NEW i \in Requests, NEW n \in 0..ChunkSize, Answer(i, n) PROVE Inv'
  BY <1>6, AnswerKeepsInv
<1>7. CASE UNCHANGED chunkVars
  BY <1>7 DEF chunkVars, Inv, ChunkTypeOK, Records, HashesFit, AnswerIsRead,
              DataFits, HeldIsGenuine, Covered
<1> QED
  BY <1>1, <1>2, <1>3, <1>4, <1>5, <1>6, <1>7 DEF ChunkNext

LEMMA InvAlways == ChunkSpec => []Inv
BY InitInv, StepInv, PTL DEF ChunkSpec

(* A chunk that is held, and given to peers, is where it belongs in a file  *)
(* of the right size, with every byte that its hash covers (torrent.cpp,   *)
(* putChunk and validateChunk).                                            *)
THEOREM HeldIsGenuineTheorem == ChunkSpec => []HeldIsGenuine
<1>1. Inv => HeldIsGenuine
  BY DEF Inv
<1> QED
  BY <1>1, InvAlways, PTL

(* The calls of the chunks keep the types of a torrent and of its file     *)
(* (torrent.h, class Torrent).                                             *)
THEOREM ChunkTypeOKTheorem == ChunkSpec => []ChunkTypeOK
<1>1. Inv => ChunkTypeOK
  BY DEF Inv
<1> QED
  BY <1>1, InvAlways, PTL

-----------------------------------------------------------------------------
(* Packages. *)

\* The steps of each thread.
ThreadPlaces ==
  /\ at["main"] \in {"idle", "archive", "archiving", "compress", "compressing",
                     "remove", "failed"}
  /\ at["jobs"] \in {"idle", "decompress", "decompressing", "extract", "extracting",
                     "removeUnpacked"}

\* How far a package has come that is made with nobody else at work.
PackagingAlone ==
  alone["main"] /\ ~Idle("main") =>
    /\ Idle("jobs")
    /\ at["main"] # "failed"
    /\ at["main"] = "archiving" => clean["main"] /\ fd["main"] = temp
    /\ at["main"] = "compress" => temp # NoFile /\ content[temp] = name["main"]
    /\ at["main"] = "compressing" =>
         clean["main"] /\ content[fd["main"]] = name["main"]
    /\ at["main"] = "remove" => package[name["main"]] = name["main"]

\* A package that is being made does not count as made.
NotYetMade == ~Idle("main") => name["main"] \in Own /\ made[name["main"]] = "no"

\* What the file f holds of the package that is being unpacked.
HoldsPackage(f) ==
  content[f] = package[name["jobs"]] \/ package[name["jobs"]] = "damaged"

\* How far a package has come that is unpacked with nobody else at work.
UnpackingAlone ==
  alone["jobs"] /\ ~Idle("jobs") =>
    /\ Idle("main")
    /\ at["jobs"] = "decompressing" => clean["jobs"] /\ fd["jobs"] = temp
    /\ at["jobs"] = "extract" => temp # NoFile /\ HoldsPackage(temp)
    /\ at["jobs"] = "extracting" => clean["jobs"] /\ HoldsPackage(fd["jobs"])

PackInv ==
  /\ PackTypeOK
  /\ ThreadPlaces
  /\ NotYetMade
  /\ PackagingAlone
  /\ UnpackingAlone
  /\ PackagedAlone
  /\ UnpackedAlone
  /\ TempIsRemoved

(* The operators the actions share. *)

LEMMA ThreadsAre ==
  /\ Threads = {"main", "jobs"}
  /\ Other("main") = "jobs" /\ Other("jobs") = "main"
BY DEF Threads, Other

LEMMA OutcomesAreContent ==
  ASSUME NEW t, NEW c \in Content
  PROVE  Outcomes(t, c) \subseteq Content
BY DEF Outcomes, Content

\* What the program leaves when it ends has the types it had before.
LEMMA EndKeepsTypes ==
  ASSUME PackTypeOK, End
  PROVE  /\ content' \in [Files -> Content]
         /\ package' \in [Names -> Content]
         /\ at' \in [Threads -> Places] /\ name' \in [Threads -> Names]
         /\ fd' \in [Threads -> Files \union {NoFile}]
         /\ \A t \in Threads : fd'[t] = NoFile /\ at'[t] = "idle"
         /\ clean' \in [Threads -> BOOLEAN] /\ alone' \in [Threads -> BOOLEAN]
BY DEF PackTypeOK, End, Content, Places

\* And so has what a thread leaves that opens temp for writing.
LEMMA OpenKeepsTypes ==
  ASSUME PackTypeOK, NEW t \in Threads, NEW p \in Writing,
         OpenToWrite(t), Go(t, p)
  PROVE  /\ temp' \in Files
         /\ content' \in [Files -> Content]
         /\ at' \in [Threads -> Places]
         /\ fd' \in [Threads -> Files \union {NoFile}]
         /\ \A u \in Threads :
              fd'[u] # NoFile <=> at'[u] \in Writing \union {"compressing", "extracting"}
         /\ clean' \in [Threads -> BOOLEAN]
<1> USE DEF PackTypeOK
<1>1. PICK f \in Files :
        /\ temp' = f
        /\ content' = [content EXCEPT ![f] = "nothing"]
        /\ fd' = [fd EXCEPT ![t] = f]
        /\ clean' = [u \in Threads |-> IF u = t THEN fd[Other(t)] # f
                                       ELSE clean[u] /\ fd[u] # f]
  BY DEF OpenToWrite
<1>2. f # NoFile
  BY DEF Files, NoFile
<1>3. temp' \in Files /\ content' \in [Files -> Content]
  BY <1>1 DEF Content
<1>4. p \in Places /\ at' = [at EXCEPT ![t] = p]
  BY DEF Go, Writing, Places
<1>5. at' \in [Threads -> Places] /\ fd' \in [Threads -> Files \union {NoFile}]
  BY <1>1, <1>4
<1>6. ASSUME NEW u \in Threads
      PROVE  fd'[u] # NoFile <=> at'[u] \in Writing \union {"compressing", "extracting"}
  BY <1>1, <1>2, <1>4
<1>7. clean' \in [Threads -> BOOLEAN]
  BY <1>1
<1> QED
  BY <1>3, <1>5, <1>6, <1>7

\* The places in which a thread has temp open, and what they say of fd.
Opening == Writing \union {"compressing", "extracting"}

PlacesOK ==
  /\ at \in [Threads -> Places]
  /\ fd \in [Threads -> Files \union {NoFile}]
  /\ \A t \in Threads : fd[t] # NoFile <=> at[t] \in Opening

\* A thread that goes on has temp open exactly where it should.
LEMMA GoKeepsPlaces ==
  ASSUME PlacesOK, NEW t \in Threads, NEW p \in Places,
         NEW f \in Files \union {NoFile}, f # NoFile <=> p \in Opening,
         Go(t, p), fd' = [fd EXCEPT ![t] = f]
  PROVE  PlacesOK'
<1>1. at' \in [Threads -> Places] /\ fd' \in [Threads -> Files \union {NoFile}]
  BY DEF PlacesOK, Go
<1>2. ASSUME NEW u \in Threads
      PROVE  fd'[u] # NoFile <=> at'[u] \in Opening
  BY DEF PlacesOK, Go
<1> QED
  BY <1>1, <1>2 DEF PlacesOK

\* And one that goes from a place without a file to another has none.
LEMMA GoKeepsClosed ==
  ASSUME PlacesOK, NEW t \in Threads, NEW p \in Places \ Opening,
         at[t] \notin Opening, Go(t, p), UNCHANGED fd
  PROVE  PlacesOK'
<1>1. at' \in [Threads -> Places] /\ fd' \in [Threads -> Files \union {NoFile}]
  BY DEF PlacesOK, Go
<1>2. ASSUME NEW u \in Threads
      PROVE  fd'[u] # NoFile <=> at'[u] \in Opening
  BY DEF PlacesOK, Go
<1> QED
  BY <1>1, <1>2 DEF PlacesOK

LEMMA PlacesAre ==
  /\ {"idle", "archive", "compress", "remove", "failed", "decompress", "extract",
      "removeUnpacked"} \subseteq Places \ Opening
  /\ {"compressing", "extracting"} \subseteq Places \intersect Opening
BY DEF Places, Opening, Writing

\* The types but those of the places.
OtherTypes ==
  /\ temp \in Files \union {NoFile}
  /\ content \in [Files -> Content]
  /\ package \in [Names -> Content]
  /\ complete \subseteq Names
  /\ name \in [Threads -> Names]
  /\ clean \in [Threads -> BOOLEAN] /\ alone \in [Threads -> BOOLEAN]
  /\ made \in [Own -> {"no", "alone", "raced"}]
  /\ last \in [of : Content, got : Content \union {"exit"}, alone : BOOLEAN]
  /\ left \in BOOLEAN

LEMMA TypesAre == PackTypeOK <=> PlacesOK /\ OtherTypes
BY DEF PackTypeOK, PlacesOK, Opening, OtherTypes

LEMMA PackageKeepsTypes ==
  ASSUME PackTypeOK, ThreadPlaces, NotYetMade, Package
  PROVE  PackTypeOK'
<1> USE ThreadsAre
<1>0. PlacesOK' /\ OtherTypes' => PackTypeOK'
  BY DEF PackTypeOK, PlacesOK, Opening, OtherTypes
<1>00. PlacesOK /\ OtherTypes
  BY TypesAre
<1>1. ASSUME NEW n \in Own, BeginPackage(n) PROVE PackTypeOK'
  <2>1. PlacesOK'
    BY <1>1, <1>00, PlacesAre, GoKeepsClosed DEF BeginPackage, Idle
  <2>2. OtherTypes'
    BY <1>1, <1>00 DEF BeginPackage, Begin, Idle, Names, files, OtherTypes
  <2> QED
    BY <1>0, <2>1, <2>2
<1>2. CASE OpenArchive
  BY <1>2, OpenKeepsTypes DEF OpenArchive, Writing, history, PackTypeOK
<1>3. CASE FinishArchive
  <2>1. name["main"] \in Content
    BY <1>00 DEF Content, OtherTypes
  <2>2. Outcomes("main", name["main"]) \subseteq Content
    BY <2>1, OutcomesAreContent
  <2>3. PlacesOK'
    BY <1>3, <1>00, PlacesAre, GoKeepsPlaces DEF FinishArchive
  <2>4. OtherTypes'
    BY <1>3, <1>00, <2>2 DEF FinishArchive, history, OtherTypes
  <2> QED
    BY <1>0, <2>3, <2>4
<1>4. CASE OpenCompress
  <2>1. PlacesOK'
    <3>1. CASE temp = NoFile
      BY <1>4, <1>00, <3>1, PlacesAre, GoKeepsClosed DEF OpenCompress
    <3>2. CASE temp # NoFile
      <4>1. temp \in Files \union {NoFile} /\ fd' = [fd EXCEPT !["main"] = temp]
        BY <1>4, <1>00, <3>2 DEF OpenCompress, OpenToRead, OtherTypes
      <4> QED
        BY <1>4, <1>00, <3>2, <4>1, PlacesAre, GoKeepsPlaces DEF OpenCompress
    <3> QED
      BY <3>1, <3>2
  <2>2. package' \in [Names -> Content] /\ clean' \in [Threads -> BOOLEAN]
    BY <1>4, <1>00 DEF OpenCompress, Content, OtherTypes
  <2>3. OtherTypes'
    BY <1>4, <1>00, <2>2 DEF OpenCompress, history, OtherTypes
  <2> QED
    BY <1>0, <2>1, <2>3
<1>5. CASE FinishCompress
  <2>1. content[fd["main"]] \in Content
    BY <1>5, <1>00, PlacesAre DEF FinishCompress, PlacesOK, OtherTypes
  <2>2. Outcomes("main", content[fd["main"]]) \subseteq Content
    BY <2>1, OutcomesAreContent
  <2>3. PlacesOK'
    BY <1>5, <1>00, PlacesAre, GoKeepsPlaces DEF FinishCompress
  <2>4. OtherTypes'
    BY <1>5, <1>00, <2>2 DEF FinishCompress, history, OtherTypes
  <2> QED
    BY <1>0, <2>3, <2>4
<1>6. CASE FinishPackage
  <2>1. PlacesOK'
    BY <1>6, <1>00, PlacesAre, GoKeepsClosed DEF FinishPackage
  <2>2. OtherTypes'
    BY <1>6, <1>00 DEF FinishPackage, Remove, OtherTypes
  <2> QED
    BY <1>0, <2>1, <2>2
<1>7. CASE FinishUnhashable
  BY <1>7, EndKeepsTypes DEF FinishUnhashable, Remove, Writing, PackTypeOK
<1>8. CASE FailPackage
  <2>1. PlacesOK'
    BY <1>8, <1>00, PlacesAre, GoKeepsClosed DEF FailPackage
  <2>2. OtherTypes'
    BY <1>8, <1>00 DEF FailPackage, Remove, OtherTypes
  <2> QED
    BY <1>0, <2>1, <2>2
<1> QED
  BY <1>1, <1>2, <1>3, <1>4, <1>5, <1>6, <1>7, <1>8 DEF Package

LEMMA UnpackageKeepsTypes ==
  ASSUME PackTypeOK, ThreadPlaces, Unpackage
  PROVE  PackTypeOK'
<1> USE ThreadsAre
<1>0. PlacesOK' /\ OtherTypes' => PackTypeOK'
  BY DEF PackTypeOK, PlacesOK, Opening, OtherTypes
<1>00. PlacesOK /\ OtherTypes
  BY TypesAre
<1>1. ASSUME NEW n \in Names, BeginUnpackage(n) PROVE PackTypeOK'
  <2>1. PlacesOK'
    BY <1>1, <1>00, PlacesAre, GoKeepsClosed DEF BeginUnpackage, Idle
  <2>2. OtherTypes'
    BY <1>1, <1>00 DEF BeginUnpackage, Begin, Idle, files, history, OtherTypes
  <2> QED
    BY <1>0, <2>1, <2>2
<1>2. CASE OpenDecompress
  BY <1>2, OpenKeepsTypes DEF OpenDecompress, Writing, history, PackTypeOK
<1>3. CASE FinishDecompress
  <2>1. package[name["jobs"]] \in Content
    BY <1>00 DEF OtherTypes
  <2>2. Outcomes("jobs", package[name["jobs"]]) \subseteq Content
    BY <2>1, OutcomesAreContent
  <2>3. PICK d \in Content : content' = [content EXCEPT ![fd["jobs"]] = d]
    BY <1>3, <2>2 DEF FinishDecompress, Content
  <2>4. PlacesOK'
    BY <1>3, <1>00, PlacesAre, GoKeepsPlaces DEF FinishDecompress
  <2>5. OtherTypes'
    BY <1>3, <1>00, <2>3 DEF FinishDecompress, history, OtherTypes
  <2> QED
    BY <1>0, <2>4, <2>5
<1>4. CASE OpenExtract
  <2>1. /\ temp \in Files \union {NoFile} /\ temp # NoFile
        /\ fd' = [fd EXCEPT !["jobs"] = temp]
    BY <1>4, <1>00 DEF OpenExtract, OpenToRead, OtherTypes
  <2>2. PlacesOK'
    BY <1>4, <1>00, <2>1, PlacesAre, GoKeepsPlaces DEF OpenExtract
  <2>3. OtherTypes'
    BY <1>4, <1>00 DEF OpenExtract, files, history, OtherTypes
  <2> QED
    BY <1>0, <2>2, <2>3
<1>5. ASSUME NEW c \in Content \union {"exit"}, Unpacked(c)
      PROVE  last' \in [of : Content, got : Content \union {"exit"}, alone : BOOLEAN]
  BY <1>5, <1>00 DEF Unpacked, OtherTypes
<1>6. CASE ExtractMissing
  BY <1>5, <1>6, EndKeepsTypes DEF ExtractMissing, Writing, PackTypeOK
<1>7. CASE FinishExtract
  <2>1. content[fd["jobs"]] \in Content
    BY <1>7, <1>00, PlacesAre DEF FinishExtract, PlacesOK, OtherTypes
  <2>2. Outcomes("jobs", content[fd["jobs"]]) \subseteq Content
    BY <2>1, OutcomesAreContent
  <2>3. last' \in [of : Content, got : Content \union {"exit"}, alone : BOOLEAN]
    BY <1>5, <1>7, <2>2 DEF FinishExtract
  <2>4. PlacesOK'
    BY <1>7, <1>00, PlacesAre, GoKeepsPlaces DEF FinishExtract
  <2>5. OtherTypes'
    BY <1>7, <1>00, <2>3 DEF FinishExtract, files, OtherTypes
  <2> QED
    BY <1>0, <2>4, <2>5
<1>8. CASE ExtractDamaged
  BY <1>5, <1>8, EndKeepsTypes DEF ExtractDamaged, Writing, PackTypeOK
<1>9. CASE FinishUnpackage
  <2>1. PlacesOK'
    BY <1>9, <1>00, PlacesAre, GoKeepsClosed DEF FinishUnpackage
  <2>2. OtherTypes'
    BY <1>9, <1>00 DEF FinishUnpackage, Remove, OtherTypes
  <2> QED
    BY <1>0, <2>1, <2>2
<1> QED
  BY <1>1, <1>2, <1>3, <1>4, <1>6, <1>7, <1>8, <1>9 DEF Unpackage

-----------------------------------------------------------------------------
(* The initial states, and every step. *)

LEMMA InitPackInv == PackInit => PackInv
<1> SUFFICES ASSUME PackInit PROVE PackInv
  OBVIOUS
<1>1. at["main"] = "idle" /\ at["jobs"] = "idle"
  BY ThreadsAre DEF PackInit
<1>2. PackTypeOK
  BY DEF PackInit, PackTypeOK, Content, Places, Writing, Names
<1>3. PackagedAlone /\ UnpackedAlone /\ TempIsRemoved
  BY DEF PackInit, PackagedAlone, UnpackedAlone, TempIsRemoved
<1> QED
  BY <1>1, <1>2, <1>3 DEF PackInv, ThreadPlaces, NotYetMade, PackagingAlone,
     UnpackingAlone, Idle

\* When the program ends, both threads are idle, and a package that counts as
\* made stays as it is: the one that is cut off does not count.
LEMMA EndKeepsMade ==
  ASSUME PackInv, End, UNCHANGED made
  PROVE  ThreadPlaces' /\ NotYetMade' /\ PackagingAlone' /\ UnpackingAlone' /\ PackagedAlone'
<1> USE ThreadsAre DEF PackInv
<1>1. at'["main"] = "idle" /\ at'["jobs"] = "idle"
  BY DEF End
<1>2. ThreadPlaces' /\ NotYetMade' /\ PackagingAlone' /\ UnpackingAlone'
  BY <1>1 DEF ThreadPlaces, NotYetMade, PackagingAlone, UnpackingAlone, Idle
<1>3. ASSUME NEW n \in Own, made[n] = "alone" PROVE package'[n] = n
  <2>1. ~(at["main"] = "compressing" /\ name["main"] = n)
    BY <1>3 DEF NotYetMade, Idle
  <2>2. package'[n] = package[n]
    BY <2>1 DEF End, Names
  <2> QED
    BY <1>3, <2>2 DEF PackagedAlone
<1> QED
  BY <1>2, <1>3 DEF PackagedAlone

LEMMA PackageKeepsInv ==
  ASSUME PackInv, Package
  PROVE  PackInv'
<1>0. PackTypeOK'
  BY PackageKeepsTypes DEF PackInv
<1> USE <1>0, ThreadsAre DEF PackInv
<1>1. ASSUME NEW n \in Own, BeginPackage(n) PROVE PackInv'
  <2>1. at'["main"] = "archive" /\ at'["jobs"] = at["jobs"] /\ UNCHANGED <<files, fd, clean, last>>
    BY <1>1 DEF BeginPackage, Go, PackTypeOK
  <2>2. /\ name'["main"] = n /\ name'["jobs"] = name["jobs"]
        /\ alone'["main"] = Idle("jobs")
        /\ alone'["jobs"] = (Idle("jobs") /\ alone["jobs"])
    BY <1>1 DEF BeginPackage, Begin, PackTypeOK
  <2>3. made' = [made EXCEPT ![n] = "no"]
    BY <1>1 DEF BeginPackage
  <2>4. ThreadPlaces' /\ NotYetMade' /\ PackagingAlone' /\ UnpackingAlone'
    BY <2>1, <2>2, <2>3
    DEF ThreadPlaces, NotYetMade, PackagingAlone, UnpackingAlone, Idle, PackTypeOK
  <2>5. PackagedAlone' /\ UnpackedAlone' /\ TempIsRemoved'
    BY <2>1, <2>3 DEF PackagedAlone, UnpackedAlone, TempIsRemoved, Idle, files, PackTypeOK
  <2> QED
    BY <2>4, <2>5
<1>2. CASE OpenArchive
  <2>1. PICK f \in Files :
          /\ temp' = f
          /\ fd' = [fd EXCEPT !["main"] = f]
          /\ clean' = [u \in Threads |-> IF u = "main" THEN fd[Other("main")] # f
                                         ELSE clean[u] /\ fd[u] # f]
    BY <1>2 DEF OpenArchive, OpenToWrite
  <2>2. f # NoFile
    BY DEF Files, NoFile
  <2>3. at = [at EXCEPT !["main"] = "archive"] /\ at' = [at EXCEPT !["main"] = "archiving"]
    BY <1>2 DEF OpenArchive, Go, PackTypeOK
  <2>4. UNCHANGED <<package, name, alone, made, last, left>>
    BY <1>2 DEF OpenArchive, history
  <2>5. at["jobs"] = "idle" => fd["jobs"] = NoFile
    BY DEF PackTypeOK, Writing
  <2>6. PackagingAlone'
    BY <2>1, <2>2, <2>3, <2>4, <2>5 DEF PackagingAlone, Idle, PackTypeOK
  <2>7. ThreadPlaces' /\ NotYetMade' /\ UnpackingAlone'
    BY <2>3, <2>4 DEF ThreadPlaces, NotYetMade, UnpackingAlone, Idle, PackTypeOK
  <2>8. PackagedAlone' /\ UnpackedAlone' /\ TempIsRemoved'
    BY <2>3, <2>4 DEF PackagedAlone, UnpackedAlone, TempIsRemoved, Idle, PackTypeOK
  <2> QED
    BY <2>6, <2>7, <2>8
<1>3. CASE FinishArchive
  <2>1. at = [at EXCEPT !["main"] = "archiving"] /\ at' = [at EXCEPT !["main"] = "compress"]
    BY <1>3 DEF FinishArchive, Go, PackTypeOK
  <2>2. UNCHANGED <<temp, package, name, alone, made, last, left>>
    BY <1>3 DEF FinishArchive, history
  <2>3. fd["main"] \in Files
    BY <2>1 DEF PackTypeOK, Writing
  <2>4. clean["main"] => content'[fd["main"]] = name["main"]
    BY <1>3, <2>3 DEF FinishArchive, Outcomes, PackTypeOK
  <2>5. PackagingAlone'
    BY <2>1, <2>2, <2>3, <2>4 DEF PackagingAlone, Idle, Files, NoFile, PackTypeOK
  <2>6. ThreadPlaces' /\ NotYetMade' /\ UnpackingAlone'
    BY <2>1, <2>2 DEF ThreadPlaces, NotYetMade, UnpackingAlone, Idle, PackTypeOK
  <2>7. PackagedAlone' /\ UnpackedAlone' /\ TempIsRemoved'
    BY <2>1, <2>2 DEF PackagedAlone, UnpackedAlone, TempIsRemoved, Idle, PackTypeOK
  <2> QED
    BY <2>5, <2>6, <2>7
<1>4. CASE OpenCompress
  <2>1. /\ at["main"] = "compress"
        /\ at' = [at EXCEPT !["main"] = IF temp = NoFile THEN "failed" ELSE "compressing"]
        /\ package' = [package EXCEPT ![name["main"]] = "nothing"]
        /\ temp # NoFile => fd' = [fd EXCEPT !["main"] = temp]
        /\ clean'["main"] = ~StillWritten("main")
    BY <1>4 DEF OpenCompress, OpenToRead, Go
  <2>2. UNCHANGED <<temp, content, name, alone, made, last, left>>
    BY <1>4 DEF OpenCompress, history
  <2>3. at["jobs"] = "idle" => ~StillWritten("main")
    BY DEF StillWritten, Writing
  <2>4. PackagingAlone'
    BY <2>1, <2>2, <2>3 DEF PackagingAlone, Idle, PackTypeOK
  <2>5. ThreadPlaces' /\ NotYetMade' /\ UnpackingAlone'
    BY <2>1, <2>2 DEF ThreadPlaces, NotYetMade, UnpackingAlone, Idle, PackTypeOK
  <2>6. PackagedAlone'
    BY <2>1, <2>2 DEF PackagedAlone, NotYetMade, Idle, Names, PackTypeOK
  <2>7. UnpackedAlone' /\ TempIsRemoved'
    BY <2>1, <2>2 DEF UnpackedAlone, TempIsRemoved, Idle, PackTypeOK
  <2> QED
    BY <2>4, <2>5, <2>6, <2>7
<1>5. CASE FinishCompress
  <2>1. at["main"] = "compressing" /\ at' = [at EXCEPT !["main"] = "remove"]
    BY <1>5 DEF FinishCompress, Go
  <2>2. PICK c \in Outcomes("main", content[fd["main"]]) :
          package' = [package EXCEPT ![name["main"]] = c]
    BY <1>5 DEF FinishCompress
  <2>3. UNCHANGED <<temp, content, name, clean, alone, made, last, left>>
    BY <1>5 DEF FinishCompress, history
  <2>4. PackagingAlone'
    BY <2>1, <2>2, <2>3 DEF PackagingAlone, Outcomes, Idle, PackTypeOK
  <2>5. ThreadPlaces' /\ NotYetMade' /\ UnpackingAlone'
    BY <2>1, <2>3 DEF ThreadPlaces, NotYetMade, UnpackingAlone, Idle, PackTypeOK
  <2>6. PackagedAlone'
    BY <2>1, <2>2, <2>3 DEF PackagedAlone, NotYetMade, Idle, Names, PackTypeOK
  <2>7. UnpackedAlone' /\ TempIsRemoved'
    BY <2>1, <2>3 DEF UnpackedAlone, TempIsRemoved, Idle, PackTypeOK
  <2> QED
    BY <2>4, <2>5, <2>6, <2>7
<1>6. CASE FinishPackage
  <2>1. at["main"] = "remove" /\ at' = [at EXCEPT !["main"] = "idle"] /\ temp' = NoFile
    BY <1>6 DEF FinishPackage, Remove, Go
  <2>2. made' = [made EXCEPT ![name["main"]] = IF alone["main"] THEN "alone" ELSE "raced"]
    BY <1>6 DEF FinishPackage
  <2>3. UNCHANGED <<content, package, name, fd, clean, alone, last>>
    BY <1>6 DEF FinishPackage
  <2>4. ThreadPlaces' /\ NotYetMade' /\ PackagingAlone' /\ TempIsRemoved'
    BY <2>1 DEF ThreadPlaces, NotYetMade, PackagingAlone, TempIsRemoved, Idle, PackTypeOK
  <2>5. UnpackingAlone'
    BY <2>1, <2>3 DEF UnpackingAlone, Idle, PackTypeOK
  <2>6. PackagedAlone'
    BY <2>1, <2>2, <2>3 DEF PackagedAlone, PackagingAlone, Idle, PackTypeOK
  <2>7. UnpackedAlone'
    BY <2>3 DEF UnpackedAlone
  <2> QED
    BY <2>4, <2>5, <2>6, <2>7
<1>7. CASE FinishUnhashable
  <2>1. End /\ UNCHANGED <<made, last>> /\ temp' = NoFile
    BY <1>7 DEF FinishUnhashable, Remove
  <2> QED
    BY <2>1, EndKeepsMade DEF UnpackedAlone, TempIsRemoved
<1>8. CASE FailPackage
  <2>1. at["main"] = "failed" /\ at' = [at EXCEPT !["main"] = "idle"] /\ temp' = NoFile
    BY <1>8 DEF FailPackage, Remove, Go
  <2>2. UNCHANGED <<content, package, name, fd, clean, alone, made, last>>
    BY <1>8 DEF FailPackage
  <2>3. ThreadPlaces' /\ NotYetMade' /\ PackagingAlone' /\ TempIsRemoved'
    BY <2>1 DEF ThreadPlaces, NotYetMade, PackagingAlone, TempIsRemoved, Idle, PackTypeOK
  <2>4. UnpackingAlone' /\ PackagedAlone' /\ UnpackedAlone'
    BY <2>1, <2>2 DEF UnpackingAlone, PackagedAlone, UnpackedAlone, Idle, PackTypeOK
  <2> QED
    BY <2>3, <2>4
<1> QED
  BY <1>1, <1>2, <1>3, <1>4, <1>5, <1>6, <1>7, <1>8 DEF Package

LEMMA UnpackageKeepsInv ==
  ASSUME PackInv, Unpackage
  PROVE  PackInv'
<1>0. PackTypeOK'
  BY UnpackageKeepsTypes DEF PackInv
<1> USE <1>0, ThreadsAre DEF PackInv
<1>1. ASSUME NEW n \in Names, BeginUnpackage(n) PROVE PackInv'
  <2>1. /\ at["jobs"] = "idle" /\ at' = [at EXCEPT !["jobs"] = "decompress"]
        /\ UNCHANGED <<files, fd, clean, made, last, left>>
    BY <1>1 DEF BeginUnpackage, Idle, Go, history
  <2>2. /\ name'["jobs"] = n /\ name'["main"] = name["main"]
        /\ alone'["jobs"] = Idle("main")
        /\ alone'["main"] = (Idle("main") /\ alone["main"])
    BY <1>1 DEF BeginUnpackage, Begin, PackTypeOK
  <2>3. ThreadPlaces' /\ NotYetMade' /\ PackagingAlone' /\ UnpackingAlone'
    BY <2>1, <2>2
    DEF ThreadPlaces, NotYetMade, PackagingAlone, UnpackingAlone, Idle, PackTypeOK
  <2>4. PackagedAlone' /\ UnpackedAlone' /\ TempIsRemoved'
    BY <2>1 DEF PackagedAlone, UnpackedAlone, TempIsRemoved, Idle, files, PackTypeOK
  <2> QED
    BY <2>3, <2>4
<1>2. CASE OpenDecompress
  <2>1. PICK f \in Files :
          /\ temp' = f
          /\ fd' = [fd EXCEPT !["jobs"] = f]
          /\ clean' = [u \in Threads |-> IF u = "jobs" THEN fd[Other("jobs")] # f
                                         ELSE clean[u] /\ fd[u] # f]
    BY <1>2 DEF OpenDecompress, OpenToWrite
  <2>2. f # NoFile
    BY DEF Files, NoFile
  <2>3. at["jobs"] = "decompress" /\ at' = [at EXCEPT !["jobs"] = "decompressing"]
    BY <1>2 DEF OpenDecompress, Go
  <2>4. UNCHANGED <<package, name, alone, made, last, left>>
    BY <1>2 DEF OpenDecompress, history
  <2>5. at["main"] = "idle" => fd["main"] = NoFile
    BY DEF PackTypeOK, Writing
  <2>6. UnpackingAlone'
    BY <2>1, <2>2, <2>3, <2>4, <2>5 DEF UnpackingAlone, Idle, PackTypeOK
  <2>7. ThreadPlaces' /\ NotYetMade' /\ PackagingAlone'
    BY <2>3, <2>4 DEF ThreadPlaces, NotYetMade, PackagingAlone, Idle, PackTypeOK
  <2>8. PackagedAlone' /\ UnpackedAlone' /\ TempIsRemoved'
    BY <2>3, <2>4 DEF PackagedAlone, UnpackedAlone, TempIsRemoved, Idle, PackTypeOK
  <2> QED
    BY <2>6, <2>7, <2>8
<1>3. CASE FinishDecompress
  <2>1. at["jobs"] = "decompressing" /\ at' = [at EXCEPT !["jobs"] = "extract"]
    BY <1>3 DEF FinishDecompress, Go
  <2>2. UNCHANGED <<temp, package, name, alone, made, last, left>>
    BY <1>3 DEF FinishDecompress, history
  <2>3. fd["jobs"] \in Files
    BY <2>1 DEF PackTypeOK, Writing
  <2>4. PICK c \in Outcomes("jobs", package[name["jobs"]]) :
          \E d \in IF c = "damaged" THEN {c, "nothing"} ELSE {c} :
            content' = [content EXCEPT ![fd["jobs"]] = d]
    BY <1>3 DEF FinishDecompress
  <2>5. ASSUME clean["jobs"]
        PROVE  content'[fd["jobs"]] = package[name["jobs"]] \/ package[name["jobs"]] = "damaged"
    BY <2>3, <2>4, <2>5 DEF Outcomes, PackTypeOK
  <2>6. UnpackingAlone'
    BY <2>1, <2>2, <2>3, <2>5 DEF UnpackingAlone, HoldsPackage, Idle, Files, NoFile, PackTypeOK
  <2>7. ThreadPlaces' /\ NotYetMade' /\ PackagingAlone'
    BY <2>1, <2>2 DEF ThreadPlaces, NotYetMade, PackagingAlone, Idle, PackTypeOK
  <2>8. PackagedAlone' /\ UnpackedAlone' /\ TempIsRemoved'
    BY <2>1, <2>2 DEF PackagedAlone, UnpackedAlone, TempIsRemoved, Idle, PackTypeOK
  <2> QED
    BY <2>6, <2>7, <2>8
<1>4. CASE OpenExtract
  <2>1. /\ at["jobs"] = "extract" /\ at' = [at EXCEPT !["jobs"] = "extracting"]
        /\ fd' = [fd EXCEPT !["jobs"] = temp]
        /\ clean' = [clean EXCEPT !["jobs"] = ~StillWritten("jobs")]
    BY <1>4 DEF OpenExtract, OpenToRead, Go
  <2>2. UNCHANGED <<temp, content, package, name, alone, made, last, left>>
    BY <1>4 DEF OpenExtract, files, history
  <2>3. at["main"] = "idle" => ~StillWritten("jobs")
    BY DEF StillWritten, Writing
  <2>4. UnpackingAlone'
    BY <2>1, <2>2, <2>3 DEF UnpackingAlone, HoldsPackage, Idle, PackTypeOK
  <2>5. ThreadPlaces' /\ NotYetMade' /\ PackagingAlone'
    BY <2>1, <2>2 DEF ThreadPlaces, NotYetMade, PackagingAlone, Idle, PackTypeOK
  <2>6. PackagedAlone' /\ UnpackedAlone' /\ TempIsRemoved'
    BY <2>1, <2>2 DEF PackagedAlone, UnpackedAlone, TempIsRemoved, Idle, PackTypeOK
  <2> QED
    BY <2>4, <2>5, <2>6
<1>5. CASE ExtractMissing
  <2>1. End /\ UNCHANGED <<made, temp>> /\ temp = NoFile /\ last'.alone = alone["jobs"]
    BY <1>5 DEF ExtractMissing, Unpacked
  <2>2. at["jobs"] = "extract"
    BY <1>5 DEF ExtractMissing
  <2>3. UnpackedAlone'
    BY <2>1, <2>2 DEF UnpackedAlone, UnpackingAlone, Idle
  <2> QED
    BY <2>1, <2>3, EndKeepsMade DEF TempIsRemoved
<1>6. ASSUME at["jobs"] = "extracting",
             NEW c \in Outcomes("jobs", content[fd["jobs"]]), Unpacked(c)
      PROVE  UnpackedAlone'
  <2>1. /\ last'.of = package[name["jobs"]] /\ last'.got = c
        /\ last'.alone = alone["jobs"]
    BY <1>6 DEF Unpacked
  <2> QED
    BY <1>6, <2>1 DEF UnpackedAlone, UnpackingAlone, HoldsPackage, Outcomes, Idle
<1>7. CASE FinishExtract
  <2>1. at["jobs"] = "extracting" /\ at' = [at EXCEPT !["jobs"] = "removeUnpacked"]
    BY <1>7 DEF FinishExtract, Go
  <2>2. UNCHANGED <<temp, content, package, name, clean, alone, made, left>>
    BY <1>7 DEF FinishExtract, files
  <2>3. UnpackedAlone'
    BY <1>6, <1>7 DEF FinishExtract
  <2>4. ThreadPlaces' /\ NotYetMade' /\ PackagingAlone' /\ UnpackingAlone'
    BY <2>1, <2>2
    DEF ThreadPlaces, NotYetMade, PackagingAlone, UnpackingAlone, Idle, PackTypeOK
  <2>5. PackagedAlone' /\ TempIsRemoved'
    BY <2>1, <2>2 DEF PackagedAlone, TempIsRemoved, Idle, PackTypeOK
  <2> QED
    BY <2>3, <2>4, <2>5
<1>8. CASE ExtractDamaged
  <2>1. /\ at["jobs"] = "extracting" /\ "damaged" \in Outcomes("jobs", content[fd["jobs"]])
        /\ Unpacked("exit") /\ End /\ UNCHANGED <<made, temp>>
        /\ left' = (temp # NoFile)
    BY <1>8 DEF ExtractDamaged
  <2>2. last'.of = package[name["jobs"]] /\ last'.alone = alone["jobs"]
    BY <2>1 DEF Unpacked
  <2>3. UnpackedAlone'
    BY <2>1, <2>2 DEF UnpackedAlone, UnpackingAlone, HoldsPackage, Outcomes, Idle
  <2> QED
    BY <2>1, <2>3, EndKeepsMade DEF TempIsRemoved
<1>9. CASE FinishUnpackage
  <2>1. at["jobs"] = "removeUnpacked" /\ at' = [at EXCEPT !["jobs"] = "idle"] /\ temp' = NoFile
    BY <1>9 DEF FinishUnpackage, Remove, Go
  <2>2. UNCHANGED <<content, package, name, fd, clean, alone, made, last>>
    BY <1>9 DEF FinishUnpackage
  <2>3. ThreadPlaces' /\ NotYetMade' /\ UnpackingAlone' /\ TempIsRemoved'
    BY <2>1, <2>2
    DEF ThreadPlaces, NotYetMade, UnpackingAlone, TempIsRemoved, Idle, PackTypeOK
  <2>4. PackagingAlone' /\ PackagedAlone' /\ UnpackedAlone'
    BY <2>1, <2>2 DEF PackagingAlone, PackagedAlone, UnpackedAlone, Idle, PackTypeOK
  <2> QED
    BY <2>3, <2>4
<1> QED
  BY <1>1, <1>2, <1>3, <1>4, <1>5, <1>7, <1>8, <1>9 DEF Unpackage

LEMMA StepPackInv == PackInv /\ [PackNext]_packVars => PackInv'
<1> SUFFICES ASSUME PackInv, [PackNext]_packVars PROVE PackInv'
  OBVIOUS
<1>1. CASE Package
  BY <1>1, PackageKeepsInv
<1>2. CASE Unpackage
  BY <1>2, UnpackageKeepsInv
<1>3. CASE Crash
  <2>1. End /\ UNCHANGED <<complete, temp, made, last>> /\ left' = (temp # NoFile)
    BY <1>3 DEF Crash
  <2>2. PackTypeOK'
    BY <2>1, EndKeepsTypes DEF PackInv, PackTypeOK, Writing
  <2> QED
    BY <2>1, <2>2, EndKeepsMade DEF PackInv, UnpackedAlone, TempIsRemoved
<1>4. CASE UNCHANGED packVars
  BY <1>4 DEF packVars, files, threads, history, PackInv, PackTypeOK, ThreadPlaces,
     NotYetMade, PackagingAlone, UnpackingAlone, HoldsPackage, PackagedAlone,
     UnpackedAlone, TempIsRemoved, Idle
<1> QED
  BY <1>1, <1>2, <1>3, <1>4 DEF PackNext

LEMMA PackInvHolds == PackSpec => []PackInv
<1> QED
  BY InitPackInv, StepPackInv, PTL DEF PackSpec

-----------------------------------------------------------------------------
\* A package made while nothing was unpacked holds the files of its torrent,
\* and keeps them, for any torrents (package.cpp, package).
THEOREM PackagedAloneTheorem == PackSpec => []PackagedAlone
<1>1. PackInv => PackagedAlone
  BY DEF PackInv
<1> QED
  BY <1>1, PackInvHolds, PTL

\* A package unpacked while none is made gives the files it holds, for any
\* torrents (package.cpp, unpackage).
THEOREM UnpackedAloneTheorem == PackSpec => []UnpackedAlone
<1>1. PackInv => UnpackedAlone
  BY DEF PackInv
<1> QED
  BY <1>1, PackInvHolds, PTL

\* Threads that are done leave no file temp (package.cpp, package and unpackage).
THEOREM TempIsRemovedTheorem == PackSpec => []TempIsRemoved
<1>1. PackInv => TempIsRemoved
  BY DEF PackInv
<1> QED
  BY <1>1, PackInvHolds, PTL

\* The variables of chunks and packages have their types, for any sizes and any
\* torrents (torrent.cpp, package.cpp).
THEOREM PackageTypeCorrect == Spec => []TypeOK
<1>1. Init => Inv /\ PackInv
  BY InitInv, InitPackInv DEF Init
<1>2. Inv /\ PackInv /\ [Next]_<<chunkVars, packVars>> => Inv' /\ PackInv'
  <2> SUFFICES ASSUME Inv, PackInv, [Next]_<<chunkVars, packVars>> PROVE Inv' /\ PackInv'
    OBVIOUS
  <2>1. [ChunkNext]_chunkVars /\ [PackNext]_packVars
    BY DEF Next, ChunksMove, PackagesMove
  <2> QED
    BY <2>1, StepInv, StepPackInv
<1>3. Inv /\ PackInv => TypeOK
  BY DEF Inv, PackInv, TypeOK
<1> QED
  BY <1>1, <1>2, <1>3, PTL DEF Spec
=============================================================================
