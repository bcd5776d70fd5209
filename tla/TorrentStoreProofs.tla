------------------------- MODULE TorrentStoreProofs -------------------------
(***************************************************************************)
(* What a node keeps of its torrents, for any torrents and any number of   *)
(* pieces: the variables have their types, whatever is created, received,  *)
(* cut off and started again; the rows of created torrents claim no chunk  *)
(* that their packages lack, but for a package that is made again; and if  *)
(* no torrent is created here that is also received, the created ones are  *)
(* durable, and the progress of a received one is recorded.                *)
(***************************************************************************)
EXTENDS TorrentStore, SequenceTheorems, WellFoundedInduction, TLAPS

\* The Torrent to be inserted is there as long as the main thread is busy with
\* it, and the rows have room for its next chunk.  All rows but those of uid 0
\* have their uid for a name.
NewFits ==
  /\ \A u \in DOMAIN rows : u # 0 => rows[u].name = u
  /\ new.dbuid \in {0, new.uid}
  /\ pc \in {"package", "row", "chunks", "register"} =>
       new.uid \in Contents /\ Len(new.chunks) = NumPieces
  /\ pc = "package" => new.uid \in DOMAIN package
  /\ pc = "chunks" =>
       new.dbuid \in DOMAIN rows /\ Len(rows[new.dbuid].flags) < NumPieces

TypeInv == TypeOK /\ NewFits

-----------------------------------------------------------------------------
(* The torrents created here. *)

AllTrue(chunks) == \A p \in DOMAIN chunks : chunks[p].exists

\* The rows of a created torrent and its package are made by -tc alone; what is
\* received gets the uid 0.
OwnRows ==
  \A u \in DOMAIN rows :
    IF u = 0 THEN rows[u].name \in Received
    ELSE /\ u \in Own
         /\ rows[u].name = u
         /\ \A i \in DOMAIN rows[u].flags : rows[u].flags[i]
         /\ u \in DOMAIN package /\ (package[u] = Pieces \/ u \in emptied)

OwnTorrents ==
  \A n \in DOMAIN torrents :
    IF n \in Own THEN torrents[n].uid = n /\ AllTrue(torrents[n].chunks)
    ELSE n \in Received /\ torrents[n].uid = 0

\* Whatever will be written to the rows of a created torrent says that it has
\* all its chunks.
OwnCopies == \A c \in copies : c.dbuid \in Own => AllTrue(c.chunks)

OwnNew ==
  pc \in {"package", "row", "chunks", "register"} =>
    IF new.dbuid = 0
      THEN pc # "package" /\ new.uid \in Received
      ELSE /\ new.uid \in Own /\ new.dbuid = new.uid
           /\ new.chunks = AllChunks(TRUE)
           /\ pc # "package" => new.uid \in DOMAIN package /\ package[new.uid] = Pieces
           /\ pc = "register" =>
                /\ new.uid \in DOMAIN rows
                /\ Len(rows[new.uid].flags) = NumPieces

OwnCreated == created \subseteq Own

\* What CreatedIsDurable says of the rows and of the memory.
CreatedKept ==
  \A u \in created :
    /\ u \in DOMAIN rows
    /\ rows[u] = [name |-> u, flags |-> [i \in Pieces |-> TRUE]]
    /\ pc # "down" =>
         u \in DOMAIN torrents /\ torrents[u] = [uid |-> u, chunks |-> AllChunks(TRUE)]

OwnInv == OwnRows /\ OwnTorrents /\ OwnCopies /\ OwnNew /\ OwnCreated /\ CreatedKept

-----------------------------------------------------------------------------
(* The progress of the one torrent that was received. *)

\* Piece i of n is in its package.
InPackage(n, i) == n \in DOMAIN package /\ i \in package[n]

FlagsMatch ==
  \A i \in DOMAIN rows[0].flags : rows[0].flags[i] <=> InPackage(rows[0].name, i)

\* The chunks of the Torrent in name2torrent are right at any time, although
\* the flags of the rows are not.
ChunksMatch ==
  LET c == torrents[rows[0].name].chunks
  IN  /\ DOMAIN c = DOMAIN rows[0].flags
      /\ \A i \in DOMAIN c : c[i].index = i /\ (c[i].exists <=> InPackage(rows[0].name, i))

\* Before the row of uid 0 is inserted nothing can be downloaded.
NothingReceived ==
  /\ DOMAIN torrents = {}
  /\ \A n \in Received : n \notin DOMAIN package

OneReceived ==
  /\ DOMAIN torrents \subseteq {rows[0].name}
  /\ pc = "chunks" /\ new.dbuid = 0 =>
       /\ DOMAIN torrents = {}
       /\ rows[0].name \notin DOMAIN package
       /\ new.chunks = AllChunks(FALSE)
  /\ DOMAIN torrents # {} => ChunksMatch
  /\ DOMAIN torrents = {} \/ pc = "starting" => FlagsMatch
  /\ pc = "starting" => \A c \in copies : c.dbuid = 0 /\ c.chunks = RowChunks(0)
  /\ pc = "exiting" =>
       /\ FlagsMatch \/ copies # {}
       /\ \A c \in copies :
            /\ DOMAIN torrents # {} /\ c.dbuid = 0
            /\ c.chunks = torrents[rows[0].name].chunks

ProgressInv ==
  /\ pc = "down" => DOMAIN torrents = {} /\ copies = {}
  /\ pc = "row" /\ new.dbuid = 0 => new.chunks = AllChunks(FALSE)
  /\ ~crashed /\ DOMAIN rows \subseteq {0} =>
       /\ \A c \in copies : c.dbuid = 0 => DOMAIN torrents # {}
       /\ IF DOMAIN rows = {} THEN NothingReceived ELSE OneReceived

StoreInv == TypeInv /\ OwnInv /\ ProgressInv

-----------------------------------------------------------------------------
(* Numbers and sequences. *)

\* A set of natural numbers that is not empty has a least element.
LEMMA LeastOf ==
  ASSUME NEW T, T \subseteq Nat, T # {}
  PROVE  \E m \in T : \A k \in T : m <= k
<1> DEFINE R == OpToRel(<, Nat)
<1>1. IsWellFoundedOn(R, Nat)
  BY NatLessThanWellFounded
<1>2. \A x, y \in Nat : <<y, x>> \in R <=> y < x
  BY DEF OpToRel
<1> HIDE DEF R
<1>3. PICK m \in T : \A k \in T : ~(<<k, m>> \in R)
  BY <1>1, WFMin
<1>4. ASSUME NEW k \in T PROVE m <= k
  <2>1. k \in Nat /\ m \in Nat /\ ~(<<k, m>> \in R)
    BY <1>3
  <2>2. ~(k < m)
    BY <2>1, <1>2
  <2> QED
    BY <2>1, <2>2
<1> QED
  BY <1>4

\* And one that is bounded has a greatest.
LEMMA GreatestOf ==
  ASSUME NEW n \in Nat, NEW T, T \subseteq 0..n, T # {}
  PROVE  \E m \in T : \A k \in T : k <= m
<1> DEFINE D == {n - k : k \in T}
<1>1. D \subseteq Nat /\ D # {}
  <2>1. ASSUME NEW k \in T PROVE n - k \in Nat
    <3>1. k \in 0..n
      OBVIOUS
    <3> QED
      BY <3>1
  <2> QED
    BY <2>1
<1>2. PICK d \in D : \A e \in D : d <= e
  BY <1>1, LeastOf
<1>3. PICK m \in T : d = n - m
  BY <1>2
<1>4. ASSUME NEW k \in T PROVE k <= m
  <2>1. n - m <= n - k
    BY <1>2, <1>3
  <2> QED
    BY <2>1
<1> QED
  BY <1>4

LEMMA SeqsUpToAre ==
  ASSUME NEW S, NEW n \in Nat, NEW s
  PROVE  s \in SeqsUpTo(S, n) <=> s \in Seq(S) /\ Len(s) <= n
<1>1. ASSUME s \in SeqsUpTo(S, n) PROVE s \in Seq(S) /\ Len(s) <= n
  <2>1. PICK k \in 0..n : s \in [1..k -> S]
    BY <1>1 DEF SeqsUpTo
  <2>2. s \in Seq(S)
    BY <2>1, SeqDef
  <2>3. Len(s) = k
    BY <2>1, <2>2, LenProperties
  <2> QED
    BY <2>2, <2>3
<1>2. ASSUME s \in Seq(S), Len(s) <= n PROVE s \in SeqsUpTo(S, n)
  <2>1. s \in [1..Len(s) -> S] /\ Len(s) \in 0..n
    BY <1>2, LenProperties
  <2> QED
    BY <2>1 DEF SeqsUpTo
<1> QED
  BY <1>1, <1>2

\* A function on the first n numbers is a sequence of that length.
LEMMA FunctionIsSeq ==
  ASSUME NEW S, NEW n \in Nat, NEW f \in [1..n -> S]
  PROVE  f \in Seq(S) /\ Len(f) = n
<1>1. f \in Seq(S)
  BY SeqDef
<1> QED
  BY <1>1, LenProperties

-----------------------------------------------------------------------------
(* Rows, chunks and Torrents. *)

LEMMA RowIs ==
  ASSUME TypeOK, NEW u \in DOMAIN rows
  PROVE  /\ u \in Uids
         /\ rows[u] = [name |-> rows[u].name, flags |-> rows[u].flags]
         /\ rows[u].name \in Contents
         /\ rows[u].flags \in Seq(BOOLEAN)
         /\ Len(rows[u].flags) \in 0..NumPieces
         /\ DOMAIN rows[u].flags = 1..Len(rows[u].flags)
         /\ DOMAIN rows[u].flags \subseteq Pieces
         /\ \A i \in DOMAIN rows[u].flags : rows[u].flags[i] \in BOOLEAN
<1>1. rows[u] \in [name : Contents, flags : SeqsUpTo(BOOLEAN, NumPieces)] /\ u \in Uids
  BY DEF TypeOK
<1>2. rows[u].flags \in Seq(BOOLEAN) /\ Len(rows[u].flags) <= NumPieces
  BY <1>1, SeqsUpToAre, PiecesAssumption
<1>3. /\ Len(rows[u].flags) \in Nat
      /\ DOMAIN rows[u].flags = 1..Len(rows[u].flags)
      /\ rows[u].flags \in [1..Len(rows[u].flags) -> BOOLEAN]
  BY <1>2, LenProperties
<1> QED
  BY <1>1, <1>2, <1>3, PiecesAssumption DEF Pieces

LEMMA IsRow ==
  ASSUME NEW n \in Contents, NEW f \in Seq(BOOLEAN), Len(f) <= NumPieces
  PROVE  [name |-> n, flags |-> f] \in [name : Contents, flags : SeqsUpTo(BOOLEAN, NumPieces)]
BY SeqsUpToAre, PiecesAssumption

LEMMA AllChunksAre ==
  ASSUME NEW b \in BOOLEAN
  PROVE  /\ AllChunks(b) \in Seq(Chunk)
         /\ Len(AllChunks(b)) = NumPieces
         /\ AllChunks(b) \in SeqsUpTo(Chunk, NumPieces)
<1>1. AllChunks(b) \in [1..NumPieces -> Chunk]
  BY DEF AllChunks, Chunk, Pieces
<1>2. AllChunks(b) \in Seq(Chunk) /\ Len(AllChunks(b)) = NumPieces
  BY <1>1, FunctionIsSeq, PiecesAssumption
<1> QED
  BY <1>2, SeqsUpToAre, PiecesAssumption

LEMMA RowChunksAre ==
  ASSUME TypeOK, NEW u \in DOMAIN rows
  PROVE  /\ RowChunks(u) \in Seq(Chunk)
         /\ Len(RowChunks(u)) = Len(rows[u].flags)
         /\ Len(RowChunks(u)) <= NumPieces
<1>1. RowChunks(u) \in [1..Len(rows[u].flags) -> Chunk]
  BY RowIs DEF RowChunks, Chunk
<1>2. PICK n \in Nat : n = Len(rows[u].flags)
  BY RowIs
<1>3. RowChunks(u) \in Seq(Chunk) /\ Len(RowChunks(u)) = n
  BY <1>1, <1>2, FunctionIsSeq
<1> QED
  BY <1>2, <1>3, RowIs

\* The chunk that counts is among those of its index.
LEMMA LastOfIndex ==
  ASSUME NEW chunks \in Seq(Chunk), NEW i,
         NEW at, at = {p \in DOMAIN chunks : chunks[p].index = i}, at # {}
  PROVE  (CHOOSE p \in at : \A q \in at : q <= p) \in at
<1>1. at \subseteq 0..Len(chunks) /\ Len(chunks) \in Nat
  BY LenProperties
<1>2. \E p \in at : \A q \in at : q <= p
  BY <1>1, GreatestOf
<1> QED
  BY <1>2

LEMMA UpdatedIs ==
  ASSUME NEW flags \in Seq(BOOLEAN), NEW chunks \in Seq(Chunk)
  PROVE  /\ Updated(flags, chunks) \in Seq(BOOLEAN)
         /\ Len(Updated(flags, chunks)) = Len(flags)
         /\ \A i \in DOMAIN flags :
              \/ Updated(flags, chunks)[i] = flags[i]
              \/ \E p \in DOMAIN chunks : Updated(flags, chunks)[i] = chunks[p].exists
<1>1. DOMAIN flags = 1..Len(flags) /\ Len(flags) \in Nat /\ flags \in [1..Len(flags) -> BOOLEAN]
  BY LenProperties
<1>2. chunks \in [DOMAIN chunks -> Chunk]
  BY LenProperties
<1>3. ASSUME NEW i \in DOMAIN flags
      PROVE  \/ Updated(flags, chunks)[i] = flags[i]
             \/ \E p \in DOMAIN chunks : Updated(flags, chunks)[i] = chunks[p].exists
  <2> DEFINE at == {p \in DOMAIN chunks : chunks[p].index = i}
             last == CHOOSE p \in at : \A q \in at : q <= p
  <2>1. Updated(flags, chunks)[i] = IF at = {} THEN flags[i] ELSE chunks[last].exists
    BY DEF Updated
  <2>2. at # {} => last \in at
    BY LastOfIndex
  <2> HIDE DEF last
  <2> QED
    BY <2>1, <2>2
<1>4. ASSUME NEW i \in DOMAIN flags PROVE Updated(flags, chunks)[i] \in BOOLEAN
  <2>1. flags[i] \in BOOLEAN /\ \A p \in DOMAIN chunks : chunks[p].exists \in BOOLEAN
    BY <1>1, <1>2 DEF Chunk
  <2> QED
    BY <1>3, <2>1
<1>5. Updated(flags, chunks) = [i \in DOMAIN flags |-> Updated(flags, chunks)[i]]
  BY DEF Updated
<1>6. Updated(flags, chunks) \in [1..Len(flags) -> BOOLEAN]
  BY <1>1, <1>4, <1>5
<1>7. Updated(flags, chunks) \in Seq(BOOLEAN) /\ Len(Updated(flags, chunks)) = Len(flags)
  BY <1>1, <1>6, FunctionIsSeq
<1> QED
  BY <1>3, <1>7

\* At most two rows have the same name, so that there is a last one.
LEMMA LastRowIs ==
  ASSUME TypeOK, NewFits, NEW u \in DOMAIN rows
  PROVE  /\ LastRow(rows[u].name) \in DOMAIN rows
         /\ rows[LastRow(rows[u].name)].name = rows[u].name
<1> DEFINE n == rows[u].name
<1>1. n \in Nat /\ RowsNamed(n) \subseteq {0, n} /\ u \in RowsNamed(n)
  BY RowIs, ContentsAssumption DEF RowsNamed, NewFits
<1>2. \E v \in RowsNamed(n) : \A w \in RowsNamed(n) : w <= v
  BY <1>1
<1>3. LastRow(n) \in RowsNamed(n)
  BY <1>2 DEF LastRow
<1> QED
  BY <1>3 DEF RowsNamed

LEMMA TorrentIs ==
  ASSUME TypeOK, NEW n \in DOMAIN torrents
  PROVE  /\ n \in Contents
         /\ torrents[n] = [uid |-> torrents[n].uid, chunks |-> torrents[n].chunks]
         /\ torrents[n].uid \in Uids
         /\ torrents[n].chunks \in Seq(Chunk)
         /\ Len(torrents[n].chunks) <= 2 * NumPieces
<1>1. torrents[n] \in [uid : Uids, chunks : SeqsUpTo(Chunk, 2 * NumPieces)] /\ n \in Contents
  BY DEF TypeOK
<1>2. 2 * NumPieces \in Nat
  BY PiecesAssumption
<1> QED
  BY <1>1, <1>2, SeqsUpToAre

LEMMA IsTorrent ==
  ASSUME NEW u \in Uids, NEW c \in Seq(Chunk), Len(c) <= 2 * NumPieces
  PROVE  [uid |-> u, chunks |-> c] \in [uid : Uids, chunks : SeqsUpTo(Chunk, 2 * NumPieces)]
<1>1. 2 * NumPieces \in Nat
  BY PiecesAssumption
<1> QED
  BY <1>1, SeqsUpToAre

LEMMA NewIs ==
  ASSUME TypeOK
  PROVE  /\ new.uid \in Uids /\ new.dbuid \in Uids
         /\ new.chunks \in Seq(Chunk) /\ Len(new.chunks) <= NumPieces
BY SeqsUpToAre, PiecesAssumption DEF TypeOK

\* A Torrent that is opened has at most the chunks of the rows besides its own.
LEMMA OpenedIs ==
  ASSUME TypeOK, NEW u \in Uids, NEW c \in Seq(Chunk)
  PROVE  /\ Opened(u, c).dbuid = u
         /\ Opened(u, c).chunks \in Seq(Chunk)
         /\ Len(c) <= NumPieces => Len(Opened(u, c).chunks) <= 2 * NumPieces
<1>1. CASE u \in DOMAIN rows
  <2>1. PICK r \in Seq(Chunk) : r = RowChunks(u) /\ Len(r) <= NumPieces
    BY <1>1, RowChunksAre
  <2>2. c \o r \in Seq(Chunk) /\ Len(c \o r) = Len(c) + Len(r)
    BY <2>1, ConcatProperties
  <2>3. Len(c) \in Nat /\ Len(r) \in Nat
    BY <2>1, LenProperties
  <2>4. Opened(u, c) = [dbuid |-> u, chunks |-> c \o r]
    BY <1>1, <2>1 DEF Opened
  <2> QED
    BY <2>1, <2>2, <2>3, <2>4, PiecesAssumption
<1>2. CASE u \notin DOMAIN rows
  <2>1. Opened(u, c) = [dbuid |-> u, chunks |-> c]
    BY <1>2 DEF Opened
  <2> QED
    BY <2>1, LenProperties, PiecesAssumption
<1> QED
  BY <1>1, <1>2

NoDomain == DOMAIN << >> = {}

LEMMA EmptyHasNoDomain == NoDomain
<1>1. << >> \in Seq({}) /\ Len(<< >>) = 0
  BY EmptySeq
<1>2. DOMAIN << >> = 1..0
  BY <1>1, LenProperties
<1> QED
  BY <1>2 DEF NoDomain

-----------------------------------------------------------------------------
(* The variables have their types. *)

LEMMA NoTorrentIs ==
  /\ NoTorrent \in [uid : Uids, dbuid : Uids, chunks : SeqsUpTo(Chunk, NumPieces)]
  /\ NoTorrent.uid = 0 /\ NoTorrent.dbuid = 0
<1>0. ASSUME NEW e \in Seq(Chunk), Len(e) = 0 PROVE e \in SeqsUpTo(Chunk, NumPieces)
  <2>1. NumPieces \in Nat /\ Len(e) <= NumPieces
    BY <1>0, PiecesAssumption
  <2> QED
    BY <2>1, SeqsUpToAre
<1>1. PICK e \in Seq(Chunk) : e = << >> /\ Len(e) = 0
  BY EmptySeq
<1>2. e \in SeqsUpTo(Chunk, NumPieces)
  BY <1>0, <1>1
<1>3. NoTorrent = [uid |-> 0, dbuid |-> 0, chunks |-> e]
  BY <1>1 DEF NoTorrent
<1>4. 0 \in Uids
  BY DEF Uids
<1> HIDE DEF NoTorrent
<1> QED
  BY <1>2, <1>3, <1>4

LEMMA InitTypeInv == Init => TypeInv
<1> SUFFICES ASSUME Init PROVE TypeInv
  OBVIOUS
<1>1. new = NoTorrent /\ pc = "down" /\ copies = {} /\ created = {} /\ crashed = FALSE /\ starts = 0
      /\ emptied = {}
  BY DEF Init
<1>2. DOMAIN rows = {} /\ DOMAIN package = {} /\ DOMAIN torrents = {}
  BY EmptyHasNoDomain DEF Init, NoDomain
<1>3. TypeOK
  <2>1. new \in [uid : Uids, dbuid : Uids, chunks : SeqsUpTo(Chunk, NumPieces)]
    BY <1>1, NoTorrentIs
  <2>2. starts \in 0..MaxStarts
    BY <1>1, BoundsAssumption
  <2>3. created \subseteq Contents /\ emptied \subseteq Contents /\ \A c \in copies : c.dbuid \in Uids /\ c.chunks \in Seq(Chunk)
    BY <1>1
  <2>4. DOMAIN rows \subseteq Uids /\ DOMAIN package \subseteq Contents /\ DOMAIN torrents \subseteq Contents
    BY <1>2
  <2>5. pc = "down" /\ crashed \in BOOLEAN
    BY <1>1
  <2> QED
    BY <1>2, <2>1, <2>2, <2>3, <2>4, <2>5 DEF TypeOK
<1>4. NewFits
  BY <1>1, <1>2, NoTorrentIs DEF NewFits
<1> QED
  BY <1>3, <1>4 DEF TypeInv

LEMMA StartKeepsTypes ==
  ASSUME TypeInv, Start
  PROVE  TypeInv'
<1> USE DEF TypeInv
<1>1. ASSUME NEW n \in DOMAIN torrents'
      PROVE  /\ n \in Contents
             /\ torrents'[n] \in [uid : Uids, chunks : SeqsUpTo(Chunk, 2 * NumPieces)]
  <2>1. PICK u \in DOMAIN rows : n = rows[u].name
    BY <1>1 DEF Start
  <2>2. PICK v \in DOMAIN rows : v = LastRow(n)
    BY <2>1, LastRowIs
  <2>3. torrents'[n] = [uid |-> v, chunks |-> RowChunks(v)]
    BY <1>1, <2>2 DEF Start
  <2>4. RowChunks(v) \in Seq(Chunk) /\ Len(RowChunks(v)) <= 2 * NumPieces /\ v \in Uids
    BY RowChunksAre, RowIs, LenProperties, PiecesAssumption
  <2> QED
    BY <2>1, <2>3, <2>4, IsTorrent, RowIs
<1>2. \A c \in copies' : c.dbuid \in Uids /\ c.chunks \in Seq(Chunk)
  BY RowChunksAre DEF Start, Uids
<1>3. starts' \in 0..MaxStarts
  BY BoundsAssumption DEF Start, TypeOK
<1> QED
  BY <1>1, <1>2, <1>3 DEF Start, TypeOK, NewFits, disk

\* What a destructor writes: the flags of one uid, if it has rows.
LEMMA DestroyIs ==
  ASSUME TypeOK, NEW c \in copies, Destroy(c)
  PROVE  /\ DOMAIN rows' = DOMAIN rows
         /\ c.dbuid \notin DOMAIN rows => rows' = rows
         /\ \A u \in DOMAIN rows :
              /\ rows'[u] = [name |-> rows[u].name, flags |-> rows'[u].flags]
              /\ rows'[u].flags = IF u = c.dbuid THEN Updated(rows[u].flags, c.chunks)
                                                ELSE rows[u].flags
              /\ rows'[u].flags \in Seq(BOOLEAN)
              /\ Len(rows'[u].flags) = Len(rows[u].flags)
         /\ copies' \subseteq copies
         /\ UNCHANGED <<package, torrents, new, pc, created, crashed, starts, emptied>>
<1>1. UNCHANGED <<package, torrents, new, pc, created, crashed, starts, emptied>> /\ copies' \subseteq copies
  BY DEF Destroy, history
<1>2. CASE c.dbuid \in DOMAIN rows
  <2> DEFINE d == c.dbuid
             f == Updated(rows[d].flags, c.chunks)
  <2>1. rows' = [rows EXCEPT ![d].flags = f]
    BY <1>2 DEF Destroy
  <2>2. f \in Seq(BOOLEAN) /\ Len(f) = Len(rows[d].flags)
    BY <1>2, RowIs, UpdatedIs DEF TypeOK
  <2>3. DOMAIN rows' = DOMAIN rows /\ rows'[d] = [name |-> rows[d].name, flags |-> f]
    BY <1>2, <2>1, RowIs
  <2>4. \A u \in DOMAIN rows : u # d => rows'[u] = rows[u]
    BY <2>1
  <2> HIDE DEF f
  <2>5. ASSUME NEW u \in DOMAIN rows
        PROVE  /\ rows'[u] = [name |-> rows[u].name, flags |-> rows'[u].flags]
               /\ rows'[u].flags = IF u = d THEN f ELSE rows[u].flags
               /\ rows'[u].flags \in Seq(BOOLEAN)
               /\ Len(rows'[u].flags) = Len(rows[u].flags)
    <3>1. CASE u = d
      BY <2>2, <2>3, <3>1
    <3>2. CASE u # d
      BY <2>4, <3>2, RowIs
    <3> QED
      BY <3>1, <3>2
  <2> QED
    BY <1>1, <1>2, <2>3, <2>5 DEF f
<1>3. CASE c.dbuid \notin DOMAIN rows
  <2>1. rows' = rows
    BY <1>3 DEF Destroy
  <2>2. \A u \in DOMAIN rows :
          /\ rows[u] = [name |-> rows[u].name, flags |-> rows[u].flags]
          /\ rows[u].flags \in Seq(BOOLEAN) /\ u # c.dbuid
    BY <1>3, RowIs
  <2> QED
    BY <1>1, <2>1, <2>2
<1> QED
  BY <1>2, <1>3

LEMMA DestroyKeepsTypes ==
  ASSUME TypeInv, NEW c \in copies, Destroy(c)
  PROVE  TypeInv'
<1> USE DEF TypeInv
<1>1. /\ DOMAIN rows' = DOMAIN rows /\ copies' \subseteq copies
      /\ UNCHANGED <<package, torrents, new, pc, created, crashed, starts, emptied>>
  BY DestroyIs
<1>2. ASSUME NEW u \in DOMAIN rows
      PROVE  /\ rows'[u] \in [name : Contents, flags : SeqsUpTo(BOOLEAN, NumPieces)]
             /\ rows'[u].name = rows[u].name
             /\ Len(rows'[u].flags) = Len(rows[u].flags)
  <2>1. /\ rows'[u] = [name |-> rows[u].name, flags |-> rows'[u].flags]
        /\ rows'[u].flags \in Seq(BOOLEAN)
        /\ Len(rows'[u].flags) = Len(rows[u].flags)
    BY DestroyIs
  <2>2. rows[u].name \in Contents /\ Len(rows[u].flags) <= NumPieces
    BY RowIs
  <2>3. PICK f \in Seq(BOOLEAN) : f = rows'[u].flags /\ Len(f) <= NumPieces
    BY <2>1, <2>2
  <2>4. [name |-> rows[u].name, flags |-> f] \in [name : Contents, flags : SeqsUpTo(BOOLEAN, NumPieces)]
    BY <2>2, <2>3, IsRow
  <2> QED
    BY <2>1, <2>3, <2>4
<1> QED
  BY <1>1, <1>2 DEF TypeOK, NewFits

LEMMA EndsKeepTypes ==
  ASSUME TypeInv, Started \/ Quit \/ Exited \/ Crash
  PROVE  TypeInv'
<1> USE DEF TypeInv
<1>1. CASE Started
  BY <1>1 DEF Started, TypeOK, NewFits, disk, history
<1>2. CASE Quit
  <2>1. \A c \in copies' : c.dbuid \in Uids /\ c.chunks \in Seq(Chunk)
    BY <1>2, TorrentIs DEF Quit, Copy, Uids
  <2> QED
    BY <1>2, <2>1 DEF Quit, TypeOK, NewFits, disk, history
<1>3. CASE Exited
  BY <1>3, EmptyHasNoDomain DEF Exited, TypeOK, NewFits, NoDomain, disk, history
<1>4. CASE Crash
  <2> QED
    BY <1>4, NoTorrentIs, EmptyHasNoDomain DEF Crash, TypeOK, NewFits, NoDomain, disk
<1> QED
  BY <1>1, <1>2, <1>3, <1>4

\* The Torrent of -tc, or the one received, is a new one with all its chunks.
LEMMA NewTorrentIs ==
  ASSUME NEW u \in Contents, NEW d \in {0, u}, NEW b \in BOOLEAN,
         new' = [uid |-> u, dbuid |-> d, chunks |-> AllChunks(b)]
  PROVE  /\ new' \in [uid : Uids, dbuid : Uids, chunks : SeqsUpTo(Chunk, NumPieces)]
         /\ new'.uid = u /\ new'.dbuid = d /\ Len(new'.chunks) = NumPieces
BY AllChunksAre DEF Uids

LEMMA BeginKeepsTypes ==
  ASSUME TypeInv,
         \/ \E u \in Own : BeginPackage(u)
         \/ FinishPackage \/ FailPackage
         \/ \E u \in Received : ReceiveTorrent(u)
  PROVE  TypeInv'
<1> USE DEF TypeInv
<1>1. ASSUME NEW u \in Own, BeginPackage(u) PROVE TypeInv'
  <2>1. u \in Contents /\ new' = [uid |-> u, dbuid |-> u, chunks |-> AllChunks(TRUE)]
    BY <1>1, OwnAssumption DEF BeginPackage
  <2>2. /\ new' \in [uid : Uids, dbuid : Uids, chunks : SeqsUpTo(Chunk, NumPieces)]
        /\ new'.uid = u /\ new'.dbuid = u /\ Len(new'.chunks) = NumPieces
    BY <2>1, NewTorrentIs
  <2>3. package' = Put(package, u, {}) /\ pc' = "package"
    BY <1>1 DEF BeginPackage
  <2>4. DOMAIN package' = DOMAIN package \union {u} /\ \A n \in DOMAIN package' : package'[n] \subseteq Pieces
    BY <2>3 DEF TypeOK, Put
  <2>5. /\ UNCHANGED <<rows, torrents, copies, created, crashed, starts>>
        /\ emptied' \subseteq emptied \union {u}
    BY <1>1 DEF BeginPackage
  <2>6. TypeOK'
    BY <2>1, <2>2, <2>3, <2>4, <2>5 DEF TypeOK
  <2> QED
    BY <2>1, <2>2, <2>3, <2>4, <2>5, <2>6 DEF NewFits
<1>2. CASE FinishPackage
  BY <1>2 DEF FinishPackage, TypeOK, NewFits
<1>3. ASSUME NEW u \in Received, ReceiveTorrent(u) PROVE TypeInv'
  <2>1. u \in Contents /\ new' = [uid |-> u, dbuid |-> 0, chunks |-> AllChunks(FALSE)]
    BY <1>3, OwnAssumption DEF ReceiveTorrent
  <2>2. /\ new' \in [uid : Uids, dbuid : Uids, chunks : SeqsUpTo(Chunk, NumPieces)]
        /\ new'.uid = u /\ new'.dbuid = 0 /\ Len(new'.chunks) = NumPieces
    BY <2>1, NewTorrentIs
  <2>3. UNCHANGED <<rows, package, torrents, copies, created, crashed, starts, emptied>> /\ pc' = "row"
    BY <1>3 DEF ReceiveTorrent, disk, history
  <2>4. TypeOK'
    BY <2>2, <2>3 DEF TypeOK
  <2> QED
    BY <2>1, <2>2, <2>3, <2>4 DEF NewFits
<1>4. CASE FailPackage
  BY <1>4, NoTorrentIs DEF FailPackage, TypeOK, NewFits, disk, history
<1> QED
  BY <1>1, <1>2, <1>3, <1>4

LEMMA InsertRowKeepsTypes ==
  ASSUME TypeInv, InsertRow
  PROVE  TypeInv'
<1> USE DEF TypeInv
<1> DEFINE d == new.dbuid
<1>1. /\ d \notin DOMAIN rows /\ pc = "row" /\ pc' = "chunks"
      /\ UNCHANGED <<package, torrents, copies, new, created, crashed, starts, emptied>>
  BY DEF InsertRow, history
<1>2. PICK e \in Seq(BOOLEAN) : e = << >> /\ Len(e) = 0
  BY EmptySeq
<1>3. rows' = Put(rows, d, [name |-> new.uid, flags |-> e])
  BY <1>2 DEF InsertRow
<1>4. new.uid \in Contents /\ d \in {0, new.uid} /\ d \in Uids
  BY <1>1, NewIs DEF NewFits
<1>5. Len(e) <= NumPieces /\ 0 < NumPieces
  BY <1>2, PiecesAssumption
<1>6. [name |-> new.uid, flags |-> e] \in [name : Contents, flags : SeqsUpTo(BOOLEAN, NumPieces)]
  BY <1>4, <1>5, IsRow
<1>7. /\ DOMAIN rows' = DOMAIN rows \union {d}
      /\ rows'[d] = [name |-> new.uid, flags |-> e]
      /\ \A u \in DOMAIN rows : rows'[u] = rows[u]
  BY <1>1, <1>3 DEF Put
<1>8. TypeOK'
  BY <1>1, <1>4, <1>6, <1>7 DEF TypeOK
<1>9. rows'[d].name = new.uid /\ Len(rows'[d].flags) = 0
  BY <1>2, <1>7
<1>10. NewFits'
  BY <1>1, <1>4, <1>5, <1>7, <1>9 DEF NewFits
<1> QED
  BY <1>8, <1>10

LEMMA InsertChunkIs ==
  ASSUME TypeInv, InsertChunk
  PROVE  LET d == new.dbuid
             f == rows[d].flags
         IN  /\ d \in DOMAIN rows
             /\ Len(f) + 1 \in 1..NumPieces
             /\ DOMAIN rows' = DOMAIN rows
             /\ \A u \in DOMAIN rows : rows'[u].name = rows[u].name
             /\ \A u \in DOMAIN rows \ {d} : rows'[u] = rows[u]
             /\ rows'[d] = [name |-> rows[d].name, flags |-> rows'[d].flags]
             /\ rows'[d].flags \in Seq(BOOLEAN)
             /\ Len(rows'[d].flags) = Len(f) + 1
             /\ \A i \in 1..Len(f) : rows'[d].flags[i] = f[i]
             /\ rows'[d].flags[Len(f) + 1] = new.chunks[Len(f) + 1].exists
             /\ pc = "chunks"
             /\ pc' = IF Len(f) + 1 < NumPieces THEN "chunks" ELSE "register"
             /\ UNCHANGED <<package, torrents, copies, new, created, crashed, starts, emptied>>
<1> DEFINE d == new.dbuid
           f == rows[d].flags
           x == new.chunks[Len(f) + 1].exists
<1>1. d \in DOMAIN rows /\ Len(f) < NumPieces /\ Len(new.chunks) = NumPieces
  BY DEF InsertChunk, TypeInv, NewFits
<1>2. f \in Seq(BOOLEAN) /\ Len(f) \in Nat /\ rows[d] = [name |-> rows[d].name, flags |-> f]
  BY <1>1, RowIs DEF TypeInv
<1>3. Len(f) + 1 \in 1..NumPieces
  BY <1>1, <1>2, PiecesAssumption
<1>4. x \in BOOLEAN
  <2>1. new.chunks \in Seq(Chunk) /\ Len(f) + 1 \in 1..Len(new.chunks)
    BY <1>1, <1>3, NewIs DEF TypeInv
  <2>2. new.chunks[Len(f) + 1] \in Chunk
    BY <2>1, ElementOfSeq
  <2> QED
    BY <2>2 DEF Chunk
<1>5. /\ Append(f, x) \in Seq(BOOLEAN) /\ Len(Append(f, x)) = Len(f) + 1
      /\ \A i \in 1..Len(f) : Append(f, x)[i] = f[i]
      /\ Append(f, x)[Len(f) + 1] = x
  BY <1>2, <1>4, AppendProperties
<1>6. PICK g : /\ g = Append(f, x)
               /\ g \in Seq(BOOLEAN) /\ Len(g) = Len(f) + 1
               /\ \A i \in 1..Len(f) : g[i] = f[i]
               /\ g[Len(f) + 1] = x
  BY <1>5
<1>7. rows' = [rows EXCEPT ![d].flags = g]
  BY <1>6 DEF InsertChunk
<1>8. DOMAIN rows' = DOMAIN rows /\ rows'[d] = [name |-> rows[d].name, flags |-> g]
  BY <1>1, <1>2, <1>7
<1>9. \A u \in DOMAIN rows \ {d} : rows'[u] = rows[u]
  BY <1>7
<1>10. rows'[d].flags = g /\ rows'[d].name = rows[d].name
  BY <1>8
<1>11. \A u \in DOMAIN rows : rows'[u].name = rows[u].name
  BY <1>9, <1>10
<1>12. /\ pc = "chunks"
       /\ pc' = IF Len(f) + 1 < NumPieces THEN "chunks" ELSE "register"
       /\ UNCHANGED <<package, torrents, copies, new, created, crashed, starts, emptied>>
  BY DEF InsertChunk, history
<1> QED
  BY <1>1, <1>3, <1>6, <1>8, <1>9, <1>10, <1>11, <1>12

LEMMA InsertKeepsTypes ==
  ASSUME TypeInv, Insert
  PROVE  TypeInv'
<1> USE DEF TypeInv
<1>1. CASE InsertRow
  BY <1>1, InsertRowKeepsTypes
<1>2. CASE InsertChunk
  <2> DEFINE d == new.dbuid
             f == rows[d].flags
  <2>1. /\ d \in DOMAIN rows /\ rows[d].name \in Contents
        /\ rows'[d].flags \in Seq(BOOLEAN) /\ Len(rows'[d].flags) = Len(f) + 1
        /\ Len(f) \in Nat /\ Len(f) + 1 <= NumPieces
        /\ rows'[d] = [name |-> rows[d].name, flags |-> rows'[d].flags]
    BY <1>2, InsertChunkIs, RowIs
  <2>2. rows'[d] \in [name : Contents, flags : SeqsUpTo(BOOLEAN, NumPieces)]
    BY <2>1, IsRow
  <2>3. TypeOK'
    BY <1>2, <2>2, InsertChunkIs DEF TypeOK
  <2>4. NewFits'
    BY <1>2, <2>1, InsertChunkIs DEF NewFits
  <2> QED
    BY <2>3, <2>4
<1>3. CASE InsertFails
  <2>1. UNCHANGED <<rows, package, torrents, created, crashed, starts, emptied>> /\ pc \in {"row", "chunks"}
    BY <1>3 DEF InsertFails, disk, history
  <2>2. CASE new.dbuid = 0
    BY <1>3, <2>1, <2>2 DEF InsertFails, TypeOK, NewFits
  <2>3. CASE new.dbuid # 0
    <3>1. pc' = "idle" /\ new' = NoTorrent /\ copies' = copies \union {Copy(new.dbuid, new)}
      BY <1>3, <2>3 DEF InsertFails
    <3>2. \A c \in copies' : c.dbuid \in Uids /\ c.chunks \in Seq(Chunk)
      BY <3>1, NewIs DEF Copy, TypeOK
    <3> QED
      BY <2>1, <3>1, <3>2, NoTorrentIs DEF TypeOK, NewFits
  <2> QED
    BY <2>2, <2>3
<1> QED
  BY <1>1, <1>2, <1>3 DEF Insert

LEMMA RegisterKeepsTypes ==
  ASSUME TypeInv, Register
  PROVE  TypeInv'
<1> USE DEF TypeInv
<1>0. new.uid \in Uids /\ new.dbuid \in Uids /\ new.chunks \in Seq(Chunk) /\ Len(new.chunks) <= NumPieces
  BY NewIs
<1>1. CASE RegisterCreated
  <2>1. new.uid \in Contents
    BY <1>1 DEF RegisterCreated, NewFits
  <2>2. Len(new.chunks) <= 2 * NumPieces
    BY <1>0, LenProperties, PiecesAssumption
  <2>3. [uid |-> new.uid, chunks |-> new.chunks] \in [uid : Uids, chunks : SeqsUpTo(Chunk, 2 * NumPieces)]
    BY <1>0, <2>2, IsTorrent
  <2>4. /\ DOMAIN torrents' \subseteq Contents
        /\ \A n \in DOMAIN torrents' :
             torrents'[n] \in [uid : Uids, chunks : SeqsUpTo(Chunk, 2 * NumPieces)]
    BY <1>1, <2>1, <2>3 DEF RegisterCreated, Put, TypeOK
  <2>5. \A c \in copies' : c.dbuid \in Uids /\ c.chunks \in Seq(Chunk)
    BY <1>0, <1>1 DEF RegisterCreated, Copy, TypeOK
  <2>6. created' \subseteq Contents
    BY <1>1, <2>1 DEF RegisterCreated, TypeOK
  <2>7. pc' = "idle" /\ new' = NoTorrent /\ UNCHANGED <<rows, package, crashed, starts, emptied>>
    BY <1>1 DEF RegisterCreated, disk
  <2> QED
    BY <2>4, <2>5, <2>6, <2>7, NoTorrentIs DEF TypeOK, NewFits
<1>2. CASE OpenReceived
  <2> DEFINE t == Opened(new.uid, new.chunks)
  <2>1. new.uid \in Contents
    BY <1>2 DEF OpenReceived, NewFits
  <2>2. t.dbuid = new.uid /\ t.chunks \in Seq(Chunk) /\ Len(t.chunks) <= 2 * NumPieces
    BY <1>0, OpenedIs
  <2>3. [uid |-> new.uid, chunks |-> t.chunks] \in [uid : Uids, chunks : SeqsUpTo(Chunk, 2 * NumPieces)]
    BY <1>0, <2>2, IsTorrent
  <2>4. /\ torrents' = IF new.uid \in DOMAIN rows
                          THEN Put(torrents, new.uid, [uid |-> new.uid, chunks |-> t.chunks])
                          ELSE torrents
        /\ copies' = copies \union {t}
        /\ pc' = "idle" /\ new' = NoTorrent
        /\ UNCHANGED <<rows, package, created, crashed, starts, emptied>>
    BY <1>2 DEF OpenReceived, disk, history
  <2> HIDE DEF t
  <2>5. /\ DOMAIN torrents' \subseteq Contents
        /\ \A n \in DOMAIN torrents' :
             torrents'[n] \in [uid : Uids, chunks : SeqsUpTo(Chunk, 2 * NumPieces)]
    BY <2>1, <2>3, <2>4 DEF Put, TypeOK
  <2>6. \A c \in copies' : c.dbuid \in Uids /\ c.chunks \in Seq(Chunk)
    BY <1>0, <2>2, <2>4 DEF TypeOK
  <2> QED
    BY <2>4, <2>5, <2>6, NoTorrentIs DEF TypeOK, NewFits
<1> QED
  BY <1>1, <1>2 DEF Register

\* A chunk with its flag set, and a Torrent with other chunks.
WithExists(x, v) == [x EXCEPT !.exists = v]
WithChunks(t, d) == [t EXCEPT !.chunks = d]

LEMMA WithExistsIs ==
  ASSUME NEW k, NEW b, NEW v
  PROVE  WithExists([index |-> k, exists |-> b], v) = [index |-> k, exists |-> v]
<1>1. [[index |-> k, exists |-> b] EXCEPT !.exists = v] = [index |-> k, exists |-> v]
  OBVIOUS
<1> QED
  BY <1>1, Zenon DEF WithExists

LEMMA WithChunksIs ==
  ASSUME NEW u, NEW d, NEW e
  PROVE  WithChunks([uid |-> u, chunks |-> d], e) = [uid |-> u, chunks |-> e]
<1>1. [[uid |-> u, chunks |-> d] EXCEPT !.chunks = e] = [uid |-> u, chunks |-> e]
  OBVIOUS
<1> QED
  BY <1>1, Zenon DEF WithChunks

LEMMA SetExists ==
  ASSUME NEW v, NEW k, NEW b, NEW d, NEW i \in DOMAIN d, d[i] = [index |-> k, exists |-> b]
  PROVE  [d EXCEPT ![i].exists = v] = [d EXCEPT ![i] = [index |-> k, exists |-> v]]
<1>1. [d EXCEPT ![i].exists = v] = [d EXCEPT ![i] = WithExists(d[i], v)]
  BY DEF WithExists
<1>2. WithExists(d[i], v) = [index |-> k, exists |-> v]
  <2>1. WithExists([index |-> k, exists |-> b], v) = [index |-> k, exists |-> v]
    BY WithExistsIs
  <2> QED
    BY <2>1, Zenon
<1> QED
  BY <1>1, <1>2

LEMMA CopyIs ==
  ASSUME NEW d, NEW t
  PROVE  Copy(d, t).dbuid = d /\ Copy(d, t).chunks = t.chunks
BY DEF Copy

\* What PutChunk changes: one flag in memory, and the package.
LEMMA PutChunkIs ==
  ASSUME TypeOK, NEW n \in Contents, NEW i \in Pieces, PutChunk(n, i)
  PROVE  LET c == torrents[n].chunks
         IN  /\ n \in DOMAIN torrents /\ i \in DOMAIN c /\ ~c[i].exists
             /\ DOMAIN torrents' = DOMAIN torrents
             /\ \A m \in DOMAIN torrents \ {n} : torrents'[m] = torrents[m]
             /\ torrents'[n] = [uid |-> torrents[n].uid, chunks |-> torrents'[n].chunks]
             /\ torrents'[n].chunks \in Seq(Chunk)
             /\ Len(torrents'[n].chunks) = Len(c)
             /\ \A j \in DOMAIN c :
                  torrents'[n].chunks[j] =
                    IF j = i THEN [index |-> c[i].index, exists |-> TRUE] ELSE c[j]
             /\ package' = Put(package, n, {i} \union
                                IF n \in DOMAIN package THEN package[n] ELSE {})
             /\ copies' = copies \union {Copy(0, torrents'[n])}
             /\ UNCHANGED <<rows, new, pc, created, crashed, starts, emptied>>
<1> DEFINE c == torrents[n].chunks
<1>1. n \in DOMAIN torrents /\ i \in DOMAIN c /\ ~c[i].exists
  BY DEF PutChunk
<1>2. c \in Seq(Chunk) /\ torrents[n] = [uid |-> torrents[n].uid, chunks |-> c]
  BY <1>1, TorrentIs
<1>3. Len(c) \in Nat /\ DOMAIN c = 1..Len(c) /\ c \in [1..Len(c) -> Chunk]
  BY <1>2, LenProperties
<1>4. PICK x \in Chunk : x = [index |-> c[i].index, exists |-> TRUE]
  BY <1>1, <1>3 DEF Chunk
<1>5. [c EXCEPT ![i].exists = TRUE] = [c EXCEPT ![i] = x]
  <2>1. PICK k, b : c[i] = [index |-> k, exists |-> b]
    BY <1>1, <1>3 DEF Chunk
  <2>2. x = [index |-> k, exists |-> TRUE]
    BY <1>4, <2>1
  <2>3. ASSUME NEW v PROVE [c EXCEPT ![i].exists = v] = [c EXCEPT ![i] = [index |-> k, exists |-> v]]
    BY <1>1, <2>1, SetExists
  <2>4. [c EXCEPT ![i].exists = TRUE] = [c EXCEPT ![i] = [index |-> k, exists |-> TRUE]]
    BY <2>3, Zenon
  <2> QED
    BY <2>2, <2>4, Zenon
<1>6. torrents' = [torrents EXCEPT ![n].chunks[i].exists = TRUE]
  BY DEF PutChunk
<1>7. torrents' = [torrents EXCEPT ![n] = [uid |-> torrents[n].uid, chunks |-> [c EXCEPT ![i].exists = TRUE]]]
  <2>1. PICK u, d : u = torrents[n].uid /\ d = c
    OBVIOUS
  <2>2. torrents[n] = [uid |-> u, chunks |-> d]
    BY <1>2, <2>1
  <2>3. ASSUME NEW v
        PROVE  [torrents EXCEPT ![n].chunks[i].exists = v]
                 = [torrents EXCEPT ![n] = [uid |-> u, chunks |-> [d EXCEPT ![i].exists = v]]]
    <3>1. [torrents EXCEPT ![n].chunks[i].exists = v]
            = [torrents EXCEPT ![n] = WithChunks(torrents[n], [torrents[n].chunks EXCEPT ![i].exists = v])]
      BY DEF WithChunks
    <3>2. WithChunks([uid |-> u, chunks |-> d], [d EXCEPT ![i].exists = v])
            = [uid |-> u, chunks |-> [d EXCEPT ![i].exists = v]]
      BY WithChunksIs
    <3>3. WithChunks(torrents[n], [d EXCEPT ![i].exists = v])
            = [uid |-> u, chunks |-> [d EXCEPT ![i].exists = v]]
      BY <2>2, <3>2, Zenon
    <3> QED
      BY <2>1, <3>1, <3>3
  <2>4. torrents' = [torrents EXCEPT ![n] = [uid |-> u, chunks |-> [d EXCEPT ![i].exists = TRUE]]]
    BY <1>6, <2>3, Zenon
  <2> QED
    BY <2>1, <2>4
<1>8. /\ DOMAIN torrents' = DOMAIN torrents
      /\ \A m \in DOMAIN torrents \ {n} : torrents'[m] = torrents[m]
      /\ torrents'[n] = [uid |-> torrents[n].uid, chunks |-> [c EXCEPT ![i] = x]]
  BY <1>1, <1>5, <1>7
<1>9. /\ [c EXCEPT ![i] = x] \in Seq(Chunk)
      /\ Len([c EXCEPT ![i] = x]) = Len(c)
      /\ \A j \in 1..Len(c) : [c EXCEPT ![i] = x][j] = IF j = i THEN x ELSE c[j]
  BY <1>1, <1>2, <1>3, ExceptSeq
<1>10. /\ package' = Put(package, n, {i} \union
                                IF n \in DOMAIN package THEN package[n] ELSE {})
       /\ copies' = copies \union {Copy(0, torrents'[n])}
       /\ UNCHANGED <<rows, new, pc, created, crashed, starts, emptied>>
  BY DEF PutChunk, history
<1> QED
  BY <1>1, <1>3, <1>4, <1>8, <1>9, <1>10

LEMMA WorkersKeepTypes ==
  ASSUME TypeInv, Workers
  PROVE  TypeInv'
<1> USE DEF TypeInv
<1>1. ASSUME NEW n \in Contents, CopyTorrent(n) PROVE TypeInv'
  <2>1. UNCHANGED <<rows, package, torrents, new, pc, created, crashed, starts, emptied>> /\ n \in DOMAIN torrents
    BY <1>1 DEF CopyTorrent, disk, history
  <2>2. torrents[n].uid \in Uids /\ torrents[n].chunks \in Seq(Chunk)
    BY <2>1, TorrentIs
  <2>3. \/ copies' = copies \union {Copy(0, torrents[n])}
        \/ copies' = copies \union {Opened(torrents[n].uid, torrents[n].chunks)}
    BY <1>1 DEF CopyTorrent
  <2>4. PICK t : /\ copies' = copies \union {t}
                 /\ t.dbuid \in Uids /\ t.chunks \in Seq(Chunk)
    <3>1. CASE copies' = copies \union {Copy(0, torrents[n])}
      BY <2>2, <3>1, CopyIs DEF Uids
    <3>2. CASE copies' = copies \union {Opened(torrents[n].uid, torrents[n].chunks)}
      BY <2>2, <3>2, OpenedIs
    <3> QED
      BY <2>3, <3>1, <3>2
  <2>5. \A c \in copies' : c.dbuid \in Uids /\ c.chunks \in Seq(Chunk)
    BY <2>4 DEF TypeOK
  <2> QED
    BY <2>1, <2>5 DEF TypeOK, NewFits
<1>2. ASSUME NEW n \in Contents, NEW i \in Pieces, PutChunk(n, i) PROVE TypeInv'
  <2>1. /\ torrents'[n].chunks \in Seq(Chunk)
        /\ Len(torrents'[n].chunks) <= 2 * NumPieces
        /\ torrents[n].uid \in Uids
        /\ torrents'[n] = [uid |-> torrents[n].uid, chunks |-> torrents'[n].chunks]
    BY <1>2, PutChunkIs, TorrentIs
  <2>2. torrents'[n] \in [uid : Uids, chunks : SeqsUpTo(Chunk, 2 * NumPieces)]
    BY <2>1, IsTorrent
  <2>3. \A c \in copies' : c.dbuid \in Uids /\ c.chunks \in Seq(Chunk)
    <3>1. PICK t : t = Copy(0, torrents'[n])
      OBVIOUS
    <3>2. t.dbuid = 0 /\ t.chunks = torrents'[n].chunks
      BY <3>1, CopyIs, Zenon
    <3>3. copies' = copies \union {t}
      BY <1>2, <3>1, PutChunkIs
    <3> QED
      BY <2>1, <3>2, <3>3 DEF TypeOK, Uids
  <2>4. /\ DOMAIN package' = DOMAIN package \union {n}
        /\ \A m \in DOMAIN package' : package'[m] \subseteq Pieces
    <3>1. package' = Put(package, n, {i} \union IF n \in DOMAIN package THEN package[n] ELSE {})
      BY <1>2, PutChunkIs
    <3> QED
      BY <3>1 DEF Put, TypeOK
  <2>5. /\ DOMAIN torrents' = DOMAIN torrents
        /\ \A m \in DOMAIN torrents \ {n} : torrents'[m] = torrents[m]
        /\ UNCHANGED <<rows, new, pc, created, crashed, starts, emptied>>
    BY <1>2, PutChunkIs
  <2> QED
    BY <2>2, <2>3, <2>4, <2>5 DEF TypeOK, NewFits
<1> QED
  BY <1>1, <1>2 DEF Workers

LEMMA StepTypeInv == TypeInv /\ [Next]_vars => TypeInv'
<1> SUFFICES ASSUME TypeInv, [Next]_vars PROVE TypeInv'
  OBVIOUS
<1>1. CASE Start
  BY <1>1, StartKeepsTypes
<1>2. CASE Started \/ Quit \/ Exited \/ Crash
  BY <1>2, EndsKeepTypes
<1>3. CASE Create \/ Receive
  BY <1>3, BeginKeepsTypes DEF Create, Receive
<1>4. CASE Insert
  BY <1>4, InsertKeepsTypes
<1>5. CASE Register
  BY <1>5, RegisterKeepsTypes
<1>6. CASE Workers
  BY <1>6, WorkersKeepTypes
<1>7. CASE Destructors
  BY <1>7, DestroyKeepsTypes DEF Destructors
<1>8. CASE UNCHANGED vars
  BY <1>8 DEF vars, disk, memory, history, TypeInv, TypeOK, NewFits
<1> QED
  BY <1>1, <1>2, <1>3, <1>4, <1>5, <1>6, <1>7, <1>8 DEF Next, NextNoCrash

\* The rows, the packages and all Torrents in memory have their types, and no
\* more chunks than they may have, whatever is created, received, cut off and
\* started again (torrent.cpp, torrentDB.cpp).
THEOREM StoreTypeCorrect == Spec => []TypeOK
<1>1. TypeInv => TypeOK
  BY DEF TypeInv
<1> QED
  BY <1>1, InitTypeInv, StepTypeInv, PTL DEF Spec
-----------------------------------------------------------------------------
(* No row claims a chunk its package lacks, but for an emptied package. *)

Filled(u) == u \in DOMAIN package /\ package[u] = Pieces

\* A package is filled before the rows are inserted, and only opened for a
\* later -tc is it emptied again.
PackagesFilled ==
  /\ \A u \in DOMAIN rows \ {0} : Filled(u) \/ u \in emptied
  /\ pc \in {"row", "chunks", "register"} /\ new.dbuid # 0 => Filled(new.uid)

LEMMA PackagesStayFilled ==
  ASSUME PackagesFilled, UNCHANGED <<package, emptied>>,
         DOMAIN rows' \subseteq DOMAIN rows,
         pc' \in {"row", "chunks", "register"} /\ new'.dbuid # 0 =>
           pc \in {"row", "chunks", "register"} /\ new' = new
  PROVE  PackagesFilled'
BY DEF PackagesFilled, Filled

LEMMA MainKeepsFilled ==
  ASSUME TypeInv, PackagesFilled, Create \/ Receive \/ Insert \/ Register
  PROVE  PackagesFilled'
<1>1. ASSUME NEW u \in Own, BeginPackage(u) PROVE PackagesFilled'
  <2>1. /\ package' = Put(package, u, {}) /\ emptied' = emptied \union ({u} \intersect DOMAIN rows)
        /\ rows' = rows /\ pc' = "package"
    BY <1>1 DEF BeginPackage
  <2>2. \A v \in DOMAIN rows : v # u /\ Filled(v) => Filled(v)'
    BY <2>1 DEF Filled, Put
  <2> QED
    BY <2>1, <2>2 DEF PackagesFilled
<1>2. CASE FinishPackage
  <2>1. /\ pc' = "row" /\ UNCHANGED <<rows, new>>
        /\ package' = [package EXCEPT ![new.uid] = Pieces] /\ emptied' = emptied \ {new.uid}
        /\ new.uid \in DOMAIN package
    BY <1>2 DEF FinishPackage, TypeInv, NewFits
  <2>2. Filled(new.uid)' /\ \A v : Filled(v) => Filled(v)'
    BY <2>1 DEF Filled
  <2> QED
    BY <2>1, <2>2 DEF PackagesFilled
<1>3. CASE FailPackage
  BY <1>3, PackagesStayFilled DEF FailPackage, disk, history
<1>4. ASSUME NEW u \in Received, ReceiveTorrent(u) PROVE PackagesFilled'
  BY <1>4, PackagesStayFilled DEF ReceiveTorrent, disk, history
<1>5. CASE InsertRow
  <2>1. /\ rows' = Put(rows, new.dbuid, [name |-> new.uid, flags |-> << >>])
        /\ pc = "row" /\ UNCHANGED <<package, new, emptied>>
    BY <1>5 DEF InsertRow, history
  <2>2. DOMAIN rows' = DOMAIN rows \union {new.dbuid} /\ new.dbuid \in {0, new.uid}
    BY <2>1 DEF Put, TypeInv, NewFits
  <2> QED
    BY <2>1, <2>2 DEF PackagesFilled, Filled
<1>6. CASE InsertChunk
  BY <1>6, InsertChunkIs, PackagesStayFilled
<1>7. CASE InsertFails
  <2>1. UNCHANGED <<rows, package, emptied>> /\ pc \in {"row", "chunks"}
    BY <1>7 DEF InsertFails, disk, history
  <2>2. new.dbuid # 0 => pc' = "idle"
    BY <1>7 DEF InsertFails
  <2>3. new.dbuid = 0 => new' = new
    BY <1>7 DEF InsertFails
  <2> QED
    BY <2>1, <2>2, <2>3, PackagesStayFilled
<1>8. CASE Register
  <2>1. UNCHANGED <<rows, package, emptied>> /\ pc' = "idle"
    BY <1>8 DEF Register, RegisterCreated, OpenReceived, disk, history
  <2> QED
    BY <2>1, PackagesStayFilled
<1> QED
  BY <1>1, <1>2, <1>3, <1>4, <1>5, <1>6, <1>7, <1>8 DEF Create, Receive, Insert

LEMMA WorkersKeepFilled ==
  ASSUME TypeInv, PackagesFilled, Workers
  PROVE  PackagesFilled'
<1>1. ASSUME NEW n \in Contents, CopyTorrent(n) PROVE PackagesFilled'
  BY <1>1, PackagesStayFilled DEF CopyTorrent, disk, history
<1>2. ASSUME NEW n \in Contents, NEW i \in Pieces, PutChunk(n, i) PROVE PackagesFilled'
  <2>1. /\ package' = Put(package, n, {i} \union IF n \in DOMAIN package THEN package[n] ELSE {})
        /\ UNCHANGED <<rows, new, pc, emptied>>
    BY <1>2 DEF PutChunk, history
  <2>2. \A v : Filled(v) => Filled(v)'
    BY <2>1 DEF Filled, Put
  <2> QED
    BY <2>1, <2>2 DEF PackagesFilled
<1> QED
  BY <1>1, <1>2 DEF Workers

LEMMA InitPackagesFilled == Init => PackagesFilled
<1> SUFFICES ASSUME Init PROVE PackagesFilled
  OBVIOUS
<1>1. DOMAIN rows = {}
  BY EmptyHasNoDomain DEF Init, NoDomain
<1> QED
  BY <1>1 DEF Init, PackagesFilled

LEMMA StepPackagesFilled == TypeInv /\ PackagesFilled /\ [Next]_vars => PackagesFilled'
<1> SUFFICES ASSUME TypeInv, PackagesFilled, [Next]_vars PROVE PackagesFilled'
  OBVIOUS
<1>1. CASE Start \/ Started \/ Quit \/ Exited \/ Crash
  BY <1>1, PackagesStayFilled DEF Start, Started, Quit, Exited, Crash, disk, history
<1>2. CASE Create \/ Receive \/ Insert \/ Register
  BY <1>2, MainKeepsFilled
<1>3. CASE Workers
  BY <1>3, WorkersKeepFilled
<1>4. ASSUME NEW c \in copies, Destroy(c) PROVE PackagesFilled'
  BY <1>4, DestroyIs, PackagesStayFilled DEF TypeInv
<1>5. CASE UNCHANGED vars
  BY <1>5, PackagesStayFilled DEF vars, disk, memory, history
<1> QED
  BY <1>1, <1>2, <1>3, <1>4, <1>5 DEF Next, NextNoCrash, Destructors

\* The rows of a created torrent claim a chunk that its package lacks only after
\* a later -tc has emptied the package and not filled it again; wherever the
\* first creation was cut off they do not, whatever is received under the same
\* uid and whatever stale copies write (torrent.cpp, create and ~Torrent).
THEOREM RowsHaveDataTheorem == Spec => []RowsHaveData
<1>1. TypeInv /\ PackagesFilled => RowsHaveData
  <2> SUFFICES ASSUME TypeInv, PackagesFilled, NEW u \in DOMAIN rows, u # 0,
                      NEW i \in DOMAIN rows[u].flags
               PROVE  Has(u, i) \/ u \in emptied
    BY DEF RowsHaveData
  <2>1. i \in Pieces
    BY RowIs DEF TypeInv
  <2> QED
    BY <2>1 DEF PackagesFilled, Filled, Has
<1> QED
  BY <1>1, InitTypeInv, StepTypeInv, InitPackagesFilled, StepPackagesFilled, PTL DEF Spec
-----------------------------------------------------------------------------
(* The torrents created here are durable. *)

\* No torrent that is created here is received as well.
ReceivesOthers == Own \intersect Received = {}

LEMMA ZeroIsNone == 0 \notin Contents /\ 0 \notin Own /\ 0 \notin Received
BY ContentsAssumption, OwnAssumption

LEMMA AllChunksAreTrue == AllTrue(AllChunks(TRUE))
BY DEF AllTrue, AllChunks

\* The chunks of rows that have them all, and nothing but what is there.
LEMMA RowChunksAreTrue ==
  ASSUME TypeOK, NEW u \in DOMAIN rows, \A i \in DOMAIN rows[u].flags : rows[u].flags[i]
  PROVE  AllTrue(RowChunks(u))
BY DEF AllTrue, RowChunks

LEMMA FlagsAllTrue ==
  ASSUME NEW f \in Seq(BOOLEAN), Len(f) = NumPieces, \A i \in DOMAIN f : f[i]
  PROVE  f = [i \in Pieces |-> TRUE]
<1>1. DOMAIN f = Pieces /\ f = [i \in DOMAIN f |-> f[i]] /\ \A i \in DOMAIN f : f[i] \in BOOLEAN
  BY LenProperties DEF Pieces
<1>2. \A i \in Pieces : f[i] = TRUE
  BY <1>1
<1> QED
  BY <1>1, <1>2

LEMMA ConcatAllTrue ==
  ASSUME NEW c \in Seq(Chunk), NEW d \in Seq(Chunk), AllTrue(c), AllTrue(d)
  PROVE  AllTrue(c \o d)
<1>1. /\ Len(c) \in Nat /\ DOMAIN c = 1..Len(c)
      /\ Len(d) \in Nat /\ DOMAIN d = 1..Len(d)
  BY LenProperties
<1>2. /\ c \o d \in Seq(Chunk) /\ Len(c \o d) = Len(c) + Len(d)
      /\ \A p \in 1..(Len(c) + Len(d)) :
           (c \o d)[p] = IF p <= Len(c) THEN c[p] ELSE d[p - Len(c)]
  BY ConcatProperties
<1>3. DOMAIN (c \o d) = 1..(Len(c) + Len(d))
  BY <1>2, LenProperties
<1>4. ASSUME NEW p \in 1..(Len(c) + Len(d)) PROVE (c \o d)[p].exists
  <2>1. CASE p <= Len(c)
    <3>1. p \in DOMAIN c /\ (c \o d)[p] = c[p]
      BY <1>1, <1>2, <2>1
    <3> QED
      BY <3>1 DEF AllTrue
  <2>2. CASE ~(p <= Len(c))
    <3>1. p - Len(c) \in DOMAIN d /\ (c \o d)[p] = d[p - Len(c)]
      BY <1>1, <1>2, <2>2
    <3> QED
      BY <3>1 DEF AllTrue
  <2> QED
    BY <2>1, <2>2
<1> QED
  BY <1>3, <1>4 DEF AllTrue

LEMMA InitOwnInv == Init => OwnInv
<1> SUFFICES ASSUME Init PROVE OwnInv
  OBVIOUS
<1>1. DOMAIN rows = {} /\ DOMAIN torrents = {} /\ copies = {} /\ pc = "down" /\ created = {}
  BY EmptyHasNoDomain DEF Init, NoDomain
<1> QED
  BY <1>1 DEF OwnInv, OwnRows, OwnTorrents, OwnCopies, OwnNew, OwnCreated, CreatedKept

LEMMA StartKeepsOwn ==
  ASSUME ReceivesOthers, TypeInv, OwnInv, Start
  PROVE  OwnInv'
<1>1. /\ UNCHANGED <<rows, package, new, created, crashed, emptied>> /\ pc' = "starting"
      /\ DOMAIN torrents' = {rows[u].name : u \in DOMAIN rows}
      /\ \A n \in DOMAIN torrents' :
           torrents'[n] = [uid |-> LastRow(n), chunks |-> RowChunks(LastRow(n))]
      /\ copies' = {[dbuid |-> 0, chunks |-> RowChunks(u)] : u \in DOMAIN rows}
  BY DEF Start, disk
<1>2. ASSUME NEW n \in DOMAIN torrents'
      PROVE  IF n \in Own
               THEN /\ n \in DOMAIN rows /\ rows[n].name = n
                    /\ torrents'[n] = [uid |-> n, chunks |-> RowChunks(n)]
               ELSE n \in Received /\ torrents'[n].uid = 0
  <2>1. PICK v \in DOMAIN rows : v = LastRow(n) /\ rows[v].name = n
    BY <1>1, LastRowIs DEF TypeInv
  <2>2. IF v = 0 THEN n \in Received ELSE v \in Own /\ v = n
    BY <2>1 DEF OwnInv, OwnRows
  <2>3. torrents'[n] = [uid |-> v, chunks |-> RowChunks(v)]
    BY <1>1, <2>1
  <2> QED
    BY <2>1, <2>2, <2>3 DEF ReceivesOthers
<1>3. OwnTorrents'
  <2>1. \A u \in DOMAIN rows : u # 0 => AllTrue(RowChunks(u))
    BY RowChunksAreTrue DEF TypeInv, OwnInv, OwnRows
  <2> QED
    BY <1>2, <2>1, ZeroIsNone DEF OwnTorrents
<1>4. OwnCopies'
  BY <1>1, ZeroIsNone DEF OwnCopies
<1>5. CreatedKept'
  <2> SUFFICES ASSUME NEW u \in created
               PROVE  /\ u \in DOMAIN rows
                      /\ rows[u] = [name |-> u, flags |-> [i \in Pieces |-> TRUE]]
                      /\ u \in DOMAIN torrents'
                      /\ torrents'[u] = [uid |-> u, chunks |-> AllChunks(TRUE)]
    BY <1>1 DEF CreatedKept
  <2>1. /\ u \in DOMAIN rows /\ u \in Own
        /\ rows[u] = [name |-> u, flags |-> [i \in Pieces |-> TRUE]]
    BY DEF OwnInv, OwnCreated, CreatedKept
  <2>2. u \in DOMAIN torrents'
    BY <1>1, <2>1
  <2>3. RowChunks(u) = AllChunks(TRUE)
    BY <2>1 DEF RowChunks, AllChunks
  <2> QED
    BY <1>2, <2>1, <2>2, <2>3
<1> QED
  BY <1>1, <1>3, <1>4, <1>5 DEF OwnInv, OwnRows, OwnNew, OwnCreated
LEMMA DestroyKeepsOwn ==
  ASSUME ReceivesOthers, TypeInv, OwnInv, NEW c \in copies, Destroy(c)
  PROVE  OwnInv'
<1>1. /\ DOMAIN rows' = DOMAIN rows /\ copies' \subseteq copies
      /\ UNCHANGED <<package, torrents, new, pc, created, crashed, starts, emptied>>
      /\ \A u \in DOMAIN rows :
           /\ rows'[u] = [name |-> rows[u].name, flags |-> rows'[u].flags]
           /\ rows'[u].flags \in Seq(BOOLEAN)
           /\ Len(rows'[u].flags) = Len(rows[u].flags)
  BY DestroyIs DEF TypeInv
<1>2. ASSUME NEW u \in DOMAIN rows, u # 0
      PROVE  \A i \in DOMAIN rows'[u].flags : rows'[u].flags[i]
  <2>1. u \in Own /\ \A i \in DOMAIN rows[u].flags : rows[u].flags[i]
    BY <1>2 DEF OwnInv, OwnRows
  <2>2. rows[u].flags \in Seq(BOOLEAN) /\ c.chunks \in Seq(Chunk)
    BY RowIs DEF TypeInv, TypeOK
  <2>3. CASE u # c.dbuid
    BY <2>1, <2>3, DestroyIs DEF TypeInv
  <2>4. CASE u = c.dbuid
    <3>1. rows'[u].flags = Updated(rows[u].flags, c.chunks)
      BY <2>4, DestroyIs DEF TypeInv
    <3>2. PICK f \in Seq(BOOLEAN), d \in Seq(Chunk) : f = rows[u].flags /\ d = c.chunks
      BY <2>2
    <3>3. \A p \in DOMAIN d : d[p].exists
      BY <2>1, <2>4, <3>2 DEF OwnInv, OwnCopies, AllTrue
    <3>4. DOMAIN Updated(f, d) = DOMAIN f
      BY DEF Updated
    <3>5. PICK g : g = Updated(f, d)
      OBVIOUS
    <3>6. /\ g \in Seq(BOOLEAN) /\ DOMAIN g = DOMAIN f
          /\ \A i \in DOMAIN f : g[i] = f[i] \/ \E p \in DOMAIN d : g[i] = d[p].exists
      BY <3>4, <3>5, UpdatedIs
    <3>7. \A i \in DOMAIN f : f[i]
      BY <2>1, <3>2
    <3>8. ASSUME NEW i \in DOMAIN g PROVE g[i]
      <4>1. g[i] = f[i] \/ \E p \in DOMAIN d : g[i] = d[p].exists
        BY <3>6
      <4>2. f[i] /\ \A p \in DOMAIN d : d[p].exists
        BY <3>3, <3>6, <3>7
      <4> QED
        BY <4>1, <4>2
    <3> QED
      BY <3>1, <3>2, <3>5, <3>8
  <2> QED
    BY <2>3, <2>4
<1>3. OwnRows'
  BY <1>1, <1>2 DEF OwnInv, OwnRows
<1>4. CreatedKept'
  <2> SUFFICES ASSUME NEW u \in created
               PROVE  /\ u \in DOMAIN rows
                      /\ rows'[u] = [name |-> u, flags |-> [i \in Pieces |-> TRUE]]
    BY <1>1 DEF CreatedKept, OwnInv
  <2>1. u \in DOMAIN rows /\ u # 0 /\ rows[u] = [name |-> u, flags |-> [i \in Pieces |-> TRUE]]
    BY ZeroIsNone DEF OwnInv, OwnCreated, CreatedKept
  <2>2. PICK f \in Seq(BOOLEAN) : f = rows'[u].flags /\ rows'[u] = [name |-> u, flags |-> f]
    BY <1>1, <2>1
  <2>3. Len(rows[u].flags) = NumPieces
    <3>1. PICK g \in Seq(BOOLEAN) : g = rows[u].flags /\ DOMAIN g = 1..NumPieces
      BY <2>1, RowIs DEF TypeInv, Pieces
    <3> QED
      BY <3>1, LenProperties, PiecesAssumption
  <2>4. Len(f) = NumPieces /\ \A i \in DOMAIN f : f[i]
    BY <1>1, <1>2, <2>1, <2>2, <2>3
  <2> QED
    BY <2>1, <2>2, <2>4, FlagsAllTrue
<1>5. OwnTorrents' /\ OwnCopies' /\ OwnCreated'
  BY <1>1 DEF OwnInv, OwnTorrents, OwnCopies, OwnCreated
<1>6. OwnNew'
  BY <1>1 DEF OwnInv, OwnNew
<1> QED
  BY <1>3, <1>4, <1>5, <1>6 DEF OwnInv

LEMMA EndsKeepOwn ==
  ASSUME ReceivesOthers, TypeInv, OwnInv, Started \/ Quit \/ Exited \/ Crash
  PROVE  OwnInv'
<1>1. UNCHANGED <<rows, package, created, emptied>>
  BY DEF Started, Quit, Exited, Crash, disk, history
<1>2. OwnRows' /\ OwnCreated'
  BY <1>1 DEF OwnInv, OwnRows, OwnCreated
<1>3. OwnTorrents'
  BY EmptyHasNoDomain DEF NoDomain, OwnInv, OwnTorrents, Started, Quit, Exited, Crash
<1>4. OwnCopies'
  BY ZeroIsNone DEF OwnInv, OwnCopies, Started, Quit, Exited, Crash, Copy
<1>5. OwnNew'
  BY DEF OwnNew, Started, Quit, Exited, Crash
<1>6. CreatedKept'
  BY <1>1 DEF OwnInv, CreatedKept, Started, Quit, Exited, Crash
<1> QED
  BY <1>2, <1>3, <1>4, <1>5, <1>6 DEF OwnInv

LEMMA BeginKeepsOwn ==
  ASSUME ReceivesOthers, TypeInv, OwnInv,
         \/ \E u \in Own : BeginPackage(u)
         \/ FinishPackage \/ FailPackage
         \/ \E u \in Received : ReceiveTorrent(u)
  PROVE  OwnInv'
<1>1. /\ UNCHANGED <<rows, torrents, copies, created>>
      /\ pc \in {"idle", "package"} /\ pc' \in {"row", "package", "idle"}
  BY DEF BeginPackage, FinishPackage, FailPackage, ReceiveTorrent, disk, history
<1>2. OwnTorrents' /\ OwnCopies' /\ OwnCreated' /\ CreatedKept'
  BY <1>1 DEF OwnInv, OwnTorrents, OwnCopies, OwnCreated, CreatedKept
<1>3. ASSUME NEW u \in Own, BeginPackage(u) PROVE OwnRows' /\ OwnNew'
  <2>1. /\ package' = Put(package, u, {})
        /\ new' = [uid |-> u, dbuid |-> u, chunks |-> AllChunks(TRUE)]
        /\ pc' = "package"
        /\ emptied' = emptied \union ({u} \intersect DOMAIN rows)
    BY <1>3 DEF BeginPackage
  <2>2. OwnRows'
    <3>1. ASSUME NEW v \in DOMAIN rows, v # u, v # 0
          PROVE  package'[v] = package[v] /\ v \in DOMAIN package' /\ v \in Own
      BY <2>1, <3>1 DEF OwnInv, OwnRows, Put
    <3>2. u \in DOMAIN package' /\ (u \in DOMAIN rows => u \in emptied')
      BY <2>1 DEF Put
    <3> QED
      BY <1>1, <2>1, <3>1, <3>2 DEF OwnInv, OwnRows
  <2>3. OwnNew'
    BY <2>1, ZeroIsNone DEF OwnNew
  <2> QED
    BY <2>2, <2>3
<1>4. CASE FinishPackage
  <2>1. /\ package' = [package EXCEPT ![new.uid] = Pieces]
        /\ emptied' = emptied \ {new.uid}
        /\ pc = "package" /\ pc' = "row" /\ new' = new
    BY <1>4 DEF FinishPackage
  <2>2. new.uid \in DOMAIN package
    BY <2>1 DEF TypeInv, NewFits
  <2>3. OwnRows'
    BY <1>1, <2>1, <2>2 DEF OwnInv, OwnRows
  <2>4. OwnNew'
    BY <1>1, <2>1, <2>2 DEF OwnInv, OwnNew
  <2> QED
    BY <1>2, <2>3, <2>4 DEF OwnInv
<1>5. ASSUME NEW u \in Received, ReceiveTorrent(u) PROVE OwnRows' /\ OwnNew'
  <2>1. /\ package' = package /\ emptied' = emptied /\ pc' = "row"
        /\ new' = [uid |-> u, dbuid |-> 0, chunks |-> AllChunks(FALSE)]
    BY <1>5 DEF ReceiveTorrent, disk, history
  <2> QED
    BY <1>1, <2>1 DEF OwnInv, OwnRows, OwnNew
<1>6. CASE FailPackage
  <2>1. package' = package /\ emptied' = emptied /\ pc' = "idle"
    BY <1>6 DEF FailPackage, disk, history
  <2> QED
    BY <1>1, <1>2, <2>1 DEF OwnInv, OwnRows, OwnNew
<1> QED
  BY <1>2, <1>3, <1>4, <1>5, <1>6 DEF OwnInv

LEMMA InsertKeepsOwn ==
  ASSUME ReceivesOthers, TypeInv, OwnInv, Insert
  PROVE  OwnInv'
<1>1. CASE InsertRow
  <2> DEFINE d == new.dbuid
  <2>1. /\ d \notin DOMAIN rows /\ pc = "row" /\ pc' = "chunks"
        /\ UNCHANGED <<package, torrents, copies, new, created, emptied>>
    BY <1>1 DEF InsertRow, history
  <2>2. PICK e \in Seq(BOOLEAN) : e = << >> /\ Len(e) = 0
    BY EmptySeq
  <2>3. rows' = Put(rows, d, [name |-> new.uid, flags |-> e])
    BY <1>1, <2>2 DEF InsertRow
  <2>4. /\ DOMAIN rows' = DOMAIN rows \union {d}
        /\ rows'[d] = [name |-> new.uid, flags |-> e]
        /\ \A u \in DOMAIN rows : rows'[u] = rows[u]
    BY <2>1, <2>3 DEF Put
  <2>5. DOMAIN e = {}
    BY <2>2, LenProperties
  <2>6. IF d = 0 THEN new.uid \in Received
        ELSE new.uid \in Own /\ d = new.uid /\ d \in DOMAIN package /\ package[d] = Pieces
    BY <2>1 DEF OwnInv, OwnNew
  <2>7. OwnRows'
    <3>1. \A u \in DOMAIN rows : OwnRows =>
            IF u = 0 THEN rows'[u].name \in Received
            ELSE /\ u \in Own
                 /\ rows'[u].name = u
                 /\ \A i \in DOMAIN rows'[u].flags : rows'[u].flags[i]
                 /\ u \in DOMAIN package /\ (package[u] = Pieces \/ u \in emptied)
      BY <2>4 DEF OwnRows
    <3>2. IF d = 0 THEN rows'[d].name \in Received
          ELSE /\ d \in Own
               /\ rows'[d].name = d
               /\ \A i \in DOMAIN rows'[d].flags : rows'[d].flags[i]
               /\ d \in DOMAIN package /\ (package[d] = Pieces \/ d \in emptied)
      BY <2>4, <2>5, <2>6
    <3> QED
      BY <2>1, <2>4, <3>1, <3>2 DEF OwnInv, OwnRows
  <2>8. OwnNew'
    BY <2>1 DEF OwnInv, OwnNew
  <2>9. CreatedKept'
    BY <2>1, <2>4 DEF OwnInv, CreatedKept
  <2> QED
    BY <2>1, <2>7, <2>8, <2>9 DEF OwnInv, OwnTorrents, OwnCopies, OwnCreated
<1>2. CASE InsertChunk
  <2> DEFINE d == new.dbuid
             f == rows[d].flags
             g == rows'[d].flags
  <2>1. /\ d \in DOMAIN rows /\ Len(f) + 1 \in 1..NumPieces
        /\ DOMAIN rows' = DOMAIN rows
        /\ \A u \in DOMAIN rows : rows'[u].name = rows[u].name
        /\ \A u \in DOMAIN rows \ {d} : rows'[u] = rows[u]
        /\ g \in Seq(BOOLEAN) /\ Len(g) = Len(f) + 1
        /\ \A i \in 1..Len(f) : g[i] = f[i]
        /\ g[Len(f) + 1] = new.chunks[Len(f) + 1].exists
        /\ pc = "chunks"
        /\ pc' = IF Len(f) + 1 < NumPieces THEN "chunks" ELSE "register"
        /\ UNCHANGED <<package, torrents, copies, new, created, emptied>>
    BY <1>2, InsertChunkIs
  <2>2. Len(f) \in Nat /\ DOMAIN f = 1..Len(f) /\ DOMAIN g = 1..(Len(f) + 1)
    BY <2>1, RowIs, LenProperties DEF TypeInv
  <2>3. d # 0 => \A i \in DOMAIN g : g[i]
    <3> SUFFICES ASSUME d # 0 PROVE \A i \in DOMAIN g : g[i]
      OBVIOUS
    <3>1. new.chunks = AllChunks(TRUE) /\ \A i \in DOMAIN f : f[i]
      BY <2>1 DEF OwnInv, OwnNew, OwnRows
    <3>2. new.chunks[Len(f) + 1].exists
      BY <2>1, <3>1 DEF AllChunks, Pieces
    <3>3. ASSUME NEW i \in DOMAIN g PROVE g[i]
      <4>1. CASE i \in 1..Len(f)
        BY <2>1, <2>2, <3>1, <4>1
      <4>2. CASE i = Len(f) + 1
        BY <2>1, <3>2, <4>2
      <4> QED
        BY <2>2, <4>1, <4>2
    <3> QED
      BY <3>3
  <2>4. OwnRows'
    BY <2>1, <2>3 DEF OwnInv, OwnRows
  <2>5. d \notin created
    <3> SUFFICES ASSUME NEW e \in created, e = d PROVE FALSE
      OBVIOUS
    <3>1. rows[e] = [name |-> e, flags |-> [i \in Pieces |-> TRUE]]
      BY DEF OwnInv, CreatedKept
    <3>2. DOMAIN rows[e].flags = Pieces
      BY <3>1
    <3> QED
      BY <2>1, <2>2, <3>2, PiecesAssumption DEF Pieces
  <2>6. CreatedKept'
    BY <2>1, <2>5 DEF OwnInv, CreatedKept
  <2>7. OwnNew'
    <3>1. pc' = "register" => Len(g) = NumPieces
      BY <2>1, <2>2, PiecesAssumption
    <3>2. d # 0 => d = new.uid
      BY <2>1 DEF OwnInv, OwnNew
    <3> QED
      BY <2>1, <3>1, <3>2 DEF OwnInv, OwnNew
  <2> QED
    BY <2>1, <2>4, <2>6, <2>7 DEF OwnInv, OwnTorrents, OwnCopies, OwnCreated
<1>3. CASE InsertFails
  <2>1. UNCHANGED <<rows, package, torrents, created, emptied>> /\ pc \in {"row", "chunks"}
    BY <1>3 DEF InsertFails, disk, history
  <2>2. OwnRows' /\ OwnTorrents' /\ OwnCreated'
    BY <2>1 DEF OwnInv, OwnRows, OwnTorrents, OwnCreated
  <2>3. pc' # "down" /\ CreatedKept'
    BY <1>3, <2>1 DEF InsertFails, OwnInv, CreatedKept
  <2>4. CASE new.dbuid = 0
    <3>1. pc' = "register" /\ UNCHANGED <<copies, new>>
      BY <1>3, <2>4 DEF InsertFails
    <3>2. OwnNew' /\ OwnCopies'
      BY <2>1, <2>4, <3>1 DEF OwnInv, OwnNew, OwnCopies
    <3> QED
      BY <2>2, <2>3, <3>2 DEF OwnInv
  <2>5. CASE new.dbuid # 0
    <3>1. pc' = "idle" /\ copies' = copies \union {Copy(new.dbuid, new)}
      BY <1>3, <2>5 DEF InsertFails
    <3>2. AllTrue(new.chunks)
      BY <2>1, <2>5, AllChunksAreTrue DEF OwnInv, OwnNew
    <3>3. OwnNew' /\ OwnCopies'
      BY <3>1, <3>2, CopyIs DEF OwnInv, OwnNew, OwnCopies
    <3> QED
      BY <2>2, <2>3, <3>3 DEF OwnInv
  <2> QED
    BY <2>4, <2>5
<1> QED
  BY <1>1, <1>2, <1>3 DEF Insert

LEMMA RegisterKeepsOwn ==
  ASSUME ReceivesOthers, TypeInv, OwnInv, Register
  PROVE  OwnInv'
<1>1. UNCHANGED <<rows, package, emptied>> /\ pc = "register" /\ pc' = "idle"
  BY DEF Register, RegisterCreated, OpenReceived, disk, history
<1>2. OwnRows' /\ OwnNew'
  BY <1>1 DEF OwnInv, OwnRows, OwnNew
<1>3. CASE RegisterCreated
  <2> DEFINE u == new.uid
  <2>1. /\ new.dbuid # 0
        /\ torrents' = Put(torrents, u, [uid |-> u, chunks |-> new.chunks])
        /\ copies' = copies \union {Copy(new.dbuid, new)}
        /\ created' = created \union {u}
    BY <1>3 DEF RegisterCreated
  <2>2. /\ u \in Own /\ new.chunks = AllChunks(TRUE)
        /\ u \in DOMAIN rows /\ Len(rows[u].flags) = NumPieces
    BY <1>1, <2>1 DEF OwnInv, OwnNew
  <2>3. /\ DOMAIN torrents' = DOMAIN torrents \union {u}
        /\ torrents'[u] = [uid |-> u, chunks |-> AllChunks(TRUE)]
        /\ \A n \in DOMAIN torrents : n # u => torrents'[n] = torrents[n]
    BY <2>1, <2>2 DEF Put
  <2>4. OwnTorrents'
    <3>1. torrents'[u].uid = u /\ torrents'[u].chunks = AllChunks(TRUE)
      BY <2>3
    <3>2. AllTrue(torrents'[u].chunks)
      BY <3>1, AllChunksAreTrue
    <3>3. ASSUME NEW n \in DOMAIN torrents'
          PROVE  IF n \in Own THEN torrents'[n].uid = n /\ AllTrue(torrents'[n].chunks)
                 ELSE n \in Received /\ torrents'[n].uid = 0
      <4>1. CASE n = u
        BY <2>2, <3>1, <3>2, <4>1
      <4>2. CASE n # u
        BY <2>3, <4>2 DEF OwnInv, OwnTorrents
      <4> QED
        BY <4>1, <4>2
    <3> QED
      BY <3>3 DEF OwnTorrents
  <2>5. OwnCopies'
    BY <2>1, <2>2, CopyIs, AllChunksAreTrue DEF OwnInv, OwnCopies
  <2>6. rows[u] = [name |-> u, flags |-> [i \in Pieces |-> TRUE]]
    <3>1. u # 0 /\ rows[u].name = u /\ \A i \in DOMAIN rows[u].flags : rows[u].flags[i]
      BY <2>2, ZeroIsNone DEF OwnInv, OwnRows
    <3>2. PICK f \in Seq(BOOLEAN) : f = rows[u].flags /\ rows[u] = [name |-> u, flags |-> f]
      BY <2>2, <3>1, RowIs DEF TypeInv
    <3> QED
      BY <2>2, <3>1, <3>2, FlagsAllTrue
  <2>7. CreatedKept'
    <3> SUFFICES ASSUME NEW v \in created'
                 PROVE  /\ v \in DOMAIN rows
                        /\ rows[v] = [name |-> v, flags |-> [i \in Pieces |-> TRUE]]
                        /\ v \in DOMAIN torrents'
                        /\ torrents'[v] = [uid |-> v, chunks |-> AllChunks(TRUE)]
      BY <1>1 DEF CreatedKept
    <3>1. CASE v = u
      BY <2>2, <2>3, <2>6, <3>1
    <3>2. CASE v # u
      <4>1. v \in created
        BY <2>1, <3>2
      <4> QED
        BY <1>1, <2>3, <3>2, <4>1 DEF OwnInv, CreatedKept
    <3> QED
      BY <3>1, <3>2
  <2>8. OwnCreated'
    BY <2>1, <2>2 DEF OwnInv, OwnCreated
  <2> QED
    BY <1>2, <2>4, <2>5, <2>7, <2>8 DEF OwnInv
<1>4. CASE OpenReceived
  <2> DEFINE t == Opened(new.uid, new.chunks)
  <2>1. new.dbuid = 0 /\ new.uid \in Received /\ new.uid \notin Own /\ new.uid # 0
    BY <1>1, <1>4, ZeroIsNone DEF OpenReceived, OwnInv, OwnNew, ReceivesOthers
  <2>2. new.uid \notin DOMAIN rows
    BY <2>1 DEF OwnInv, OwnRows
  <2>3. torrents' = torrents /\ copies' = copies \union {t} /\ created' = created
    BY <1>4, <2>2 DEF OpenReceived, history
  <2>4. t.dbuid = new.uid
    BY DEF Opened
  <2> HIDE DEF t
  <2>5. OwnCopies'
    BY <2>1, <2>3, <2>4 DEF OwnInv, OwnCopies
  <2>6. CreatedKept' /\ OwnTorrents' /\ OwnCreated'
    BY <1>1, <2>3 DEF OwnInv, CreatedKept, OwnTorrents, OwnCreated
  <2> QED
    BY <1>2, <2>5, <2>6 DEF OwnInv
<1> QED
  BY <1>3, <1>4 DEF Register

LEMMA WorkersKeepOwn ==
  ASSUME ReceivesOthers, TypeInv, OwnInv, Workers
  PROVE  OwnInv'
<1>1. ASSUME NEW n \in Contents, CopyTorrent(n) PROVE OwnInv'
  <2>1. /\ UNCHANGED <<rows, package, torrents, new, pc, created, emptied>> /\ n \in DOMAIN torrents
        /\ \/ copies' = copies \union {Copy(0, torrents[n])}
           \/ /\ torrents[n].uid # 0
              /\ copies' = copies \union {Opened(torrents[n].uid, torrents[n].chunks)}
    BY <1>1 DEF CopyTorrent, disk, history
  <2>2. OwnCopies'
    <3>1. CASE copies' = copies \union {Copy(0, torrents[n])}
      BY <3>1, CopyIs, ZeroIsNone DEF OwnInv, OwnCopies
    <3>2. CASE /\ torrents[n].uid # 0
               /\ copies' = copies \union {Opened(torrents[n].uid, torrents[n].chunks)}
      <4> DEFINE t == Opened(n, torrents[n].chunks)
      <4>1. torrents[n].uid = n /\ n # 0 /\ AllTrue(torrents[n].chunks)
        BY <2>1, <3>2, ZeroIsNone DEF OwnInv, OwnTorrents
      <4>2. torrents[n].chunks \in Seq(Chunk)
        BY <2>1, TorrentIs DEF TypeInv
      <4>3. AllTrue(t.chunks)
        <5>1. CASE n \in DOMAIN rows
          <6>1. AllTrue(RowChunks(n))
            BY <4>1, <5>1, RowChunksAreTrue DEF TypeInv, OwnInv, OwnRows
          <6>2. PICK r \in Seq(Chunk), c \in Seq(Chunk) : r = RowChunks(n) /\ c = torrents[n].chunks
            BY <4>2, <5>1, RowChunksAre DEF TypeInv
          <6>3. t.chunks = c \o r
            BY <5>1, <6>2 DEF Opened
          <6> QED
            BY <4>1, <6>1, <6>2, <6>3, ConcatAllTrue
        <5>2. CASE n \notin DOMAIN rows
          BY <4>1, <5>2 DEF Opened
        <5> QED
          BY <5>1, <5>2
      <4>4. copies' = copies \union {t}
        BY <3>2, <4>1
      <4> HIDE DEF t
      <4> QED
        BY <4>3, <4>4 DEF OwnInv, OwnCopies
    <3> QED
      BY <2>1, <3>1, <3>2
  <2> QED
    BY <2>1, <2>2 DEF OwnInv, OwnRows, OwnTorrents, OwnNew, OwnCreated, CreatedKept
<1>2. ASSUME NEW n \in Contents, NEW i \in Pieces, PutChunk(n, i) PROVE OwnInv'
  <2>1. /\ n \in DOMAIN torrents /\ i \in DOMAIN torrents[n].chunks
        /\ ~torrents[n].chunks[i].exists
        /\ DOMAIN torrents' = DOMAIN torrents
        /\ \A m \in DOMAIN torrents \ {n} : torrents'[m] = torrents[m]
        /\ torrents'[n] = [uid |-> torrents[n].uid, chunks |-> torrents'[n].chunks]
        /\ package' = Put(package, n, {i} \union
                             IF n \in DOMAIN package THEN package[n] ELSE {})
        /\ copies' = copies \union {Copy(0, torrents'[n])}
        /\ UNCHANGED <<rows, new, pc, created, emptied>>
    BY <1>2, PutChunkIs DEF TypeInv
  <2>2. n \notin Own /\ n \in Received /\ torrents[n].uid = 0
    BY <2>1 DEF OwnInv, OwnTorrents, AllTrue
  <2>3. /\ DOMAIN package' = DOMAIN package \union {n}
        /\ \A m \in DOMAIN package : m # n => package'[m] = package[m]
    BY <2>1 DEF Put
  <2>4. OwnTorrents'
    BY <2>1, <2>2 DEF OwnInv, OwnTorrents
  <2>5. OwnCopies'
    <3>1. PICK t : t = Copy(0, torrents'[n])
      OBVIOUS
    <3>2. t.dbuid = 0 /\ copies' = copies \union {t}
      BY <2>1, <3>1, CopyIs
    <3> QED
      BY <3>2, ZeroIsNone DEF OwnInv, OwnCopies
  <2>6. OwnRows'
    <3> SUFFICES ASSUME NEW u \in DOMAIN rows
                 PROVE  IF u = 0 THEN rows[u].name \in Received
                        ELSE /\ u \in Own
                             /\ rows[u].name = u
                             /\ \A j \in DOMAIN rows[u].flags : rows[u].flags[j]
                             /\ u \in DOMAIN package' /\ (package'[u] = Pieces \/ u \in emptied)
      BY <2>1 DEF OwnRows
    <3>1. u # 0 => u # n /\ u \in DOMAIN package /\ package'[u] = package[u]
      BY <2>2, <2>3 DEF OwnInv, OwnRows
    <3> QED
      BY <2>3, <3>1 DEF OwnInv, OwnRows
  <2>7. OwnNew'
    BY <2>1, <2>2, <2>3 DEF OwnInv, OwnNew
  <2>8. CreatedKept' /\ OwnCreated'
    BY <2>1, <2>2 DEF OwnInv, CreatedKept, OwnCreated
  <2> QED
    BY <2>4, <2>5, <2>6, <2>7, <2>8 DEF OwnInv
<1> QED
  BY <1>1, <1>2 DEF Workers

LEMMA StepOwnInv ==
  ASSUME ReceivesOthers
  PROVE  TypeInv /\ OwnInv /\ [Next]_vars => OwnInv'
<1> SUFFICES ASSUME TypeInv, OwnInv, [Next]_vars PROVE OwnInv'
  OBVIOUS
<1>1. CASE Start
  BY <1>1, StartKeepsOwn
<1>2. CASE Started \/ Quit \/ Exited \/ Crash
  BY <1>2, EndsKeepOwn
<1>3. CASE Create \/ Receive
  BY <1>3, BeginKeepsOwn DEF Create, Receive
<1>4. CASE Insert
  BY <1>4, InsertKeepsOwn
<1>5. CASE Register
  BY <1>5, RegisterKeepsOwn
<1>6. CASE Workers
  BY <1>6, WorkersKeepOwn
<1>7. CASE Destructors
  BY <1>7, DestroyKeepsOwn DEF Destructors
<1>8. CASE UNCHANGED vars
  BY <1>8 DEF vars, disk, memory, history, OwnInv, OwnRows, OwnTorrents, OwnCopies, OwnNew,
              OwnCreated, CreatedKept
<1> QED
  BY <1>1, <1>2, <1>3, <1>4, <1>5, <1>6, <1>7, <1>8 DEF Next, NextNoCrash

\* A torrent -tc has succeeded for keeps all its rows, is whole in every run of
\* the program, and has a package with every piece unless a later -tc has
\* emptied it and not filled it again, whatever crashes, fails or is written by
\* stale copies, as long as the node does not ask for it as well (torrent.cpp,
\* create and ~Torrent).
THEOREM CreatedIsDurableTheorem ==
  ASSUME Own \intersect Received = {}
  PROVE  Spec => []CreatedIsDurable
<1>1. ReceivesOthers
  BY DEF ReceivesOthers
<1>2. TypeInv /\ OwnInv => CreatedIsDurable
  <2> SUFFICES ASSUME OwnInv, NEW u \in created
               PROVE  u \in emptied \/ \A i \in Pieces : Has(u, i)
    BY DEF CreatedIsDurable, CreatedKept, OwnInv
  <2>1. u \in DOMAIN rows /\ u # 0
    BY ZeroIsNone DEF OwnInv, OwnCreated, CreatedKept
  <2> QED
    BY <2>1 DEF OwnInv, OwnRows, Has
<1>3. TypeInv /\ OwnInv /\ [Next]_vars => OwnInv'
  BY <1>1, StepOwnInv
<1> QED
  BY <1>2, <1>3, InitTypeInv, StepTypeInv, InitOwnInv, PTL DEF Spec

-----------------------------------------------------------------------------
(* The progress of a received torrent is recorded. *)

\* A destructor with one chunk per row writes the flag of each.
LEMMA UpdatedByRow ==
  ASSUME NEW f \in Seq(BOOLEAN), NEW c, DOMAIN c = DOMAIN f,
         \A p \in DOMAIN c : c[p].index = p
  PROVE  \A i \in DOMAIN f : Updated(f, c)[i] = c[i].exists
<1> SUFFICES ASSUME NEW i \in DOMAIN f PROVE Updated(f, c)[i] = c[i].exists
  OBVIOUS
<1> DEFINE at == {p \in DOMAIN c : c[p].index = i}
           last == CHOOSE p \in at : \A q \in at : q <= p
<1>1. i \in Nat
  BY LenProperties
<1>2. at = {i}
  OBVIOUS
<1>3. \E p \in at : \A q \in at : q <= p
  BY <1>1, <1>2
<1>4. last \in at
  BY <1>3
<1>5. Updated(f, c)[i] = c[last].exists
  BY <1>2 DEF Updated
<1> HIDE DEF last
<1> QED
  BY <1>2, <1>4, <1>5

\* A node that has only received, and has not crashed.
OnlyReceived == ~crashed /\ DOMAIN rows \subseteq {0}

\* Then a name in memory is that of the row of uid 0.
LEMMA RowZeroIs ==
  ASSUME ReceivesOthers, TypeInv, OwnInv, 0 \in DOMAIN rows
  PROVE  /\ rows[0].name \in Received /\ rows[0].name \notin Own
         /\ rows[0].flags \in Seq(BOOLEAN)
BY RowIs DEF TypeInv, OwnInv, OwnRows, ReceivesOthers

LEMMA StartKeepsProgress ==
  ASSUME ReceivesOthers, TypeInv, OwnInv, ProgressInv, Start
  PROVE  ProgressInv'
<1>1. /\ UNCHANGED <<rows, package, new, crashed>> /\ pc = "down" /\ pc' = "starting"
      /\ DOMAIN torrents' = {rows[u].name : u \in DOMAIN rows}
      /\ \A n \in DOMAIN torrents' :
           torrents'[n] = [uid |-> LastRow(n), chunks |-> RowChunks(LastRow(n))]
      /\ copies' = {[dbuid |-> 0, chunks |-> RowChunks(u)] : u \in DOMAIN rows}
  BY DEF Start, disk
<1>2. ASSUME OnlyReceived, DOMAIN rows = {} PROVE NothingReceived' /\ copies' = {}
  BY <1>1, <1>2 DEF OnlyReceived, ProgressInv, NothingReceived
<1>3. ASSUME OnlyReceived, DOMAIN rows = {0} PROVE OneReceived' /\ DOMAIN torrents' # {}
  <2> DEFINE n == rows[0].name
             f == rows[0].flags
  <2>1. DOMAIN torrents' = {n}
    BY <1>1, <1>3
  <2>2. FlagsMatch
    BY <1>1, <1>3 DEF ProgressInv, OnlyReceived, OneReceived
  <2>3. LastRow(n) = 0
    BY <1>3, LastRowIs DEF TypeInv
  <2>4. torrents'[n].chunks = RowChunks(0)
    <3>1. torrents'[n] = [uid |-> LastRow(n), chunks |-> RowChunks(LastRow(n))]
      BY <1>1, <2>1
    <3>2. torrents'[n].chunks = RowChunks(LastRow(n))
      BY <3>1
    <3> QED
      BY <2>3, <3>2, Zenon
  <2>5. /\ DOMAIN RowChunks(0) = DOMAIN f
        /\ \A i \in DOMAIN f : RowChunks(0)[i].index = i /\ RowChunks(0)[i].exists = f[i]
    BY DEF RowChunks
  <2>6. ChunksMatch'
    BY <1>1, <2>2, <2>4, <2>5 DEF ChunksMatch, FlagsMatch, InPackage
  <2>7. \A c \in copies' : c.dbuid = 0 /\ c.chunks = RowChunks(0)
    BY <1>1, <1>3
  <2> QED
    BY <1>1, <2>1, <2>2, <2>6, <2>7 DEF OneReceived, FlagsMatch, InPackage, RowChunks
<1> QED
  BY <1>1, <1>2, <1>3 DEF ProgressInv, OnlyReceived

LEMMA DestroyKeepsProgress ==
  ASSUME ReceivesOthers, TypeInv, OwnInv, ProgressInv, NEW c \in copies, Destroy(c)
  PROVE  ProgressInv'
<1>1. /\ DOMAIN rows' = DOMAIN rows /\ copies' \subseteq copies
      /\ c.dbuid \notin DOMAIN rows => rows' = rows
      /\ UNCHANGED <<package, torrents, new, pc, crashed>>
  BY DestroyIs DEF TypeInv
<1>2. ASSUME OnlyReceived, DOMAIN rows = {} PROVE NothingReceived'
  BY <1>1, <1>2 DEF OnlyReceived, ProgressInv, NothingReceived
<1>3. ASSUME OnlyReceived, DOMAIN rows = {0} PROVE OneReceived'
  <2>0. OneReceived
    BY <1>3 DEF ProgressInv, OnlyReceived
  <2>1. CASE c.dbuid \notin DOMAIN rows
    <3>1. pc # "exiting"
      BY <1>3, <2>0, <2>1 DEF OneReceived
    <3>2. rows' = rows
      BY <1>1, <2>1
    <3>3. /\ FlagsMatch' <=> FlagsMatch
          /\ ChunksMatch' <=> ChunksMatch
          /\ RowChunks(0)' = RowChunks(0)
      BY <1>1, <3>2 DEF FlagsMatch, ChunksMatch, InPackage, RowChunks
    <3> QED
      BY <1>1, <2>0, <3>1, <3>2, <3>3 DEF OneReceived
  <2>2. CASE c.dbuid \in DOMAIN rows
    <3>1. c.dbuid = 0 /\ DOMAIN torrents # {} /\ ChunksMatch
      BY <1>3, <2>0, <2>2 DEF ProgressInv, OnlyReceived, OneReceived
    <3>2. PICK f \in Seq(BOOLEAN) : f = rows[0].flags
      BY <1>3, RowZeroIs
    <3>3. PICK d \in Seq(Chunk) : d = c.chunks
      BY DEF TypeInv, TypeOK
    <3>4. PICK g \in Seq(BOOLEAN) : g = rows'[0].flags /\ g = Updated(f, d) /\ DOMAIN g = DOMAIN f
      <4>1. rows'[0].flags \in Seq(BOOLEAN) /\ rows'[0].flags = Updated(f, d)
        BY <1>3, <3>1, <3>2, <3>3, DestroyIs DEF TypeInv
      <4>2. DOMAIN Updated(f, d) = DOMAIN f
        BY DEF Updated
      <4> QED
        BY <4>1, <4>2
    <3>5. rows'[0].name = rows[0].name
      BY <1>3, DestroyIs DEF TypeInv
    <3>6. ChunksMatch'
      BY <1>1, <3>1, <3>2, <3>4, <3>5 DEF ChunksMatch, InPackage
    <3>7. pc = "starting" => g = f
      <4> SUFFICES ASSUME pc = "starting" PROVE g = f
        OBVIOUS
      <4>1. d = RowChunks(0)
        BY <2>0, <3>3 DEF OneReceived
      <4>2. DOMAIN d = DOMAIN f /\ \A i \in DOMAIN f : d[i].index = i /\ d[i].exists = f[i]
        BY <3>2, <4>1 DEF RowChunks
      <4>3. \A i \in DOMAIN f : g[i] = f[i]
        BY <3>4, <4>2, UpdatedByRow
      <4>4. g = [i \in DOMAIN g |-> g[i]] /\ f = [i \in DOMAIN f |-> f[i]]
        BY LenProperties
      <4> QED
        BY <3>4, <4>3, <4>4
    <3>8. pc = "exiting" => \A i \in DOMAIN f : g[i] <=> InPackage(rows[0].name, i)
      <4> SUFFICES ASSUME pc = "exiting", NEW i \in DOMAIN f
                   PROVE  g[i] <=> InPackage(rows[0].name, i)
        OBVIOUS
      <4>1. d = torrents[rows[0].name].chunks
        BY <2>0, <3>3 DEF OneReceived
      <4>2. /\ DOMAIN d = DOMAIN f
            /\ \A p \in DOMAIN d : d[p].index = p /\ (d[p].exists <=> InPackage(rows[0].name, p))
        BY <3>1, <3>2, <4>1 DEF ChunksMatch
      <4>3. g[i] = d[i].exists
        BY <3>4, <4>2, UpdatedByRow
      <4> QED
        BY <4>2, <4>3
    <3>9. pc = "starting" => FlagsMatch' /\ RowChunks(0)' = RowChunks(0)
      BY <1>1, <2>0, <3>2, <3>4, <3>5, <3>7 DEF OneReceived, FlagsMatch, InPackage, RowChunks
    <3>10. pc = "exiting" => FlagsMatch'
      BY <1>1, <3>2, <3>4, <3>5, <3>8 DEF FlagsMatch, InPackage
    <3> QED
      BY <1>1, <2>0, <3>1, <3>5, <3>6, <3>9, <3>10 DEF OneReceived
  <2> QED
    BY <2>1, <2>2
<1> QED
  BY <1>1, <1>2, <1>3 DEF ProgressInv, OnlyReceived

LEMMA EndsKeepProgress ==
  ASSUME ReceivesOthers, TypeInv, OwnInv, ProgressInv, Started \/ Quit \/ Exited \/ Crash
  PROVE  ProgressInv'
<1>1. CASE Crash
  BY <1>1, EmptyHasNoDomain DEF Crash, ProgressInv, NoDomain
<1>2. CASE Started
  BY <1>2 DEF Started, ProgressInv, NothingReceived, OneReceived, FlagsMatch, ChunksMatch,
              InPackage, disk, history
<1>3. CASE Quit
  <2>1. /\ UNCHANGED <<rows, package, torrents, new, crashed>> /\ pc' = "exiting"
        /\ copies' = {Copy(0, torrents[n]) : n \in DOMAIN torrents}
    BY <1>3 DEF Quit, disk, history
  <2>2. ASSUME OnlyReceived, DOMAIN rows = {} PROVE NothingReceived' /\ copies' = {}
    BY <2>1, <2>2 DEF OnlyReceived, ProgressInv, NothingReceived
  <2>3. ASSUME OnlyReceived, DOMAIN rows = {0}
        PROVE  OneReceived' /\ (DOMAIN torrents = {} => copies' = {})
    <3>1. OneReceived
      BY <2>3 DEF ProgressInv, OnlyReceived
    <3>2. ASSUME NEW c \in copies'
          PROVE  /\ DOMAIN torrents # {} /\ c.dbuid = 0
                 /\ c.chunks = torrents[rows[0].name].chunks
      <4>1. PICK n \in DOMAIN torrents : c = Copy(0, torrents[n])
        BY <2>1
      <4>2. n = rows[0].name
        BY <3>1 DEF OneReceived
      <4> QED
        BY <4>1, <4>2, CopyIs
    <3>3. DOMAIN torrents # {} => copies' # {}
      BY <2>1
    <3> QED
      BY <2>1, <3>1, <3>2, <3>3 DEF OneReceived, FlagsMatch, ChunksMatch, InPackage
  <2> QED
    BY <2>1, <2>2, <2>3 DEF ProgressInv, OnlyReceived
<1>4. CASE Exited
  <2>1. /\ UNCHANGED <<rows, package, copies, new, crashed>> /\ pc = "exiting" /\ pc' = "down"
        /\ copies = {} /\ DOMAIN torrents' = {}
    BY <1>4, EmptyHasNoDomain DEF Exited, NoDomain, disk, history
  <2> QED
    BY <2>1 DEF ProgressInv, NothingReceived, OneReceived, FlagsMatch, InPackage
<1> QED
  BY <1>1, <1>2, <1>3, <1>4

\* A package that is made here changes nothing for a received torrent.
LEMMA PackageKeepsProgress ==
  ASSUME ReceivesOthers, TypeInv, OwnInv, ProgressInv,
         UNCHANGED <<rows, torrents, copies, crashed>>,
         pc \in {"idle", "package"}, pc' \in {"package", "row", "idle"},
         \A n \in Received : /\ n \in DOMAIN package' <=> n \in DOMAIN package
                             /\ n \in DOMAIN package => package'[n] = package[n],
         pc' = "row" /\ new'.dbuid = 0 => new'.chunks = AllChunks(FALSE)
  PROVE  ProgressInv'
<1>1. ASSUME OnlyReceived, DOMAIN rows = {} PROVE NothingReceived'
  BY <1>1 DEF OnlyReceived, ProgressInv, NothingReceived
<1>2. ASSUME OnlyReceived, DOMAIN rows = {0} PROVE OneReceived'
  <2>1. OneReceived
    BY <1>2 DEF ProgressInv, OnlyReceived
  <2>2. \A i : InPackage(rows[0].name, i)' <=> InPackage(rows[0].name, i)
    BY <1>2, RowZeroIs DEF InPackage
  <2>3. (FlagsMatch => FlagsMatch') /\ (ChunksMatch => ChunksMatch')
    BY <2>2 DEF FlagsMatch, ChunksMatch
  <2> QED
    BY <2>1, <2>3 DEF OneReceived
<1> QED
  BY <1>1, <1>2 DEF ProgressInv, OnlyReceived

LEMMA BeginKeepsProgress ==
  ASSUME ReceivesOthers, TypeInv, OwnInv, ProgressInv,
         \/ \E u \in Own : BeginPackage(u)
         \/ FinishPackage \/ FailPackage
         \/ \E u \in Received : ReceiveTorrent(u)
  PROVE  ProgressInv'
<1>1. /\ UNCHANGED <<rows, torrents, copies, crashed>>
      /\ pc \in {"idle", "package"} /\ pc' \in {"package", "row", "idle"}
  BY DEF BeginPackage, FinishPackage, FailPackage, ReceiveTorrent, disk, history
<1>2. ASSUME NEW u \in Own, BeginPackage(u) PROVE ProgressInv'
  <2>1. package' = Put(package, u, {}) /\ pc' = "package"
    BY <1>2 DEF BeginPackage
  <2>2. \A n \in Received : /\ n \in DOMAIN package' <=> n \in DOMAIN package
                            /\ n \in DOMAIN package => package'[n] = package[n]
    BY <2>1 DEF Put, ReceivesOthers
  <2> QED
    BY <1>1, <2>1, <2>2, PackageKeepsProgress
<1>3. CASE FinishPackage
  <2>1. /\ package' = [package EXCEPT ![new.uid] = Pieces] /\ new' = new
        /\ new.dbuid # 0 /\ new.uid \in Own
    BY <1>3 DEF FinishPackage, OwnInv, OwnNew
  <2>2. \A n \in Received : /\ n \in DOMAIN package' <=> n \in DOMAIN package
                            /\ n \in DOMAIN package => package'[n] = package[n]
    BY <2>1 DEF ReceivesOthers
  <2> QED
    BY <1>1, <2>1, <2>2, PackageKeepsProgress
<1>4. ASSUME NEW u \in Received, ReceiveTorrent(u) PROVE ProgressInv'
  <2>1. package' = package /\ new' = [uid |-> u, dbuid |-> 0, chunks |-> AllChunks(FALSE)]
    BY <1>4 DEF ReceiveTorrent, disk
  <2> QED
    BY <1>1, <2>1, PackageKeepsProgress
<1>5. CASE FailPackage
  <2>1. package' = package /\ pc' = "idle"
    BY <1>5 DEF FailPackage, disk
  <2> QED
    BY <1>1, <2>1, PackageKeepsProgress
<1> QED
  BY <1>2, <1>3, <1>4, <1>5
LEMMA InsertKeepsProgress ==
  ASSUME ReceivesOthers, TypeInv, OwnInv, ProgressInv, Insert
  PROVE  ProgressInv'
<1> DEFINE d == new.dbuid
<1>1. CASE InsertRow
  <2>1. /\ d \notin DOMAIN rows /\ pc = "row" /\ pc' = "chunks"
        /\ UNCHANGED <<package, torrents, copies, new, crashed>>
    BY <1>1 DEF InsertRow, history
  <2>2. PICK e \in Seq(BOOLEAN) : e = << >> /\ Len(e) = 0
    BY EmptySeq
  <2>3. rows' = Put(rows, d, [name |-> new.uid, flags |-> e])
    BY <1>1, <2>2 DEF InsertRow
  <2>4. DOMAIN rows' = DOMAIN rows \union {d} /\ rows'[d] = [name |-> new.uid, flags |-> e]
    BY <2>3 DEF Put
  <2>5. ASSUME OnlyReceived' PROVE /\ DOMAIN rows' = {0} /\ OneReceived'
                                   /\ \A c \in copies : c.dbuid # 0
    <3>1. d = 0 /\ DOMAIN rows = {} /\ OnlyReceived
      BY <2>1, <2>4, <2>5 DEF OnlyReceived
    <3>2. /\ DOMAIN torrents = {} /\ new.uid \notin DOMAIN package
          /\ new.chunks = AllChunks(FALSE)
      BY <2>1, <3>1 DEF OnlyReceived, ProgressInv, NothingReceived, OwnInv, OwnNew
    <3>3. rows'[0].name = new.uid /\ DOMAIN rows'[0].flags = {}
      BY <2>2, <2>4, <3>1, LenProperties
    <3>4. FlagsMatch'
      BY <3>3 DEF FlagsMatch
    <3> QED
      BY <2>1, <2>4, <3>1, <3>2, <3>3, <3>4 DEF OneReceived, OnlyReceived, ProgressInv
  <2> QED
    BY <2>1, <2>5 DEF ProgressInv, OnlyReceived
<1>2. CASE InsertChunk
  <2> DEFINE f == rows[d].flags
             g == rows'[d].flags
  <2>1. /\ d \in DOMAIN rows /\ Len(f) + 1 \in 1..NumPieces
        /\ DOMAIN rows' = DOMAIN rows
        /\ rows'[d].name = rows[d].name
        /\ g \in Seq(BOOLEAN) /\ Len(g) = Len(f) + 1
        /\ \A i \in 1..Len(f) : g[i] = f[i]
        /\ g[Len(f) + 1] = new.chunks[Len(f) + 1].exists
        /\ pc = "chunks"
        /\ pc' = IF Len(f) + 1 < NumPieces THEN "chunks" ELSE "register"
        /\ UNCHANGED <<package, torrents, copies, new, crashed>>
    BY <1>2, InsertChunkIs
  <2>2. Len(f) \in Nat /\ DOMAIN f = 1..Len(f) /\ DOMAIN g = 1..(Len(f) + 1)
    BY <2>1, RowIs, LenProperties DEF TypeInv
  <2>3. ASSUME OnlyReceived PROVE DOMAIN rows = {0} /\ OneReceived'
    <3>1. d = 0 /\ DOMAIN rows = {0}
      BY <2>1, <2>3 DEF OnlyReceived
    <3>2. /\ OneReceived
          /\ DOMAIN torrents = {} /\ rows[0].name \notin DOMAIN package
          /\ new.chunks = AllChunks(FALSE) /\ FlagsMatch
      BY <2>1, <2>3, <3>1 DEF OnlyReceived, ProgressInv, OneReceived
    <3>3. ~new.chunks[Len(f) + 1].exists
      BY <2>1, <3>2 DEF AllChunks, Pieces
    <3>4. \A i \in DOMAIN f : ~f[i]
      BY <3>1, <3>2 DEF FlagsMatch, InPackage
    <3>5. ASSUME NEW i \in DOMAIN g PROVE ~g[i]
      <4>1. CASE i \in 1..Len(f)
        BY <2>1, <2>2, <3>4, <4>1
      <4>2. CASE i = Len(f) + 1
        BY <2>1, <3>3, <4>2
      <4> QED
        BY <2>2, <4>1, <4>2
    <3>6. FlagsMatch'
      BY <2>1, <3>1, <3>2, <3>5 DEF FlagsMatch, InPackage
    <3> QED
      BY <2>1, <3>1, <3>2, <3>6 DEF OneReceived
  <2> QED
    BY <2>1, <2>3 DEF ProgressInv, OnlyReceived
<1>3. CASE InsertFails
  <2>1. UNCHANGED <<rows, package, torrents, crashed>> /\ pc \in {"row", "chunks"}
    BY <1>3 DEF InsertFails, disk, history
  <2>2. /\ pc' \in {"register", "idle"}
        /\ \A c \in copies' : c \in copies \/ c.dbuid # 0
    BY <1>3, CopyIs DEF InsertFails
  <2> QED
    BY <2>1, <2>2 DEF ProgressInv, NothingReceived, OneReceived, FlagsMatch, ChunksMatch, InPackage
<1> QED
  BY <1>1, <1>2, <1>3 DEF Insert

LEMMA RegisterKeepsProgress ==
  ASSUME ReceivesOthers, TypeInv, OwnInv, ProgressInv, Register
  PROVE  ProgressInv'
<1>1. UNCHANGED <<rows, package, crashed>> /\ pc = "register" /\ pc' = "idle"
  BY DEF Register, RegisterCreated, OpenReceived, disk, history
<1>2. CASE RegisterCreated
  <2>1. new.uid # 0 /\ new.uid \in DOMAIN rows
    BY <1>1, <1>2, ZeroIsNone DEF RegisterCreated, OwnInv, OwnNew
  <2> QED
    BY <1>1, <2>1 DEF ProgressInv
<1>3. CASE OpenReceived
  <2> DEFINE t == Opened(new.uid, new.chunks)
  <2>1. new.dbuid = 0 /\ new.uid \notin Own /\ new.uid # 0
    BY <1>1, <1>3, ZeroIsNone DEF OpenReceived, OwnInv, OwnNew, ReceivesOthers
  <2>2. new.uid \notin DOMAIN rows
    BY <2>1 DEF OwnInv, OwnRows
  <2>3. torrents' = torrents /\ copies' = copies \union {t}
    BY <1>3, <2>2 DEF OpenReceived
  <2>4. t.dbuid # 0
    BY <2>1 DEF Opened
  <2> HIDE DEF t
  <2> QED
    BY <1>1, <2>3, <2>4
       DEF ProgressInv, NothingReceived, OneReceived, FlagsMatch, ChunksMatch, InPackage
<1> QED
  BY <1>2, <1>3 DEF Register

LEMMA WorkersKeepProgress ==
  ASSUME ReceivesOthers, TypeInv, OwnInv, ProgressInv, Workers
  PROVE  ProgressInv'
<1>1. ASSUME NEW n \in Contents, CopyTorrent(n) PROVE ProgressInv'
  <2>1. /\ UNCHANGED <<rows, package, torrents, new, pc, crashed>> /\ n \in DOMAIN torrents
        /\ pc \in {"idle", "package", "row", "chunks", "register"}
    BY <1>1 DEF CopyTorrent, Running, disk, history
  <2> QED
    BY <2>1 DEF ProgressInv, NothingReceived, OneReceived, FlagsMatch, ChunksMatch, InPackage
<1>2. ASSUME NEW n \in Contents, NEW i \in Pieces, PutChunk(n, i) PROVE ProgressInv'
  <2> DEFINE c == torrents[n].chunks
             e == torrents'[n].chunks
  <2>1. /\ n \in DOMAIN torrents /\ i \in DOMAIN c
        /\ DOMAIN torrents' = DOMAIN torrents
        /\ e \in Seq(Chunk) /\ Len(e) = Len(c)
        /\ \A j \in DOMAIN c :
             e[j] = IF j = i THEN [index |-> c[i].index, exists |-> TRUE] ELSE c[j]
        /\ package' = Put(package, n, {i} \union
                             IF n \in DOMAIN package THEN package[n] ELSE {})
        /\ UNCHANGED <<rows, new, pc, crashed>>
    BY <1>2, PutChunkIs DEF TypeInv
  <2>2. pc \in {"idle", "package", "row", "chunks", "register"}
    BY <1>2 DEF PutChunk, Running
  <2>3. ASSUME OnlyReceived PROVE DOMAIN rows = {0} /\ OneReceived'
    <3>1. DOMAIN rows = {0} /\ OneReceived /\ ChunksMatch /\ n = rows[0].name
      BY <2>1, <2>3 DEF OnlyReceived, ProgressInv, NothingReceived, OneReceived
    <3>2. DOMAIN e = DOMAIN c
      <4>1. c \in Seq(Chunk)
        BY <2>1, TorrentIs DEF TypeInv
      <4> QED
        BY <2>1, <4>1, LenProperties
    <3>3. \A j : InPackage(n, j)' <=> (j = i \/ InPackage(n, j))
      BY <2>1 DEF InPackage, Put
    <3>4. /\ DOMAIN c = DOMAIN rows[0].flags
          /\ \A j \in DOMAIN c : c[j].index = j /\ (c[j].exists <=> InPackage(n, j))
      BY <3>1 DEF ChunksMatch
    <3>5. ASSUME NEW j \in DOMAIN c
          PROVE  e[j].index = j /\ (e[j].exists <=> InPackage(n, j)')
      <4>1. CASE j = i
        <5>1. e[j] = [index |-> c[i].index, exists |-> TRUE]
          BY <2>1, <4>1
        <5> QED
          BY <3>3, <3>4, <4>1, <5>1
      <4>2. CASE j # i
        <5>1. e[j] = c[j]
          BY <2>1, <4>2
        <5> QED
          BY <3>3, <3>4, <4>2, <5>1
      <4> QED
        BY <4>1, <4>2
    <3>6. ChunksMatch'
      BY <2>1, <3>1, <3>2, <3>4, <3>5 DEF ChunksMatch
    <3> QED
      BY <2>1, <2>2, <3>1, <3>6 DEF OneReceived
  <2> QED
    BY <2>1, <2>2, <2>3 DEF ProgressInv, OnlyReceived
<1> QED
  BY <1>1, <1>2 DEF Workers

LEMMA InitProgressInv == Init => ProgressInv
<1> SUFFICES ASSUME Init PROVE ProgressInv
  OBVIOUS
<1>1. /\ DOMAIN rows = {} /\ DOMAIN package = {} /\ DOMAIN torrents = {}
      /\ copies = {} /\ pc = "down"
  BY EmptyHasNoDomain DEF Init, NoDomain
<1> QED
  BY <1>1 DEF ProgressInv, NothingReceived

LEMMA StepProgressInv ==
  ASSUME ReceivesOthers
  PROVE  TypeInv /\ OwnInv /\ ProgressInv /\ [Next]_vars => ProgressInv'
<1> SUFFICES ASSUME TypeInv, OwnInv, ProgressInv, [Next]_vars PROVE ProgressInv'
  OBVIOUS
<1>1. CASE Start
  BY <1>1, StartKeepsProgress
<1>2. CASE Started \/ Quit \/ Exited \/ Crash
  BY <1>2, EndsKeepProgress
<1>3. CASE Create \/ Receive
  BY <1>3, BeginKeepsProgress DEF Create, Receive
<1>4. CASE Insert
  BY <1>4, InsertKeepsProgress
<1>5. CASE Register
  BY <1>5, RegisterKeepsProgress
<1>6. CASE Workers
  BY <1>6, WorkersKeepProgress
<1>7. CASE Destructors
  BY <1>7, DestroyKeepsProgress DEF Destructors
<1>8. CASE UNCHANGED vars
  <2>1. UNCHANGED <<rows, package, torrents, copies, new, pc, crashed>>
    BY <1>8 DEF vars, disk, memory, history
  <2>2. NothingReceived' <=> NothingReceived
    BY <2>1 DEF NothingReceived
  <2>3. /\ FlagsMatch' <=> FlagsMatch
        /\ ChunksMatch' <=> ChunksMatch
        /\ RowChunks(0)' = RowChunks(0)
    BY <2>1 DEF FlagsMatch, ChunksMatch, InPackage, RowChunks
  <2>4. OneReceived' <=> OneReceived
    BY <2>1, <2>3 DEF OneReceived
  <2> QED
    BY <2>1, <2>2, <2>4 DEF ProgressInv
<1> QED
  BY <1>1, <1>2, <1>3, <1>4, <1>5, <1>6, <1>7, <1>8 DEF Next, NextNoCrash

\* A node that only receives, and always quits, has recorded what it downloaded
\* and nothing else, whatever stale copies wrote on the way, as long as it does
\* not create what it asks for (torrent.cpp, ~Torrent; node.cpp, -q).
THEOREM ProgressIsKeptTheorem ==
  ASSUME Own \intersect Received = {}
  PROVE  Spec => []ProgressIsKept
<1>1. ReceivesOthers
  BY DEF ReceivesOthers
<1>2. ProgressInv => ProgressIsKept
  BY DEF ProgressInv, OneReceived, FlagsMatch, InPackage, ProgressIsKept
<1>3. TypeInv /\ OwnInv /\ [Next]_vars => OwnInv'
  BY <1>1, StepOwnInv
<1>4. TypeInv /\ OwnInv /\ ProgressInv /\ [Next]_vars => ProgressInv'
  BY <1>1, StepProgressInv
<1> QED
  BY <1>2, <1>3, <1>4, InitTypeInv, StepTypeInv, InitOwnInv, InitProgressInv, PTL DEF Spec
=============================================================================
