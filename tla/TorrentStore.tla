---------------------------- MODULE TorrentStore ----------------------------
(***************************************************************************)
(* What a node keeps of its torrents (torrent.cpp, torrentDB.cpp, and the  *)
(* map name2torrent of node.cpp): the rows of the database, the package    *)
(* files, and the Torrent objects in memory.                               *)
(*                                                                         *)
(* A Torrent has two uids: its own, and the uid of its database handle     *)
(* (db.uid), which only create and open set: a copied, loaded or received  *)
(* Torrent has the default 0 there.  A torrent received from a peer is     *)
(* therefore inserted under uid 0.  And the destructor of every Torrent,   *)
(* the many short-lived copies included, writes the flags of its chunks to *)
(* the rows of its db.uid.                                                 *)
(*                                                                         *)
(* The program may crash at any point and start again, and an insertion    *)
(* may fail half way.  A torrent is named by the uid of its content:       *)
(* different contents under one name are left out.                         *)
(***************************************************************************)
EXTENDS Naturals, Sequences, FiniteSets

CONSTANTS Contents,    \* the uids of the torrents there are; 0 is none
          Own,         \* those whose files this node has, to create a torrent
          Received,    \* those it asks a peer for
          NumPieces,   \* the number of chunks of a package
          MaxCopies,   \* bound on the copies alive when a thread makes one
          MaxStarts    \* bound on the runs of the program

ASSUME ContentsAssumption == Contents \subseteq Nat \ {0}
ASSUME OwnAssumption == Own \subseteq Contents /\ Received \subseteq Contents
ASSUME PiecesAssumption == NumPieces \in Nat \ {0}
ASSUME BoundsAssumption == MaxCopies \in Nat /\ MaxStarts \in Nat

Pieces == 1..NumPieces
Uids == Contents \union {0}

VARIABLES rows,     \* the rows of a uid: the name, and the flags of its chunks
          package,  \* which pieces the package file of a name has
          torrents, \* name2torrent
          copies,   \* the other Torrents alive: db.uid and chunks of each
          new,      \* the Torrent the main thread is about to insert
          pc,       \* what the main thread is doing
          created,  \* the torrents -tc has succeeded for
          crashed,  \* whether a run of the program has ended in a crash
          starts,   \* the runs of the program so far
          emptied   \* the torrents with rows whose package a later -tc has
                    \* emptied and not filled again

disk == <<rows, package>>
memory == <<torrents, copies, new, pc>>
history == <<created, crashed, starts, emptied>>
vars == <<disk, memory, history>>

SeqsUpTo(S, n) == UNION {[1..k -> S] : k \in 0..n}

\* The chunks of a Torrent in memory, and those of a new one.  Opening adds
\* the chunks of the database to those the object has.
Chunk == [index : Pieces, exists : BOOLEAN]
AllChunks(b) == [i \in Pieces |-> [index |-> i, exists |-> b]]
NoTorrent == [uid |-> 0, dbuid |-> 0, chunks |-> << >>]

IsComplete(t) == t.chunks # << >> /\ \A p \in DOMAIN t.chunks : t.chunks[p].exists

TypeOK ==
  /\ DOMAIN rows \subseteq Uids
  /\ \A u \in DOMAIN rows :
       rows[u] \in [name : Contents, flags : SeqsUpTo(BOOLEAN, NumPieces)]
  /\ DOMAIN package \subseteq Contents
  /\ \A n \in DOMAIN package : package[n] \subseteq Pieces
  /\ DOMAIN torrents \subseteq Contents
  /\ \A n \in DOMAIN torrents :
       torrents[n] \in [uid : Uids, chunks : SeqsUpTo(Chunk, 2 * NumPieces)]
  /\ \A c \in copies : c.dbuid \in Uids /\ c.chunks \in Seq(Chunk)
  /\ new \in [uid : Uids, dbuid : Uids, chunks : SeqsUpTo(Chunk, NumPieces)]
  /\ pc \in {"down", "starting", "idle", "package", "row", "chunks", "register",
             "exiting"}
  /\ created \subseteq Contents
  /\ crashed \in BOOLEAN
  /\ starts \in 0..MaxStarts
  /\ emptied \subseteq Contents

\* The program has been initialised (--init): the tables are empty.
Init ==
  /\ rows = << >>
  /\ package = << >>
  /\ torrents = << >>
  /\ copies = {}
  /\ new = NoTorrent
  /\ pc = "down"
  /\ created = {}
  /\ crashed = FALSE
  /\ starts = 0
  /\ emptied = {}

\* f with k mapped to v
Put(f, k, v) == [x \in DOMAIN f \union {k} |-> IF x = k THEN v ELSE f[x]]

\* The chunks of createTorrentFromRow.
RowChunks(u) ==
  [i \in DOMAIN rows[u].flags |-> [index |-> i, exists |-> rows[u].flags[i]]]

\* updateChunks: one update per chunk, of the rows there are; the last counts.
Updated(flags, chunks) ==
  [i \in DOMAIN flags |->
     LET at == {p \in DOMAIN chunks : chunks[p].index = i}
     IN  IF at = {} THEN flags[i]
         ELSE chunks[CHOOSE p \in at : \A q \in at : q <= p].exists]

Copy(dbuid, t) == [dbuid |-> dbuid, chunks |-> t.chunks]

\* The package of n has piece i.
Has(n, i) == n \in DOMAIN package /\ i \in package[n]

-----------------------------------------------------------------------------
(* The start and the end of the program. *)

\* The rows of one name: the last in the order of the primary key wins.
RowsNamed(n) == {u \in DOMAIN rows : rows[u].name = n}
LastRow(n) == CHOOSE u \in RowsNamed(n) : \A v \in RowsNamed(n) : v <= u

\* populateLocalTorrents: a Torrent per row goes into the map, through copies
\* that all have db.uid 0.
Start ==
  /\ pc = "down"
  /\ starts < MaxStarts
  /\ starts' = starts + 1
  /\ torrents' = [n \in {rows[u].name : u \in DOMAIN rows} |->
                    [uid |-> LastRow(n), chunks |-> RowChunks(LastRow(n))]]
  /\ copies' = {[dbuid |-> 0, chunks |-> RowChunks(u)] : u \in DOMAIN rows}
  /\ pc' = "starting"
  /\ UNCHANGED <<disk, new, created, crashed, emptied>>

\* ~Torrent: the chunks go to the rows of the db.uid.  The order in which
\* several Torrents die is left open, and an equal one may be left.
Destroy(c) ==
  /\ rows' = IF c.dbuid \in DOMAIN rows
               THEN [rows EXCEPT ![c.dbuid].flags = Updated(@, c.chunks)]
               ELSE rows
  /\ copies' \in {copies, copies \ {c}}
  /\ UNCHANGED <<package, torrents, new, pc, history>>

Started ==
  /\ pc = "starting"
  /\ copies = {}
  /\ pc' = "idle"
  /\ UNCHANGED <<disk, torrents, copies, new, history>>

\* Slip: the map is destroyed while the threads are still there.
QuitAtOnce ==
  /\ pc = "idle"
  /\ copies' = copies \union {Copy(0, torrents[n]) : n \in DOMAIN torrents}
  /\ pc' = "exiting"
  /\ UNCHANGED <<disk, torrents, new, history>>

\* -q: the threads are joined, and main returns: the map is destroyed.
Quit ==
  /\ pc = "idle"
  /\ copies = {}
  /\ copies' = {Copy(0, torrents[n]) : n \in DOMAIN torrents}
  /\ pc' = "exiting"
  /\ UNCHANGED <<disk, torrents, new, history>>

Exited ==
  /\ pc = "exiting"
  /\ copies = {}
  /\ pc' = "down"
  /\ torrents' = << >>
  /\ UNCHANGED <<disk, copies, new, history>>

\* What is on disk stays; no destructor runs.
Crash ==
  /\ pc # "down"
  /\ pc' = "down"
  /\ torrents' = << >>
  /\ copies' = {}
  /\ new' = NoTorrent
  /\ crashed' = TRUE
  /\ UNCHANGED <<disk, created, starts, emptied>>

-----------------------------------------------------------------------------
(* -tc: Node::createTorrent and Torrent::create. *)

\* Slip: the rows are inserted and the package is made afterwards.
BeginUnpackaged(u) ==
  /\ pc = "idle"
  /\ new' = [uid |-> u, dbuid |-> u, chunks |-> AllChunks(TRUE)]
  /\ pc' = "row"
  /\ UNCHANGED <<disk, torrents, copies, history>>

\* The package is opened, which empties it, also if it was made before.
BeginPackage(u) ==
  /\ pc = "idle"
  /\ package' = Put(package, u, {})
  /\ emptied' = emptied \union ({u} \intersect DOMAIN rows)
  /\ new' = [uid |-> u, dbuid |-> u, chunks |-> AllChunks(TRUE)]
  /\ pc' = "package"
  /\ UNCHANGED <<rows, torrents, copies, created, crashed, starts>>

\* Its chunks are hashed, which gives the uid.
FinishPackage ==
  /\ pc = "package"
  /\ package' = [package EXCEPT ![new.uid] = Pieces]
  /\ emptied' = emptied \ {new.uid}
  /\ pc' = "row"
  /\ UNCHANGED <<rows, torrents, copies, new, created, crashed, starts>>

\* There was nothing to compress, or the package could not be written: a
\* Torrent without chunks is not valid, and its destructor has none to write.
FailPackage ==
  /\ pc = "package"
  /\ new' = NoTorrent
  /\ pc' = "idle"
  /\ UNCHANGED <<disk, torrents, copies, history>>

\* insertIntoTorrents: the uid is the primary key.
InsertRow ==
  /\ pc = "row"
  /\ new.dbuid \notin DOMAIN rows
  /\ rows' = Put(rows, new.dbuid, [name |-> new.uid, flags |-> << >>])
  /\ pc' = "chunks"
  /\ UNCHANGED <<package, torrents, copies, new, history>>

\* Slip: the count starts at one, and stops one short.
InsertChunkShort ==
  /\ pc = "chunks"
  /\ LET i == Len(rows[new.dbuid].flags) + 1
     IN  /\ rows' = [rows EXCEPT ![new.dbuid].flags = Append(@, new.chunks[i].exists)]
         /\ pc' = IF i + 1 < NumPieces THEN "chunks" ELSE "register"
  /\ UNCHANGED <<package, torrents, copies, new, history>>

\* insertIntoChunks, one row at a time, in the order of the index.
InsertChunk ==
  /\ pc = "chunks"
  /\ LET i == Len(rows[new.dbuid].flags) + 1
     IN  /\ rows' = [rows EXCEPT ![new.dbuid].flags = Append(@, new.chunks[i].exists)]
         /\ pc' = IF i < NumPieces THEN "chunks" ELSE "register"
  /\ UNCHANGED <<package, torrents, copies, new, history>>

\* Any insertion can fail, and one of a taken uid does; what is inserted
\* stays.  The Torrent of -tc is destroyed, a received one goes on to open.
InsertFails ==
  /\ pc \in {"row", "chunks"}
  /\ IF new.dbuid = 0
       THEN pc' = "register" /\ UNCHANGED <<copies, new>>
       ELSE /\ pc' = "idle"
            /\ copies' = copies \union {Copy(new.dbuid, new)}
            /\ new' = NoTorrent
  /\ UNCHANGED <<disk, torrents, history>>

\* name2torrent[name] = t, and t is destroyed.
RegisterCreated ==
  /\ pc = "register"
  /\ new.dbuid # 0
  /\ torrents' = Put(torrents, new.uid, [uid |-> new.uid, chunks |-> new.chunks])
  /\ copies' = copies \union {Copy(new.dbuid, new)}
  /\ created' = created \union {new.uid}
  /\ new' = NoTorrent
  /\ pc' = "idle"
  /\ UNCHANGED <<disk, crashed, starts, emptied>>

-----------------------------------------------------------------------------
(* A torrent file arrives: completeRequest(TorrentFileReq). *)

\* deserialize leaves db.uid at 0, and all chunks missing.
ReceiveTorrent(u) ==
  /\ pc = "idle"
  /\ new' = [uid |-> u, dbuid |-> 0, chunks |-> AllChunks(FALSE)]
  /\ pc' = "row"
  /\ UNCHANGED <<disk, torrents, copies, history>>

\* Slip: a default-constructed chunk, of index 0, precedes those of the rows.
OpenedWithDefault(u, chunks) ==
  [dbuid |-> u, chunks |-> IF u \in DOMAIN rows
                             THEN << [index |-> 0, exists |-> TRUE] >> \o RowChunks(u)
                             ELSE chunks]

\* A Torrent after open: with its uid in the database handle, and the chunks
\* of its rows.
Opened(u, chunks) ==
  [dbuid |-> u,
   chunks |-> IF u \in DOMAIN rows THEN chunks \o RowChunks(u) ELSE chunks]

\* The Torrent is registered if there is a row of its uid, and destroyed.
OpenReceived ==
  /\ pc = "register"
  /\ new.dbuid = 0
  /\ LET t == Opened(new.uid, new.chunks)
     IN  /\ torrents' = IF new.uid \in DOMAIN rows
                          THEN Put(torrents, new.uid,
                                   [uid |-> new.uid, chunks |-> t.chunks])
                          ELSE torrents
         /\ copies' = copies \union {t}
  /\ new' = NoTorrent
  /\ pc' = "idle"
  /\ UNCHANGED <<disk, history>>

-----------------------------------------------------------------------------
(* The server threads and the job manager. *)

Running ==
  /\ pc \in {"idle", "package", "row", "chunks", "register"}
  /\ Cardinality(copies) < MaxCopies

\* getMissingChunkIndex copies a torrent, a server opens the copy as well.
CopyTorrent(n) ==
  /\ Running
  /\ n \in DOMAIN torrents
  /\ \/ copies' = copies \union {Copy(0, torrents[n])}
     \/ /\ torrents[n].uid # 0
        /\ copies' = copies \union {Opened(torrents[n].uid, torrents[n].chunks)}
  /\ UNCHANGED <<disk, torrents, new, pc, history>>

\* completeRequest(ChunkReq): a good chunk is written to the data file, made
\* if there is none, and marked in a copy that goes back into the map.  Only
\* missing chunks are asked for; a second answer for one changes nothing.
PutChunk(n, i) ==
  /\ Running
  /\ n \in DOMAIN torrents
  /\ i \in DOMAIN torrents[n].chunks \intersect Pieces
  /\ ~torrents[n].chunks[i].exists
  /\ package' = Put(package, n, {i} \union
                                IF n \in DOMAIN package THEN package[n] ELSE {})
  /\ torrents' = [torrents EXCEPT ![n].chunks[i].exists = TRUE]
  /\ copies' = copies \union {Copy(0, torrents'[n])}
  /\ UNCHANGED <<rows, new, pc, history>>

-----------------------------------------------------------------------------
Create == FinishPackage \/ FailPackage \/ \E u \in Own : BeginPackage(u)
Receive == \E u \in Received : ReceiveTorrent(u)
Insert == InsertRow \/ InsertChunk \/ InsertFails
Register == RegisterCreated \/ OpenReceived
Workers == \E n \in Contents : CopyTorrent(n) \/ \E i \in Pieces : PutChunk(n, i)
Destructors == \E c \in copies : Destroy(c)

NextNoCrash ==
  Start \/ Started \/ Quit \/ Exited \/ Create \/ Receive \/ Insert \/ Register
  \/ Workers \/ Destructors

Next == NextNoCrash \/ Crash

Spec == Init /\ [][Next]_vars
SpecNoCrash == Init /\ [][NextNoCrash]_vars

-----------------------------------------------------------------------------
(* Properties. *)

\* A torrent -tc has succeeded for survives crashes and failed insertions: it
\* keeps the rows of all its chunks, a running node has it whole, and its
\* package has every piece, so that its peers can download it, unless a later
\* -tc of the same files has emptied the package and was cut off or failed
\* (torrent.cpp, create; node.cpp, populateLocalTorrents; compress.cpp, the
\* opening of the package).
CreatedIsDurable ==
  \A u \in created :
    /\ u \in DOMAIN rows
    /\ rows[u] = [name |-> u, flags |-> [i \in Pieces |-> TRUE]]
    /\ pc # "down" =>
         u \in DOMAIN torrents /\ torrents[u] = [uid |-> u, chunks |-> AllChunks(TRUE)]
    /\ u \in emptied \/ \A i \in Pieces : Has(u, i)

\* Rows of a torrent created here that claim a chunk its package lacks come
\* from one thing alone: a later -tc that has emptied the package and is still
\* at it, has failed, or was cut off.  Wherever a first creation was cut off,
\* and whatever has been written to the rows since, no row claims such a chunk
\* (torrent.cpp, create and ~Torrent).
RowsHaveData ==
  \A u \in DOMAIN rows \ {0} :
    \A i \in DOMAIN rows[u].flags : rows[u].flags[i] => Has(u, i) \/ u \in emptied

\* A node that only receives torrents, and always quits, has recorded what it
\* downloaded, and nothing else, whatever stale copies wrote (torrent.cpp,
\* ~Torrent).
ProgressIsKept ==
  pc = "down" /\ ~crashed /\ DOMAIN rows = {0} =>
    \A i \in DOMAIN rows[0].flags :
      rows[0].flags[i] <=>
        rows[0].name \in DOMAIN package /\ i \in package[rows[0].name]

\* A node has the chunks its torrents say it has (torrent.h: "All chunks will
\* be set to false, indicating the user doesn't own them"), but for those of a
\* package that a later -tc has emptied.
OwnsWhatItClaims ==
  \A n \in DOMAIN torrents :
    \A p \in DOMAIN torrents[n].chunks :
      torrents[n].chunks[p].exists =>
        Has(n, torrents[n].chunks[p].index) \/ n \in emptied
=============================================================================
