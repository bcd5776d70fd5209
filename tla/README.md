# bp2p: models, checks and proofs

bp2p shares files between nearby computers over Bluetooth. A node describes a
set of files by a *torrent* (a name, a package file, and the hashes of its
chunks), keeps its torrents in a MySQL database, answers the requests of other
nodes, and downloads missing chunks from them.

This directory models the parts of the program in TLA+, checks them with TLC,
and proves the most important properties with TLAPS. `PROJECT.json` maps every
definition to the lines it translates, and lists runs, mutants, hazards and
theorems.

## The system

| Part | State | Operations | Talks to |
|---|---|---|---|
| `WorkerThread` (workerThread.h/.cpp, eventSync.h) | status, recursive mutex and condition variable, the thread, its work items | constructor, `activate`, `pause`, `kill`/`close`, `modify`, `workerLoop` | the main thread calls it; the work calls `modify` from inside |
| Node, command scripts (node.cpp, `main`) | the command being read, the servers, the job manager | `-lnt -tr -td -rc -tc -p -a -q`, `syncRequest` | WorkerThread, everything below |
| Node, downloading (node.cpp) | `name2torrent`, `torName2dev`, `dev2tor`, the list of jobs | `requestTorrentData`, `jobManagerThread`, `completeRequest`, `retryRequest` | main thread and job manager share the maps without a lock |
| Node, servers and exchange (node.cpp, btdevice.cpp, btchannel.cpp) | sockets, `errno`, messages | `serverThread`, `sendRequestWait4Response`, `connect2Device`, `listen4Req`, `read`, `write`, `close` | other nodes |
| Torrent and TorrentDB (torrent.cpp, torrentDB.cpp) | rows of torrents, files and chunks; package files; the Torrents in memory | `create`, `createTorrentFromSerializedObj`, `open`, `putChunk`, copy, destructor | DatabaseConnector, Package |
| DatabaseConnector (db.cpp) | one shared connection, a counter, a recursive mutex | `connectIfNeeded`, `disconnectIfNeeded`, `setSchema`, `init`, `firstTimeInit` | MySQL |
| Packets and their factory (rrpacket, torrentListReq, torrentFileReq, torrentAvailReq, chunkReq, rrfactory, `Utils::tokenize`) | the fields of a packet | building and parsing requests and answers | the exchange |
| Package, Archiver, Compress | the file `temp`, the packages | `package` (archive and compress), `unpackage` (decompress and extract) | libarchive, zlib; called by the main thread and the job manager |
| Chunk hashes and offsets (torrent.cpp) | the hashes of a torrent, its data file | `generateChunks`, `validateChunk`, `getChunk`, `putChunk`, `createTorrentDataFile` | files, the rows of chunks |
| Discovery (`findLocalDevs`, `scanForDevs`, the inquiry of BTDevice) | lists of devices | inquiry | Bluetooth stack |
| First start (pwdGetter, `firstTimeInit`) | credentials, what is in the database | creates the schema, the tables, the account | terminal, MySQL |

### What is hard in it, and what correct means

* **Worker threads.** `pause` must leave no run of the work behind, `close` must
  end the thread, no call may hang, and work that is handed over must be taken
  up. The condition variable, a recursive mutex held for a whole run, and
  methods called from inside the work make the order of steps matter.
* **Command scripts.** A synchronous request runs alone, and leaves the workers
  running; `-q` leaves no thread.
* **Downloading.** Two threads copy torrents out of a map and assign them back
  without a lock: no chunk should be lost by that. Failed requests are retried:
  the list of jobs must stay bounded, every job must have its turn, and a chain
  of requests may end only when the torrent is complete or nobody has it.
* **Exchange.** The end of an answer is recognised by a short fragment, the end
  of a connection, or an error. A client must read its own answer, and the
  whole of it; two nodes that ask each other must not wait for each other.
* **Stored torrents.** Rows are inserted one by one, the program may crash or
  be stopped, and every copy of a Torrent writes to the database when it dies.
  What was created must survive; no row should claim data that is not there.
* **Packets.** Names are user input and fields are separated by two bars: a
  request must reach the handler of its kind, and an answer must be about what
  was asked.
* **Chunks.** A chunk is accepted by its hash and written at an offset of 32
  bits. What a node holds, and offers to others, must be the right bytes in
  the right place, whatever was answered.
* **Packages.** The main thread packs and the job manager unpacks through one
  file `temp`, which a crash may leave behind. A package must hold the files of
  its torrent, and unpacking must give them back.
* **First start.** The database is made statement by statement and may be left
  unfinished. A node that runs must have all of it.
* **The connection.** Torrents come and go in every thread. The connection must
  exist as long as one is alive, also after failures.

`PROJECT.json` lists these as hazards with their lines.

## The modules

| Module | Extends | Models | Proofs |
|---|---|---|---|
| `WorkerThread` | | the class, at the grain of lock, wait, unlock, notify and join | `WorkerThreadProofs` |
| `NodeThreads` | `WorkerThread` | `main` and the scripts of its commands over the workers | `NodeThreadsProofs` |
| `Holdings` | | what a download promises: the chunks held of each torrent | |
| `Download` | | requests, the job manager, the shared maps; implements `Holdings` | `DownloadProofs` |
| `Exchange` | | clients and servers of several nodes, connections, fragments | `ExchangeProofs` |
| `TorrentStore` | | rows, packages, Torrents in memory, crashes | `TorrentStoreProofs` |
| `DBConnection` | | the shared connection and the lives of its handles | `FirstStartProofs` |
| `FirstStart` | `DBConnection` | the making of the database, and nodes that start on it | `FirstStartProofs` |
| `Wire` | | requests and answers as texts, the factory, the tokenizer | `WireProofs` |
| `Chunking` | | hashes, offsets, columns and data files of chunks | `PackagingProofs` |
| `Packaging` | | packages and the file `temp`, two threads, crashes | `PackagingProofs` |

The `MC*` modules give the constants values for TLC. A definition whose comment
begins with `Slip:` is a variant of the one below it, as a plausible mistake in
the code would make it. No action uses it; it shows that a property can fail.

### WorkerThread

`status`, `owner` and `depth` are the atomic status and the recursive mutex;
`wpc` is the place of the thread in `workerLoop` (`lock`, `check` the
predicate, `waiting`, `woken`, `work`, `inner` inside a nested `modify`,
`sleep`, `done`). `op`, `target`, `cpc` are the method that the main thread is
in. `Pause` waits for the mutex, sets the status and notifies, as the method
does. A notification with nobody waiting is lost, and a waiting thread may wake
for no reason. `BeginWork` and `FinishWork` enclose a run of the work, which
holds the mutex throughout.

The loop runs the work once more for a thread that is killed while it waits,
which is why `ClosedIsDone` speaks of the return of `close`.

### NodeThreads

`command`, `phase` and `todo` are the place of the main thread in its script. A
synchronous request goes through `pause` (every worker in turn), `settle`,
`request`, `activate`, and `between`; `-td` makes several and then inserts a
job. The scripts call the methods by `Invoke`, which looks at nothing, as the
methods do not; WorkerThread alone calls them by `Call`, which keeps to what the
class is made for. That the scripts keep to it too is `ClosedIsLeftAlone`: it
depends on `-q` being the last command, and on the order of the loops.

### Download

`name2torrent` maps a name to the chunks it has and those that exist; `dev2tor`
and `torName2dev` are as in the code. The main thread walks through
`requestTorrentData` (`list`, `clear`, `swap`, `avail`, `file`, `chunk`,
`insert`), and the steps that `syncRequest` makes are guarded by
`Synchronously`, which waits until the job manager is between two runs, as
NodeThreads shows. The other steps interleave with those of the job manager: take the
front job, exchange, copy the torrent out of the map, accept or refuse the
chunk, put the copy back, insert the successor, pop. Whether an exchange
succeeds, and whether a chunk is good, is a choice.

`Holdings` is the abstract specification: a set of chunks for each torrent, to
which a download adds one at a time and a creation all. One thing takes chunks
away: `completeRequest` copies a torrent out of `name2torrent`, works on the copy
and assigns it back, and if the main thread creates a torrent of that name in
between, the creation is undone (`CreateInDownload`, then `Undo`). The refinement
mapping takes `held` to the chunks that the entry of `name2torrent` has, and
`outdated` to the chunks of the copy, while the job manager is about to put back
one that lacks chunks the map has by now. `FollowsHoldings` so says that the
race can lose what a creation of the very name has added, and nothing else: not
a chunk of another torrent, not one of an earlier download, and never
more than once for one creation.

### Exchange

Each node has a client and a server. `link` is the connection of a client
(`pending` until it is accepted), `inbox` what was written and not yet read,
`left` what the server still has to write, `got` what was read; `end` is how
the exchange ended: `short` (a short fragment), `eof`, `reset` (ECONNRESET,
which the client takes for an end), `stale` (a full fragment with a non-zero
`errno`), or `failed`. `stale` has the threads whose `errno` is set; the code
makes an exception for ENOENT, which socket calls do not produce. Libraries that
the main thread calls at the start (the inquiry, the database) may leave it set:
`StaleAtStart`. An answer is
a sequence of full fragments, the last of which may be short; one read is one
fragment. A request fits a fragment and is part of `Connect`. A server that
nobody asks closes its socket after two seconds, and connections it has not
accepted are reset.

A run of the server may end before it has answered, or in the middle
(`EndsService`): the request cannot be read, an exception is caught, or `write`
takes only a part, which the code does not look at. The whole program may end
anywhere and be started again (`ProcessEnds`): by an `SQLException`, which
`serverThread` does not catch, by the `exit(1)` of `extract`, or by the `throw;`
of `BTChannel::close` outside of a handler. `accept` writes the
address of the client over the pointer `remoteAddr`, which is then
dereferenced; that the server goes on and that the program ends are both
outcomes in the model. To the client all of these are the end of the connection:
`link` is `closed` after the whole answer and `cut` before, and `ReadEnd` does the
same for both. A part that is written ends with a whole fragment: a part
that ends inside one would be read as the short fragment that ends an answer.

### TorrentStore

A torrent is named by the uid of its content. `rows` has, for each uid in the
database, a name and the flags of the chunks inserted so far; `package` has the
pieces that are in a file; `torrents` is `name2torrent`. A Torrent has its own
uid and that of its database handle, which only `create` and `open` set: a
received one is inserted under uid 0. `copies` are the other Torrents alive;
each writes its flags when it dies (`Destroy`), at any time and in any order.
`-tc` goes through `BeginPackage`, `FinishPackage`, `InsertRow`, `InsertChunk`
for each chunk, and `RegisterCreated`; `-tr` through `ReceiveTorrent`, the same
insertions, and `OpenReceived`. `Crash` is possible in every state,
`InsertFails` in every insertion, and `FailPackage` when nothing can be
compressed. `BeginPackage` opens the package, which empties it, also when the
torrent was created before and has its rows: `emptied` records the torrents of which
a second `-tc` has emptied the package and not filled it again.

### DBConnection

`handle` is where each Torrent's handle is in its life (`connected` after the
base constructor, `open` after `setSchema`, `updated` after the flags are
written), `con` the shared pointer, `counter` the unsigned counter, which wraps.
Each step is one section under the recursive mutex. Connecting may fail, and
`Lose` takes a good connection away at any time; the first use then throws, or
the next handle reconnects. The main thread reads all rows at the start and
counts itself in for that.

### FirstStart

`next` is the statement of `DatabaseConnector::firstTimeInit` that `--init` is
about to execute, `has` what is in the database: the schema, the three tables,
the account, its rights. `ExecuteStatement` executes one; the two that lock
memory may be skipped, and `EndFirst` ends the program anywhere. The node is
DBConnection; `NodeInitDB` and `NodeReadRows` add what its first steps need of
the database, and `StartNode` starts it again, also beside a first start that
is under way.

### Chunking

A peer creates a package (`Create`, also another one under the same name),
starts again (`TheirsLoad`), and answers a request with a chunk of which any
part may arrive (`Answer`). This node receives the hashes (`Receive`), starts
again (`Load`) and puts what it was answered (`Put`). A byte is a pair of the
content and the place it is from, a hash is the bytes it is made of, so two
hashes are equal only if the bytes are. `wide` is FALSE for a hash that went
through its column of 32 bits. `Offset` wraps around at `OffsetLimit`. The
model permits these calls in any order; the node registers a received torrent at
its next start, with hashes that have been through their columns.

### Packaging

`temp` is the file of that name, `content` what each file holds, also one that
was removed while a thread has it open (`fd`). `package` is what is in each
package. Each of archiving, compressing, decompressing and extracting is a step
that opens its files and one that finishes; opening for writing truncates.
`clean` is FALSE for a thread when another has touched what it has open, and
what it then gets is any of `Outcomes`. `Crash` ends the program anywhere, and
so does `extract` by `exit(1)` (`ExtractMissing`, `ExtractDamaged`) and
`generateChunks` by an exception (`FinishUnhashable`). `alone`, `made`, `last`
and `left` are history for the properties. The files that are given to `-tc`
exist; if they do not, `package` returns at once.

`MCPackage` checks Chunking and Packaging in one run: they share no variable,
and either moves while the other is in its initial states.

### Wire

A text is a sequence of symbols: `Bar`, `Characters`, and one `Numeral[i]` for
each number, of which it is assumed that it is no bar and that two numbers do not
share it. `Stoi` reads the first symbol, as `stoi` reads the digits a text begins
with. `Scan` is the loop of `Utils::tokenize` as a recursive function of what has
been read: `Scanned` adds a character to the last token or ends it;
`Terminated` is the loop of the serializers. A node
asks a peer for the list of its torrents (`Ask`), and then for torrents,
available chunks and chunks under names it has been told (for `-tr` and `-rc`,
any name). `Create` is the factory of the peer and what the packet extracts,
`ProcessRequest` its answer from `library`, `ProcessResponse` what the node
parses. `library` says of each torrent of the peer which chunks it says it has,
and whether `open` succeeds on it (`opens`): of one that does not open, nothing is
answered (`Answers`); one that opens has its chunks twice then (`OpenedChunks`). A
chunk of the index -1 is what the package has at the wrapped offset of -1, if it
is that large (`ReadFrom`). `Tokenize` cuts at the first two bars, so that a name
may be cut into others. The factory reads the number of the type from memory that is not
terminated; a request that ends with it (for the list) may be read as another
number, and is then refused. Serialized torrents and chunk data are opaque.

## What is checked

| Run | Instance | Distinct states | Shows |
|---|---|---|---|
| `worker_thread` | one server, the job manager, at most 2 work items | 7,034 | mutex, pause, close, and liveness of the methods under any sequence of calls |
| `node_threads` | the same, with the scripts of `main` | 12,158 | exclusive synchronous requests, resumption, a clean end, nothing touched after it |
| `download` | 2 torrents, one of them both created and downloaded, 2 chunks, 1 device, 3 commands | 175,405 | bounded jobs, a turn for each, refinement of Holdings, chains that go on, commands that return |
| `exchange` | 2 nodes, answers of 1 and 2 fragments, 2 requests each | 626,798 | a client reads a beginning of its own answer, and the whole of one that a short fragment ends, or that the server has written to its end; requests return |
| `torrent_store` | 1 created and 2 received torrents of 2 chunks, 3 runs of the program | 807,562 | created torrents are durable, and rows claim no missing data, but for what a second `-tc` empties; a node that only receives and does not crash records what it has downloaded |
| `wire` | up to 3 torrents with 6 kinds of names, 2 chunks, torrents that open and that do not | 2,331,331 | which torrent an answer is about, for any name; plain names are listed and served |
| `db_connection` | the first start and 4 handles, a counter of 3 bits | 7,034 | a node that runs has its database; connection and counter follow the handles |
| `packaging` | chunks of 2 bytes, packages of 1, 4, 5 and 7; one torrent to make and one to unpack | 1,682,699 | chunks that are held are genuine; what is packed and unpacked alone is right; `temp` is removed |

Four runs find that the program does not do what its documentation or a comment
says; `PROJECT.json` quotes the lines under "findings".

| Run | Property | What happens |
|---|---|---|
| `download_begins` | `DownloadBegins` | `modify` notifies nobody, so a job that `-td` inserts while the job manager waits is not taken up until some later activate. |
| `owns_what_it_claims` | `OwnsWhatItClaims` | at exit the flags of a created torrent are written to uid 0, the rows of the received one. |
| `genuine_chunk` | `GenuineChunkIsAccepted` | `generateChunks` hashes all bytes of a chunk but the last, `validateChunk` all of them: a chunk that arrives whole is refused. |
| `packages_race` | `PackageHoldsItsFiles` | `-tc` packs while the job manager unpacks; both write `temp`, and the package does not hold its files. |

### Bounds

* *Workers*: one with a predicate and one without; workers share nothing but the
  main thread, so a third adds no new kind of interaction. The proofs are for
  any number. `MaxItems = 2` has the empty list, one job, and a job inserted
  behind another.
* *Download*: two torrents, of which the main thread creates both and downloads
  one, let it work on the name that the job manager downloads, and on another;
  two chunks make a chain with a successor and an end; three
  commands let a second `-td` overlap the first and something follow. Failures,
  refusals and retries are not bounded. One device is enough for the runs: a
  choice among devices is a choice of the same outcome.
* *Exchange*: two nodes are what a cycle of waiting needs. One full fragment,
  and a full one with a short one, are the two ways an answer can end; the empty
  answer looks to the client like one cut before its beginning, and the proof has
  it. With two
  requests, one can follow a failed one, and leftovers would show; the main
  thread of one of the nodes has `errno` set from the start, so that its first
  request can end while the server still writes.
* *TorrentStore*: two chunks have a middle to crash in. Two received torrents
  are needed for the second to meet the rows of the first. `MaxStarts = 3` has a
  run to create in, one to change, and one to see. `MaxCopies = 2` bounds the
  copies alive when a thread makes another.
* *Chunking*: with chunks of 2 bytes and `OffsetLimit = 4`, chunk 2 has the
  offset of chunk 0; the sizes have a single chunk of one byte, a multiple of
  the chunk size (which ends the program of the peer), and last chunks of one
  byte. `MaxContents = 2` has a package made anew. The proof is for any sizes.
* *Packaging*: one name to make, one to unpack, and the made one is unpacked
  too. Two threads have at most two files open besides the one called `temp`:
  three files.
* *Wire*: a bar at the beginning, at the end, inside, and two inside; three torrents
  make a list with a middle. Each may open or not, and have all chunks or none.
* *DBConnection*: four handles among fewer than eight values of the counter;
  the proof needs only that there are fewer handles than the largest value. The
  first start has no bound but its seven statements.

`CHECK_DEADLOCK FALSE` is in the configurations of programs that may stop: after
`-q`, when no more requests or starts are left, or when the process ends.

### Fairness

* *WorkerThread, NodeThreads*: weak fairness of steps that only their thread can
  take; strong fairness of taking a mutex (a thread that asks again and again
  for a mutex that is free again and again gets it: the workers sleep between
  runs, with the mutex unlocked) and of `FinishWork`, that is, a run of the work
  ends. That a server's run does end is what Exchange checks.
* *Download*: the job manager runs, and the main thread goes on (its synchronous
  steps wait for the mutex, as above). Of devices nothing is assumed: every
  exchange may fail and every chunk be refused for ever, and still every job
  has its turn and every command returns. That a download ends is therefore not
  claimed.
* *Exchange*: clients and servers run on; `accept` returns in two seconds
  (SO_RCVTIMEO); pausing gets the mutex of a server that lets go of it again
  and again.

`DownloadBegins` is violated under `NodeFairness`, so the counterexample is a
run in which every thread is scheduled.

## What is proved

TLAPS proves, for every value of the constants that satisfies the assumptions
of the modules:

* **WorkerThread**: `TypeOK`, `MutexOwned`, `PausedIsQuiet`, `ClosedIsDone`. The
  inductive invariant `Inv` is their conjunction with `CallInProgress` (the main
  thread calls nothing on an object it has closed) and `RoomIsKept` (a `modify`
  that has the mutex still has the room it found). `PausedIsQuiet` depends on
  `MutexOwned`: `Pause` sets the status with the mutex, and a working thread
  would hold it.
* **NodeThreads**: `SyncRequestExclusive`, `SyncRequestResumes`,
  `QuitLeavesNoThread`, and `ClosedIsLeftAlone`. `NodeInv` adds to `Inv` how far
  the loop of a phase has come: the objects outside `todo` have the status of
  the phase, but for the call under way; and that an object is closed only in
  the loop of `-q`, and no longer in `todo` (`ClosedOnce`). From this the lemma
  `CallsAreAllowed` gets that every `Invoke` of a script is a `Call` of
  WorkerThread, so that the lemmas about that one can be used.
* **Download**: `TypeOK`, `JobsWithinCommands` and `ChainContinues` for any
  torrents, devices, chunks. `JobsInv`
  counts the list: a command that is not over has not inserted its job, and
  `retryRequest` replaces a job by at most one. `RestTypes` adds the types of
  what is not in it; both say that every job is of a torrent that a command
  has named, which is why the job manager registers no other.
  `ChainContinues` needs `FrontIsCarried`: the job manager pops the front, not
  the job it has carried out, so the two must be the same, whatever
  the main thread has appended meanwhile. `ImplementsHoldings` says that
  every step is one of Holdings or leaves what is held alone, also when a name is
  both created and downloaded. It rests on `CopyIsNear`: the copy about to be put
  back has what the torrent in the map has, and at most one chunk more, unless
  that torrent has been created meanwhile.
* **Exchange**: `TypeOK`, `ReadsItsAnswer` and `WholeUnlessBroken` for any nodes,
  any answers and any number of requests. `ExchangeInv` says of each client that
  what it has read, followed by what is under way to it, is the beginning of its
  answer (`ClientAnswers`), that the rest is what the server still has to write
  (`ServerAnswers`), and that the server and the client agree on whom they are
  connected to (`ClientLinks`, `ServerLinks`): otherwise a server could write
  to the next request of a client, or two servers to one. The lemma
  `ShortIsLast` ties the end of an answer to its data: only the last fragment is
  short. Servers and programs that end anywhere are among the steps: the lemma
  `ReleasedLinks` says what becomes of their connections, and that one is
  `closed` only when its client has, or is about to read, the whole answer.
* **TorrentStore**: `TypeOK` for any torrents and number of pieces;
  `RowsHaveData` for any of them: `PackagesFilled` says that a package is filled before
  its rows are inserted, and stays so until a later `-tc` opens it (`emptied`).
  `CreatedIsDurable` and `ProgressIsKept` are under the hypothesis
  that no torrent is both created and received (`ReceivesOthers`). The
  hypothesis is needed, TLC finds both violated without it: a torrent
  that was created here and is received again is opened with its chunks twice,
  and may have its package from a `-tc` whose rows could not be inserted. `OwnInv`
  says what all copies alive will write when they die: one with the uid of a
  created torrent says that all chunks are there, so the order of the deaths does
  not matter. `ProgressInv` follows the one received torrent: the chunks in
  `name2torrent` agree with the package at any time, the flags of its rows only
  when no Torrent of it is alive, or when the last ones that will die have the
  chunks of `name2torrent`. Until then a stale copy may have set the flags back,
  which is why `ProgressIsKept` does not hold of programs that crash.
* **DBConnection, FirstStart**: `CounterIsExact` and `ConnectedWhileAlive` for any
  finite set of handles smaller than the counter's range, of the connection
  alone and of programs that are started again on a database that is being
  made. `Inv` adds that there is no handle before the start is over, and that
  the connection follows the counter. The lemmas `Joins` and `Leaves` say how
  the number of living handles changes. `RunningHasTables` rests on the order of
  the statements: what the account may do is granted after everything is there.
* **Chunking**: `HeldIsGenuine` for any size of chunks, packages and offsets.
  `Inv` adds that the hashes of a torrent, whole or cut to their columns, are
  those of the parts of its content (`HashesFit`), and that what was answered is
  a part of some package at the offset of the request (`AnswerIsRead`). The
  lemma `AcceptedIsGenuine` is the heart of it: if a chunk that was read at a
  wrapped offset has the right hash, its first byte would be in two places.

* **Packaging**: `PackagedAlone`, `UnpackedAlone` and `TempIsRemoved` for any
  names. A thread is alone if it has found the other idle and the other has not
  begun since. `PackagingAlone` and `UnpackingAlone` say how far the work of
  such a thread has come: the file it has open is the one called `temp`, nobody else
  has touched it, and after a step that finishes, it holds what it should. A
  `temp` that a crash has left behind is truncated before it is used.
* **Wire**: `TypeOK`, `ListArrives`, `AnswerFits` and `RequestIsAnswered` for any
  names, with bars anywhere, any characters and numerals, any number of torrents
  and any order in which the peer lists them. `WireInv` follows a request on its
  way: the text is that of the request (`RequestFits`), the factory takes it for
  its kind or for a bad one, and reads its name and index (`ReadingFits`), the text
  that comes back is the peer's answer to what it has read (`AnswerIsOwn`). That
  needs `NamesAreWhole`: a name that a node has been told is a token, and no token
  has two bars in a row. One may still end with a bar; the separator
  after it then begins a place early, which leaves a bar before the index. A bar
  is no numeral, so the peer reads the name without the bar and the index -1. A
  name that is typed may have two bars: the peer reads what is before them
  (`Heard`; the lemma `HeardIs` says that this part is whole and does not end with
  a bar). `AnswerFits` says which torrents an answer may so be about, and
  `RequestIsAnswered` is about plain names and torrents that open. The lemmas `ListReadBack` and `AvailReadBack`
  say that what is serialized is parsed to the same; `KindReadBack`, `NameReadBack`
  and `ChunkReadBack` say what the factory and the packets read of a request.
  They rest on what is scanned of a text that goes on with a field (`ScanWhole`),
  a separator (`ScanSep`), or a separator after a bar (`ScanSepLate`), proved along
  the length of the text by `Induction`, which is stated over a set of
  numbers (`LeastOf`, a least counterexample) and takes no operator.
* **Chunking and Packaging together** (`MCPackage`): `TypeOK`, because either moves
  while the other is in its initial states.

The assumptions are the `ASSUME`s of the modules; TLC evaluates each of them.
TLC has checked each inductive invariant on the instance of its run before it
was proved: `ExchangeInv` on 626,798 states, `StoreInv` on 807,562, `PackInv` on
1,654,619, `RestTypes` and `FrontIsCarried` on 175,405, `WireInv` on 2,331,331.

Only model-checked is liveness (`CallsReturn`, `ActivateStartsWork`,
`RequestReturns`, `QuitTerminates`, `EveryJobHasItsTurn`, `CommandsReturn`,
`RequestEnds`): the prover does not do fairness and ENABLED.

## What is not modelled

* Discovery: `findLocalDevs`, `scanForDevs` and the inquiry of BTDevice copy what
  the Bluetooth stack returns, before a thread starts or in the main thread
  alone. The devices are a constant.
* `deprecated/`, which the makefile does not build.
* The formats of archives, of compression, of serialized torrents and of SQL.
* In Download and TorrentStore whether a chunk is good is a choice; Chunking says
  when it is. A 64-bit hash whose upper half is zero survives its column; the
  model does not have this one in 2^32.
* Two contents under one name in TorrentStore (Chunking has them). Rows of files
  are written once and read back.
* `updateChunks` is one step of TorrentStore, though it makes a statement per
  chunk; a crash between them leaves some flags of one Torrent, each of which
  one of its copies may also have written.
* Packaging does not have the data files that chunks are written to: the package
  of a download is there, or damaged, from the start.
* Statements of the database other than those of FirstStart, `setSchema` and
  `updateChunks` are part of the steps around them in DBConnection.
* Sizes of socket addresses and channels: whether `connect` succeeds is a
  choice. An accepted socket has no timeout; a node that connects and falls
  silent for ever is a link that breaks.
* Exceptions that end the process are crashes of TorrentStore and `ProcessEnds` of
  Exchange; the steps of a signal are not looked into.
* Parts of an answer that end inside a fragment of 1008 bytes (a `write` that takes
  only a part, or a radio packet that is read before the next): Exchange has parts of
  whole fragments.

Some behaviour is in the models though no run is about it: an `errno` left over
from an earlier failure ends an answer after its first full fragment; asking for a chunk of
a torrent whose file never became known leaves an empty entry in
`name2torrent`; a received torrent is registered only at the next start; `-tr`
of a torrent that was created here doubles its chunks in memory; a crash between
two insertions leaves a torrent that is complete with a part of its chunks; the
empty list of names is parsed as one empty name.

Some cases are in the models too, and the properties name them as exceptions,
because the code does this and no document promises otherwise:

* A second `-td` clears `torName2dev` while the job manager looks for a device in
  it, and the first download stops: `ChainContinues` permits that, and no other
  end.
* A creation of the very name that is being downloaded may be undone:
  `FollowsHoldings` permits that, and no other loss.
* A second `-tc` of the same files empties the package first. While it runs, and
  for ever if it fails or is cut off, the rows, and the torrent in memory, claim
  chunks that are gone: `CreatedIsDurable`, `RowsHaveData` and `OwnsWhatItClaims`
  except the torrents in `emptied`, and say that nothing else has this effect.
* A client that connects after the `accept` of a server has timed out is reset,
  and takes what it has read, nothing, for a whole answer. So does the client of
  a server that ends its run or its program before the answer; in the middle of
  it, the client takes the whole fragments there are. `WholeUnlessBroken` claims
  an answer that ends with the connection, or a reset, only when the server has
  written all of it.
* `-tr x||y`, and `-rc` in the same way, asks for the torrent `x`: the peer cuts the
  name at the bars, and answers about `x`; if the torrent opens, the node keeps
  it under the name `x||y` that was typed (node.cpp:161-169, 942-948).
* A torrent that was received is in the list of a node after its next start, and
  every request about it is answered with nothing: it is loaded with the uid 0,
  under which it has been inserted, and does not open (node.cpp:267, 278, 288).
  `RequestIsAnswered` speaks of torrents that open.
* `open` appends the chunks of the rows to those that a torrent has, so the list
  of available chunks has each of them twice; the properties speak of the set.
* A chunk that is asked for by a name that ends with a bar may be answered with what
  the torrent without the bar has at the offset of the index -1, which is
  2^32 - 32768. The hash refuses it.

## State and outlook

Every component but discovery and `deprecated/` is modelled. Every invariant
and every action property of a run that passes, the refinement of `Holdings`
included, are theorems for all values of the constants, two of TorrentStore
under the hypothesis named above; liveness is model-checked. What would extend this:

1. The rows of files and two contents under one name in TorrentStore, the part
   of that component that is left out.
2. Download with the chunks of Chunking in place of a choice of good and bad
   ones, which would show a download of several chunks stop at every chunk that
   arrives whole.
3. The texts of Wire as the answers of Exchange.
