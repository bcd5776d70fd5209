------------------------------ MODULE Download ------------------------------
(***************************************************************************)
(* How a node downloads (node.cpp): the main thread asks the nearby        *)
(* devices what they have and queues a request for one chunk; the job      *)
(* manager carries out the front job, queues a request for the next        *)
(* missing chunk and pops the front, until the torrent is complete.        *)
(*                                                                         *)
(* Both threads use name2torrent and torName2dev without a lock.  The list *)
(* of jobs is safe: the job manager holds its mutex for a whole run of its *)
(* work, so insertJob waits until it is "idle" or "waiting", and so does   *)
(* the pause that begins every synchronous request (NodeThreads).          *)
(***************************************************************************)
EXTENDS Naturals, Sequences, FiniteSets

CONSTANTS Torrents,     \* torrent names
          Chunks,       \* chunk indexes of a torrent
          Devices,      \* remote devices found by the scan (remote2local)
          NoChunk,      \* the index -1: no chunk is missing
          NoJob,        \* stands for no request
          Created,      \* the names the user gives to -tc
          Downloaded,   \* and to -td and -rc
          MaxCommands   \* bound on the commands of the user

ASSUME NoChunkAssumption == NoChunk \notin Chunks
ASSUME NamesAssumption == Created \union Downloaded \subseteq Torrents
ASSUME MaxCommandsAssumption == MaxCommands \in Nat

VARIABLES dev2tor,      \* what each device has answered it shares
          torName2dev,  \* dev2tor with keys and values swapped
          name2torrent, \* the torrents of this node
          jobs,         \* the list of the job manager
          pc,           \* where the main thread is
          name,         \* the torrent name in its command
          todo,         \* the devices it still has to ask
          pending,      \* the job it is about to insert
          commands,     \* how many commands it has read
          jm,           \* where the job manager is
          cur,          \* the front job it is carrying out
          tor,          \* its copy of the torrent of that job
          unpackaged    \* the torrents it has unpacked

known == <<dev2tor, torName2dev>>
main == <<pc, name, todo, pending, commands>>
manager == <<jm, cur, tor, unpackaged>>
vars == <<known, name2torrent, jobs, main, manager>>

Torrent == [chunks : SUBSET Chunks, have : SUBSET Chunks]
Job == [kind : {"avail", "chunk"}, name : Torrents, dev : Devices,
        index : Chunks \union {NoChunk}]

\* A default-constructed Torrent: what operator[] of the map inserts.
NoTorrent == [chunks |-> {}, have |-> {}]
Whole == [chunks |-> Chunks, have |-> Chunks]

IsComplete(t) == t.chunks # {} /\ t.have = t.chunks
Missing(t) == t.chunks \ t.have

TypeOK ==
  /\ DOMAIN dev2tor \subseteq Devices
  /\ \A d \in DOMAIN dev2tor : dev2tor[d] \subseteq Torrents
  /\ torName2dev \in [Torrents -> SUBSET Devices]
  /\ DOMAIN name2torrent \subseteq Torrents
  /\ \A n \in DOMAIN name2torrent : name2torrent[n] \in Torrent
  /\ jobs \in Seq(Job)
  /\ pc \in {"prompt", "list", "ask", "clear", "swap", "avail", "file", "chunk",
             "insert"}
  /\ name \in Torrents
  /\ todo \subseteq Devices
  /\ pending \in Job \union {NoJob}
  /\ commands \in 0..MaxCommands
  /\ jm \in {"idle", "waiting", "exchange", "retry", "copy", "store", "next"}
  /\ cur \in Job \union {NoJob}
  /\ tor \in Torrent
  /\ unpackaged \subseteq Torrents

\* The node has started: its torrents are those of the database, created here
\* and so whole, or received in an earlier run and perhaps partial.
Init ==
  /\ dev2tor = << >>
  /\ torName2dev = [n \in Torrents |-> {}]
  /\ \E N \in SUBSET Torrents :
       name2torrent \in [N -> [chunks : {Chunks}, have : SUBSET Chunks]]
  /\ jobs = << >>
  /\ pc = "prompt"
  /\ name \in Torrents
  /\ todo = {}
  /\ pending = NoJob
  /\ commands = 0
  /\ jm = "idle"
  /\ cur = NoJob
  /\ tor = NoTorrent
  /\ unpackaged = {}

-----------------------------------------------------------------------------
(* Shared helpers. *)

Entry(n) == IF n \in DOMAIN name2torrent THEN name2torrent[n] ELSE NoTorrent

\* name2torrent[n] = t
SetEntry(n, t) ==
  name2torrent' = [x \in DOMAIN name2torrent \union {n} |->
                     IF x = n THEN t ELSE name2torrent[x]]

\* getMissingChunkIndex: some missing chunk, or -1.
MissingIndexes(n) ==
  IF Missing(Entry(n)) = {} THEN {NoChunk} ELSE Missing(Entry(n))

\* requestChunk: a request for a missing chunk to a device that shares the
\* torrent; none when no such device is known.
ChunkJobs(n) ==
  {[kind |-> "chunk", name |-> n, dev |-> d, index |-> i] :
     d \in torName2dev[n], i \in MissingIndexes(n)}

AvailJobs(n, devs) ==
  {[kind |-> "avail", name |-> n, dev |-> d, index |-> NoChunk] : d \in devs}

\* The job manager is outside its work, so its mutex can be taken.
MutexFree == jm \in {"idle", "waiting"}

\* A synchronous request: the job manager is paused before, activated after.
Synchronously == MutexFree /\ jm' = "idle"

-----------------------------------------------------------------------------
(* The main thread. *)

Command(n) ==
  /\ pc = "prompt"
  /\ commands < MaxCommands
  /\ commands' = commands + 1
  /\ name' = n

\* -lnt, with some addresses or none.
ListCommand ==
  /\ Command(name)
  /\ todo' \in SUBSET Devices \ {{}}
  /\ pc' = "list"
  /\ UNCHANGED <<known, name2torrent, jobs, pending, manager>>

\* -rc, a request for the chunks a device has, carried out as a job.
AvailCommand(n) ==
  /\ Command(n)
  /\ pending' \in AvailJobs(n, Devices)
  /\ pc' = "insert"
  /\ UNCHANGED <<known, name2torrent, jobs, todo, manager>>

\* -tc: the package is made, hashed and stored, and the torrent is registered.
CreateTorrent(n) ==
  /\ Command(n)
  /\ SetEntry(n, Whole)
  /\ UNCHANGED <<known, jobs, pc, todo, pending, manager>>

\* -td asks every device for its list first if no one is known to have n.
DownloadCommand(n) ==
  /\ Command(n)
  /\ IF DOMAIN dev2tor = {} \/ torName2dev[n] = {}
       THEN pc' = "ask" /\ todo' = Devices
       ELSE pc' = "clear" /\ todo' = {}
  /\ UNCHANGED <<known, name2torrent, jobs, pending, manager>>

\* A torrent list request: the answer replaces what the device said before.
\* An error, or an empty list from a reset connection, is possible.
AskList(d) ==
  /\ pc \in {"list", "ask"}
  /\ d \in todo
  /\ Synchronously
  /\ \/ \E names \in SUBSET Torrents :
          dev2tor' = [e \in DOMAIN dev2tor \union {d} |->
                        IF e = d THEN names ELSE dev2tor[e]]
     \/ UNCHANGED dev2tor
  /\ todo' = todo \ {d}
  /\ UNCHANGED <<torName2dev, name2torrent, jobs, pc, name, pending, commands,
                 cur, tor, unpackaged>>

AskedAll ==
  /\ pc \in {"list", "ask"}
  /\ todo = {}
  /\ pc' = IF pc = "list" THEN "prompt" ELSE "clear"
  /\ UNCHANGED <<known, name2torrent, jobs, name, todo, pending, commands,
                 manager>>

\* torName2dev.clear(), with the job manager running ...
ClearMap ==
  /\ pc = "clear"
  /\ torName2dev' = [n \in Torrents |-> {}]
  /\ pc' = "swap"
  /\ UNCHANGED <<dev2tor, name2torrent, jobs, name, todo, pending, commands,
                 manager>>

\* ... then swapKeyVal, and a look at who has the torrent.
SwapMap ==
  /\ pc = "swap"
  /\ torName2dev' = [n \in Torrents |->
                       {d \in DOMAIN dev2tor : n \in dev2tor[d]}]
  /\ todo' = torName2dev'[name]
  /\ pc' = IF todo' = {} THEN "prompt" ELSE "avail"
  /\ UNCHANGED <<dev2tor, name2torrent, jobs, name, pending, commands, manager>>

\* One availability request per device; the first that fails ends the command.
AskAvail(d) ==
  /\ pc = "avail"
  /\ d \in todo
  /\ Synchronously
  /\ todo' = todo \ {d}
  /\ \/ pc' = IF todo' = {} THEN "file" ELSE "avail"
     \/ pc' = "prompt"
  /\ UNCHANGED <<known, name2torrent, jobs, name, pending, commands, cur, tor,
                 unpackaged>>

\* requestTorrentFileIfMissing.  The file of an unknown torrent is stored but
\* not registered (TorrentStore), and the command goes on all the same.
HaveFile ==
  /\ pc = "file"
  /\ name \in DOMAIN name2torrent
  /\ pc' = "chunk"
  /\ UNCHANGED <<known, name2torrent, jobs, name, todo, pending, commands,
                 manager>>

AskFile ==
  /\ pc = "file"
  /\ name \notin DOMAIN name2torrent
  /\ Synchronously
  /\ pc' \in {"chunk", "prompt"}
  /\ UNCHANGED <<known, name2torrent, jobs, name, todo, pending, commands, cur,
                 tor, unpackaged>>

RequestChunk ==
  /\ pc = "chunk"
  /\ \/ ChunkJobs(name) = {} /\ pc' = "prompt" /\ UNCHANGED pending
     \/ pending' \in ChunkJobs(name) /\ pc' = "insert"
  /\ UNCHANGED <<known, name2torrent, jobs, name, todo, commands, manager>>

\* modify on the job manager: under its mutex, and without a notification.
InsertJob ==
  /\ pc = "insert"
  /\ MutexFree
  /\ jobs' = Append(jobs, pending)
  /\ pending' = NoJob
  /\ pc' = "prompt"
  /\ UNCHANGED <<known, name2torrent, name, todo, commands, manager>>

-----------------------------------------------------------------------------
(* The job manager. *)

\* The predicate of its wait: the list of jobs is not empty.
Wait ==
  /\ jm = "idle"
  /\ jobs = << >>
  /\ jm' = "waiting"
  /\ UNCHANGED <<known, name2torrent, jobs, main, cur, tor, unpackaged>>

SpuriousWakeup ==
  /\ jm = "waiting"
  /\ jm' = "idle"
  /\ UNCHANGED <<known, name2torrent, jobs, main, cur, tor, unpackaged>>

Take ==
  /\ jm = "idle"
  /\ jobs # << >>
  /\ cur' = Head(jobs)
  /\ jm' = "exchange"
  /\ UNCHANGED <<known, name2torrent, jobs, main, tor, unpackaged>>

\* carryOutRequest returns: what an availability request answers goes into
\* torName2Avail, which nothing reads.
ExchangeSucceeds ==
  /\ jm = "exchange"
  /\ IF cur.kind = "chunk"
       THEN jm' = "copy" /\ UNCHANGED jobs
       ELSE jm' = "idle" /\ jobs' = Tail(jobs)
  /\ UNCHANGED <<known, name2torrent, main, cur, tor, unpackaged>>

ExchangeFails ==
  /\ jm = "exchange"
  /\ jm' = "retry"
  /\ UNCHANGED <<known, name2torrent, jobs, main, cur, tor, unpackaged>>

\* retryRequest: the same question to some device that shares the torrent by
\* now, for any missing chunk; the failed job is popped.
RetryJobs ==
  IF cur.kind = "chunk" THEN ChunkJobs(cur.name)
                        ELSE AvailJobs(cur.name, torName2dev[cur.name])

\* Slip: the finished job stays in the list.
ReplaceWithoutPop(requests) ==
  IF requests = {} THEN jobs' = Tail(jobs)
                   ELSE \E j \in requests : jobs' = Append(jobs, j)

\* Slip: the new job is put where the old one was.
ReplaceInFront(requests) ==
  IF requests = {} THEN jobs' = Tail(jobs)
                   ELSE \E j \in requests : jobs' = <<j>> \o Tail(jobs)

\* jobs.push_back of one of the requests, if there is any, then pop_front.
Replace(requests) ==
  IF requests = {} THEN jobs' = Tail(jobs)
                   ELSE \E j \in requests : jobs' = Append(Tail(jobs), j)

\* Slip: a failed request is forgotten.
RetryNothing ==
  /\ jm = "retry"
  /\ jobs' = Tail(jobs)
  /\ jm' = "idle"
  /\ UNCHANGED <<known, name2torrent, main, cur, tor, unpackaged>>

Retry ==
  /\ jm = "retry"
  /\ Replace(RetryJobs)
  /\ jm' = "idle"
  /\ UNCHANGED <<known, name2torrent, main, cur, tor, unpackaged>>

\* Slip: a new torrent of that name is made up instead of copied.
CopyFresh(have) ==
  /\ jm = "copy"
  /\ tor' = [chunks |-> Chunks, have |-> have]
  /\ SetEntry(cur.name, Entry(cur.name))
  /\ jm' = "store"
  /\ UNCHANGED <<known, jobs, main, cur, unpackaged>>

\* completeRequest(ChunkReq): a copy of the map's torrent, default-constructed
\* there if missing; putChunk marks the chunk if its hash is right ...
CopyTorrent(have) ==
  /\ jm = "copy"
  /\ tor' = [Entry(cur.name) EXCEPT !.have = @ \union have]
  /\ SetEntry(cur.name, Entry(cur.name))
  /\ jm' = "store"
  /\ UNCHANGED <<known, jobs, main, cur, unpackaged>>

\* Slip: the index is not checked against the number of chunks.
AcceptAnyChunk == jm = "copy" /\ CopyTorrent({cur.index})

AcceptChunk ==
  /\ jm = "copy"
  /\ cur.index \in Entry(cur.name).chunks
  /\ CopyTorrent({cur.index})

RefuseChunk == CopyTorrent({})

\* ... and the copy goes back into the map.
Store ==
  /\ jm = "store"
  /\ SetEntry(cur.name, tor)
  /\ jm' = "next"
  /\ UNCHANGED <<known, jobs, main, cur, tor, unpackaged>>

\* Slip: the list is worked off without ever giving up the mutex.
ProceedDraining ==
  /\ jm = "next"
  /\ IF IsComplete(Entry(cur.name))
       THEN jobs' = Tail(jobs) /\ unpackaged' = unpackaged \union {cur.name}
       ELSE Replace(ChunkJobs(cur.name)) /\ UNCHANGED unpackaged
  /\ jm' = IF jobs' = << >> THEN "idle" ELSE "exchange"
  /\ cur' = IF jobs' = << >> THEN cur ELSE Head(jobs')
  /\ UNCHANGED <<known, name2torrent, main, tor>>

\* The next chunk, or the end of the download; then the job is popped.
Proceed ==
  /\ jm = "next"
  /\ IF IsComplete(Entry(cur.name))
       THEN jobs' = Tail(jobs) /\ unpackaged' = unpackaged \union {cur.name}
       ELSE Replace(ChunkJobs(cur.name)) /\ UNCHANGED unpackaged
  /\ jm' = "idle"
  /\ UNCHANGED <<known, name2torrent, main, cur, tor>>

-----------------------------------------------------------------------------
Commands ==
  \/ ListCommand
  \/ \E n \in Downloaded : DownloadCommand(n) \/ AvailCommand(n)
  \/ \E n \in Created : CreateTorrent(n)

MainStep ==
  \/ \E d \in Devices : AskList(d) \/ AskAvail(d)
  \/ AskedAll \/ ClearMap \/ SwapMap \/ HaveFile \/ AskFile
  \/ RequestChunk \/ InsertJob

ManagerStep ==
  \/ Wait \/ Take \/ ExchangeSucceeds \/ ExchangeFails \/ Retry
  \/ AcceptChunk \/ RefuseChunk \/ Store \/ Proceed

Next == Commands \/ MainStep \/ ManagerStep \/ SpuriousWakeup

\* Both threads run, and the main thread gets the mutex in the end although
\* the job manager takes it again and again.  Of what the devices answer
\* nothing is assumed.
Fairness == SF_vars(MainStep) /\ WF_vars(ManagerStep)

Spec == Init /\ [][Next]_vars /\ Fairness

-----------------------------------------------------------------------------
(* Properties. *)

ChunkJobFor(n) == \E i \in DOMAIN jobs : jobs[i].kind = "chunk" /\ jobs[i].name = n

\* However often a request is retried, the list never holds more jobs than
\* the user has given commands: a job is replaced by at most one other
\* (node.cpp, jobManagerThread and retryRequest).
JobsWithinCommands == Len(jobs) <= commands

\* The job manager is about to put a copy of n back into the map that lacks
\* chunks the map has by now.
Overtaken(n) ==
  jm = "store" /\ cur.name = n /\ ~(Entry(n).have \subseteq tor.have)

\* What the node holds of its torrents changes as Holdings says, although two
\* threads copy torrents out of name2torrent and assign them back without a
\* lock (node.cpp, completeRequest and createTorrent): a download adds a chunk
\* at a time and a creation all, and none is lost but to a download of the very
\* name that is created between its copy and its assignment.
H == INSTANCE Holdings
       WITH held <- [n \in Torrents |-> Entry(n).have],
            outdated <- [n \in {x \in Torrents : Overtaken(x)} |-> tor.have]
FollowsHoldings == H!Spec

\* A download stops only when the torrent is complete or torName2dev names no
\* device that shares it (node.cpp, jobManagerThread and requestChunk).
ChainContinues ==
  [][\A n \in Torrents :
       ChunkJobFor(n) /\ ~ChunkJobFor(n)' =>
         IsComplete(Entry(n)) \/ torName2dev[n] = {}]_vars

\* Job i is of that kind and torrent, and the manager is not at work on it.
WaitsFor(i, kind, n) ==
  /\ i \in DOMAIN jobs
  /\ jobs[i].kind = kind /\ jobs[i].name = n
  /\ i > 1 \/ jm = "idle"

\* A job that the manager has not gone to sleep over has its turn, however
\* often the jobs before it fail and are asked again: no request starves the
\* others (node.cpp, jobManagerThread and retryRequest).
EveryJobHasItsTurn ==
  \A kind \in {"avail", "chunk"}, n \in Torrents :
    (jm # "waiting" /\ \E i \in 1..MaxCommands : WaitsFor(i, kind, n))
      ~> (jm = "exchange" /\ cur.kind = kind /\ cur.name = n)

\* Every command returns to the prompt, whatever the job manager does.
CommandsReturn == pc # "prompt" ~> pc = "prompt"
=============================================================================
