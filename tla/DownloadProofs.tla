--------------------------- MODULE DownloadProofs ---------------------------
(* What Download guarantees for any torrents, chunks, devices and number of *)
(* commands.                                                                *)
EXTENDS Download, TLAPS

\* The positions in which the job manager is carrying out the front job, and
\* those in which the main thread has read a command but not yet queued a job
\* for it.
Carrying == {"exchange", "retry", "copy", "store", "next"}
Asking == {"list", "ask", "clear", "swap", "avail", "file", "chunk", "insert"}

\* The jobs the commands of the user lead to.
Wanted == {j \in Job : j.name \in Downloaded}

\* A command that is not over has not queued its job yet, and the job being
\* carried out is in the list.
JobsInv ==
  /\ jobs \in Seq(Wanted)
  /\ jm \in Carrying \union {"idle", "waiting"}
  /\ pc \in Asking \union {"prompt"}
  /\ commands \in Nat
  /\ name \in Torrents
  /\ pc \in Asking \ {"list", "insert"} => name \in Downloaded
  /\ torName2dev \in [Torrents -> SUBSET Devices]
  /\ \A n \in DOMAIN name2torrent : name2torrent[n] \in Torrent
  /\ tor \in Torrent
  /\ cur \in Wanted \union {NoJob}
  /\ jm \in Carrying => cur \in Wanted /\ jobs # << >>
  /\ todo \subseteq Devices
  /\ \A d \in DOMAIN dev2tor : d \in Devices
  /\ pc = "insert" => pending \in Wanted
  /\ Len(jobs) + (IF pc \in Asking THEN 1 ELSE 0) <= commands

\* What requestChunk and retryRequest put in the list are jobs.
LEMMA RequestsAreJobs ==
  ASSUME JobsInv
  PROVE  /\ \A n \in Downloaded : ChunkJobs(n) \subseteq Wanted
         /\ jm \in Carrying => RetryJobs \subseteq Wanted
<1> USE DEF JobsInv
<1>1. ASSUME NEW n \in Downloaded
      PROVE  ChunkJobs(n) \subseteq Wanted
  <2>1. Entry(n) \in Torrent
    BY DEF Entry, Torrent, NoTorrent
  <2>2. MissingIndexes(n) \subseteq Chunks \union {NoChunk}
    BY <2>1 DEF MissingIndexes, Missing, Torrent
  <2> QED
    BY <2>2, NamesAssumption DEF ChunkJobs, Wanted, Job
<1>2. ASSUME jm \in Carrying
      PROVE  RetryJobs \subseteq Wanted
  <2>1. cur.name \in Downloaded
    BY <1>2 DEF Wanted
  <2>2. AvailJobs(cur.name, torName2dev[cur.name]) \subseteq Wanted
    BY <2>1, NamesAssumption DEF AvailJobs, Wanted, Job
  <2> QED
    BY <1>1, <2>1, <2>2 DEF RetryJobs
<1> QED
  BY <1>1, <1>2

\* A job that is replaced leaves the list no longer than it was.
LEMMA ReplaceKeepsLength ==
  ASSUME NEW requests, requests \subseteq Wanted,
         jobs \in Seq(Wanted), jobs # << >>, Replace(requests)
  PROVE  jobs' \in Seq(Wanted) /\ Len(jobs') <= Len(jobs)
<1>1. Tail(jobs) \in Seq(Wanted) /\ Len(Tail(jobs)) = Len(jobs) - 1
  OBVIOUS
<1>2. CASE requests = {}
  BY <1>1, <1>2 DEF Replace
<1>3. CASE requests # {}
  <2>1. PICK j \in requests : jobs' = Append(Tail(jobs), j)
    BY <1>3 DEF Replace
  <2>2. j \in Wanted
    BY <2>1
  <2> QED
    BY <1>1, <2>1, <2>2
<1> QED
  BY <1>2, <1>3

\* Storing a torrent under a name keeps every entry a torrent.
LEMMA SetEntryKeepsTorrents ==
  ASSUME NEW n, NEW t \in Torrent,
         \A x \in DOMAIN name2torrent : name2torrent[x] \in Torrent,
         SetEntry(n, t)
  PROVE  \A x \in DOMAIN name2torrent' : name2torrent'[x] \in Torrent
BY DEF SetEntry

LEMMA InitJobsInv == Init => JobsInv
<1> SUFFICES ASSUME Init PROVE JobsInv
  OBVIOUS
<1>1. \A n \in DOMAIN name2torrent : name2torrent[n] \in Torrent
  BY DEF Init, Torrent
<1>2. jobs \in Seq(Wanted) /\ Len(jobs) = 0
  BY DEF Init
<1>3. NoTorrent \in Torrent
  BY DEF NoTorrent, Torrent
<1> QED
  BY <1>1, <1>2, <1>3 DEF Init, JobsInv, Carrying, Asking

\* A command counts for the one job it may queue.
LEMMA CommandsKeepJobsInv ==
  ASSUME JobsInv, Commands
  PROVE  JobsInv'
<1> USE DEF JobsInv, Command, Carrying, Asking, known, main, manager
<1>1. CASE ListCommand
  BY <1>1 DEF ListCommand
<1>2. ASSUME NEW n \in Downloaded, DownloadCommand(n)
      PROVE  JobsInv'
  BY <1>2, NamesAssumption DEF DownloadCommand
<1>3. ASSUME NEW n \in Downloaded, AvailCommand(n)
      PROVE  JobsInv'
  <2>1. AvailJobs(n, Devices) \subseteq Wanted
    BY NamesAssumption DEF AvailJobs, Wanted, Job
  <2> QED
    BY <1>3, <2>1, NamesAssumption DEF AvailCommand
<1>4. ASSUME NEW n \in Created, CreateTorrent(n)
      PROVE  JobsInv'
  <2>1. Whole \in Torrent
    BY DEF Whole, Torrent
  <2>2. \A x \in DOMAIN name2torrent' : name2torrent'[x] \in Torrent
    BY <1>4, <2>1, SetEntryKeepsTorrents DEF CreateTorrent
  <2> QED
    BY <1>4, <2>2, NamesAssumption DEF CreateTorrent
<1> QED
  BY <1>1, <1>2, <1>3, <1>4 DEF Commands

\* Until its insertion a command adds nothing to the list.
LEMMA MainKeepsJobsInv ==
  ASSUME JobsInv, MainStep
  PROVE  JobsInv'
<1> USE DEF JobsInv, Synchronously, MutexFree, Carrying, Asking, known, main,
            manager
<1>1. ASSUME NEW d \in Devices, AskList(d)
      PROVE  JobsInv'
  BY <1>1 DEF AskList
<1>2. ASSUME NEW d \in Devices, AskAvail(d)
      PROVE  JobsInv'
  BY <1>2 DEF AskAvail
<1>3. CASE AskedAll
  BY <1>3 DEF AskedAll
<1>4. CASE ClearMap
  BY <1>4 DEF ClearMap
<1>5. CASE SwapMap
  BY <1>5 DEF SwapMap
<1>6. CASE HaveFile
  BY <1>6 DEF HaveFile
<1>7. CASE AskFile
  BY <1>7 DEF AskFile
<1>8. CASE RequestChunk
  <2>1. ChunkJobs(name) \subseteq Wanted
    BY <1>8, RequestsAreJobs DEF RequestChunk
  <2> QED
    BY <1>8, <2>1 DEF RequestChunk
<1>9. CASE InsertJob
  <2>1. jobs' \in Seq(Wanted) /\ Len(jobs') = Len(jobs) + 1
    BY <1>9 DEF InsertJob
  <2> QED
    BY <1>9, <2>1 DEF InsertJob
<1> QED
  BY <1>1, <1>2, <1>3, <1>4, <1>5, <1>6, <1>7, <1>8, <1>9 DEF MainStep

\* A run of the job manager's work replaces the front job by at most one.
LEMMA ManagerKeepsJobsInv ==
  ASSUME JobsInv, ManagerStep \/ SpuriousWakeup
  PROVE  JobsInv'
<1> USE DEF JobsInv, Carrying, Asking, known, main, manager
<1>1. CASE Wait \/ SpuriousWakeup
  BY <1>1 DEF Wait, SpuriousWakeup
<1>2. CASE Take
  BY <1>2 DEF Take
<1>3. CASE ExchangeSucceeds
  <2>1. Tail(jobs) \in Seq(Wanted) /\ Len(Tail(jobs)) = Len(jobs) - 1
    BY <1>3 DEF ExchangeSucceeds
  <2> QED
    BY <1>3, <2>1 DEF ExchangeSucceeds
<1>4. CASE ExchangeFails
  BY <1>4 DEF ExchangeFails
<1>5. CASE Retry
  <2>1. jobs' \in Seq(Wanted) /\ Len(jobs') <= Len(jobs)
    BY <1>5, RequestsAreJobs, ReplaceKeepsLength DEF Retry
  <2> QED
    BY <1>5, <2>1 DEF Retry
<1>6. ASSUME NEW have, have \subseteq Entry(cur.name).chunks, CopyTorrent(have)
      PROVE  JobsInv'
  <2>1. Entry(cur.name) \in Torrent
    BY DEF Entry, Torrent, NoTorrent
  <2>2. tor' \in Torrent
    BY <1>6, <2>1 DEF CopyTorrent, Torrent
  <2>3. \A x \in DOMAIN name2torrent' : name2torrent'[x] \in Torrent
    BY <1>6, <2>1, SetEntryKeepsTorrents DEF CopyTorrent
  <2> QED
    BY <1>6, <2>2, <2>3 DEF CopyTorrent
<1>7. CASE AcceptChunk \/ RefuseChunk
  BY <1>6, <1>7 DEF AcceptChunk, RefuseChunk
<1>8. CASE Store
  <2>1. \A x \in DOMAIN name2torrent' : name2torrent'[x] \in Torrent
    BY <1>8, SetEntryKeepsTorrents DEF Store
  <2> QED
    BY <1>8, <2>1 DEF Store
<1>9. CASE Proceed
  <2>1. cur.name \in Downloaded /\ jobs # << >>
    BY <1>9 DEF Proceed, Wanted
  <2>2. CASE IsComplete(Entry(cur.name))
    <3>1. jobs' \in Seq(Wanted) /\ Len(jobs') = Len(jobs) - 1
      BY <1>9, <2>1, <2>2 DEF Proceed
    <3> QED
      BY <1>9, <3>1 DEF Proceed
  <2>3. CASE ~IsComplete(Entry(cur.name))
    <3>1. jobs' \in Seq(Wanted) /\ Len(jobs') <= Len(jobs)
      BY <1>9, <2>1, <2>3, RequestsAreJobs, ReplaceKeepsLength DEF Proceed
    <3> QED
      BY <1>9, <3>1 DEF Proceed
  <2> QED
    BY <2>2, <2>3
<1> QED
  BY <1>1, <1>2, <1>3, <1>4, <1>5, <1>7, <1>8, <1>9 DEF ManagerStep

LEMMA NextKeepsJobsInv ==
  ASSUME JobsInv, [Next]_vars
  PROVE  JobsInv'
<1>1. UNCHANGED vars => JobsInv'
  BY DEF vars, known, main, manager, JobsInv
<1> QED
  BY <1>1, CommandsKeepJobsInv, MainKeepsJobsInv, ManagerKeepsJobsInv DEF Next

-----------------------------------------------------------------------------
\* The list of jobs is bounded by the commands given, whatever fails and is
\* retried.
THEOREM JobsAreBounded == Spec => []JobsWithinCommands
<1>1. Init => JobsInv
  BY InitJobsInv
<1>2. JobsInv /\ [Next]_vars => JobsInv'
  BY NextKeepsJobsInv
<1>3. JobsInv => JobsWithinCommands
  BY DEF JobsInv, JobsWithinCommands
<1> QED
  BY <1>1, <1>2, <1>3, PTL DEF Spec

-----------------------------------------------------------------------------
\* SetEntry changes the entry of its name and of no other.
LEMMA EntryAfterSet ==
  ASSUME NEW n, NEW t, SetEntry(n, t)
  PROVE  /\ Entry(n)' = t
         /\ \A m : m # n => Entry(m)' = Entry(m)
BY DEF SetEntry, Entry

\* What the node holds, and what is about to be lost, as Holdings sees them.
Held == [n \in Torrents |-> Entry(n).have]
Behind == {n \in Torrents : Overtaken(n)}
Outdated == [n \in Behind |-> tor.have]

\* The copy about to be put back adds at most one chunk to the torrent in the
\* map, unless that has been created meanwhile.
CopyIsNear ==
  jm = "store" =>
    \/ tor.have = Entry(cur.name).have
    \/ \E i \in Chunks : /\ i \notin Entry(cur.name).have
                         /\ tor.have = Entry(cur.name).have \union {i}
    \/ cur.name \in Created /\ Entry(cur.name).have = Chunks

LEMMA EntriesAreTorrents ==
  ASSUME JobsInv
  PROVE  \A n : Entry(n) \in Torrent
BY DEF JobsInv, Entry, NoTorrent, Torrent

\* The job manager has one copy at a time, and it is behind only when it is
\* about to be put back.
LEMMA BehindIsCopied ==
  /\ jm # "store" => Behind = {}
  /\ Behind \subseteq {cur.name}
  /\ Entry(cur.name).have \subseteq tor.have => Behind = {}
BY DEF Behind, Overtaken

\* A creation is one of Holdings, in the middle of a download or not.
LEMMA CreateIsOfHoldings ==
  ASSUME JobsInv, CopyIsNear, NEW n \in Created, CreateTorrent(n)
  PROVE  CopyIsNear' /\ H!Next
<1>1. Entry(n)' = Whole /\ \A m : m # n => Entry(m)' = Entry(m)
  BY EntryAfterSet DEF CreateTorrent
<1>2. UNCHANGED <<jm, cur, tor>>
  BY DEF CreateTorrent, manager
<1>3. Entry(n)'.have = Chunks /\ n \in Torrents
  BY <1>1, NamesAssumption DEF Whole
<1>4. CopyIsNear'
  BY <1>1, <1>2, <1>3 DEF CopyIsNear
<1>5. Held' = [Held EXCEPT ![n] = Chunks]
  BY <1>1, <1>3 DEF Held
<1>6. tor.have \subseteq Chunks /\ Entry(cur.name).have \subseteq Chunks
  BY EntriesAreTorrents DEF JobsInv, Torrent
<1>7. CASE jm = "store" /\ cur.name = n /\ tor.have # Chunks /\ n \notin Behind
  <2>1. n \in Downloaded
    BY <1>7 DEF JobsInv, Carrying, Wanted
  <2>2. Behind = {} /\ Behind' = {n}
    BY <1>1, <1>2, <1>3, <1>6, <1>7 DEF Behind, Overtaken
  <2>3. tor.have = Held[n] \/ \E i \in Chunks : tor.have = Held[n] \union {i}
    BY <1>3, <1>6, <1>7 DEF CopyIsNear, Held, Behind, Overtaken
  <2>4. Outdated' = [x \in {n} |-> tor.have]
    BY <1>2, <2>2 DEF Outdated
  <2>5. Outdated' = [x \in DOMAIN Outdated \union {n} |->
                       IF x = n THEN tor.have ELSE Outdated[x]]
    BY <2>2, <2>4 DEF Outdated
  <2>6. n \notin DOMAIN Outdated
    BY <1>7 DEF Outdated
  <2>7. H!CreateInDownload(n, tor.have)
    BY <1>5, <1>7, <2>3, <2>5, <2>6 DEF H!CreateInDownload, Held, Outdated, Behind
  <2> QED
    BY <1>4, <1>6, <2>1, <2>7 DEF H!Next
<1>8. CASE ~(jm = "store" /\ cur.name = n /\ tor.have # Chunks /\ n \notin Behind)
  <2>1. \A x \in Torrents : Overtaken(x)' <=> Overtaken(x)
    <3> SUFFICES ASSUME NEW x \in Torrents PROVE Overtaken(x)' <=> Overtaken(x)
      OBVIOUS
    <3>1. CASE x # n
      BY <1>1, <1>2, <3>1 DEF Overtaken
    <3>2. CASE x = n
      BY <1>2, <1>3, <1>6, <1>8, <3>2 DEF Overtaken, Behind
    <3> QED
      BY <3>1, <3>2
  <2>2. Behind' = Behind
    BY <2>1 DEF Behind
  <2>3. Outdated' = Outdated
    BY <1>2, <2>2 DEF Outdated
  <2>4. H!Create(n)
    BY <1>5, <2>3 DEF H!Create, Held, Outdated, Behind
  <2> QED
    BY <1>4, <2>4 DEF H!Next
<1> QED
  BY <1>7, <1>8

\* The assignment of the copy adds its chunk, or undoes a creation.
LEMMA StoreIsOfHoldings ==
  ASSUME JobsInv, CopyIsNear, Store
  PROVE  CopyIsNear' /\ (H!Next \/ (Held' = Held /\ Outdated' = Outdated))
<1>1. PICK c : c = cur.name
  OBVIOUS
<1>2. PICK t : t = tor
  OBVIOUS
<1>3. Entry(c)' = t /\ \A m : m # c => Entry(m)' = Entry(m)
  BY <1>1, <1>2, EntryAfterSet DEF Store
<1>4. jm = "store" /\ jm' # "store"
  BY DEF Store
<1>5. c \in Downloaded /\ c \in Torrents
  BY <1>1, <1>4, NamesAssumption DEF JobsInv, Carrying, Wanted
<1>6. t.have \subseteq Chunks /\ Entry(c).have \subseteq Chunks /\ Held[c] = Entry(c).have
  BY <1>2, <1>5, EntriesAreTorrents DEF JobsInv, Torrent, Held
<1>7. Behind' = {} /\ Outdated' = [x \in {} |-> tor'.have]
  BY <1>4 DEF Behind, Overtaken, Outdated
<1>8. Held' = [Held EXCEPT ![c] = t.have]
  BY <1>3, <1>5 DEF Held
<1>9. CASE c \in Behind
  <2>1. Behind = {c} /\ c \in Created
    BY <1>1, <1>2, <1>4, <1>9 DEF Behind, Overtaken, CopyIsNear
  <2>2. DOMAIN Outdated = {c} /\ Outdated[c] = t.have
    BY <1>2, <2>1 DEF Outdated
  <2>3. Outdated' = [x \in DOMAIN Outdated \ {c} |-> Outdated[x]]
    BY <1>7, <2>2
  <2>4. H!Undo(c)
    BY <1>8, <2>2, <2>3 DEF H!Undo, Held, Outdated, Behind
  <2> QED
    BY <1>4, <1>5, <2>1, <2>4 DEF H!Next, CopyIsNear
<1>10. CASE c \notin Behind
  <2>1. Behind = {}
    BY <1>1, <1>10, BehindIsCopied
  <2>2. Outdated' = Outdated
    BY <1>7, <2>1 DEF Outdated
  <2>3. Entry(c).have \subseteq t.have
    BY <1>1, <1>2, <1>4, <1>5, <1>10 DEF Behind, Overtaken
  <2>4. \/ t.have = Held[c]
        \/ \E i \in Chunks : i \notin Held[c] /\ t.have = Held[c] \union {i}
    BY <1>1, <1>2, <1>4, <1>6, <2>3 DEF CopyIsNear
  <2>5. CASE t.have = Held[c]
    <3>1. Held' = Held
      BY <1>8, <2>5 DEF Held
    <3> QED
      BY <1>4, <2>2, <3>1 DEF CopyIsNear
  <2>6. ASSUME NEW i \in Chunks, i \notin Held[c], t.have = Held[c] \union {i}
        PROVE  H!Next
    <3>1. c \notin DOMAIN Outdated
      BY <2>1 DEF Outdated
    <3>2. Held' = [Held EXCEPT ![c] = @ \union {i}]
      BY <1>8, <2>6
    <3>3. H!Gain(c, i)
      BY <2>2, <2>6, <3>1, <3>2 DEF H!Gain, Held, Outdated, Behind
    <3> QED
      BY <1>5, <3>3 DEF H!Next
  <2> QED
    BY <1>4, <2>4, <2>5, <2>6 DEF CopyIsNear
<1> QED
  BY <1>9, <1>10

\* The copy, with the chunk if it is accepted, is of the torrent in the map.
LEMMA CopyLosesNothing ==
  ASSUME JobsInv, NEW have \in SUBSET Entry(cur.name).chunks,
         \A i, j \in have : i = j, CopyTorrent(have)
  PROVE  CopyIsNear' /\ Held' = Held /\ Outdated' = Outdated
<1>1. \A m : Entry(m)' = Entry(m)
  BY EntryAfterSet DEF CopyTorrent
<1>2. Entry(cur.name) \in Torrent
  BY EntriesAreTorrents
<1>3. UNCHANGED cur /\ jm # "store"
  BY DEF CopyTorrent
<1>4. tor'.have = Entry(cur.name).have \union have
  BY <1>2 DEF CopyTorrent, Torrent
<1>5. PICK c : c = cur.name
  OBVIOUS
<1>6. Entry(c)' = Entry(c) /\ cur'.name = c
  BY <1>1, <1>3, <1>5
<1>7. \/ tor'.have = Entry(c).have
      \/ \E i \in Chunks : /\ i \notin Entry(c).have
                           /\ tor'.have = Entry(c).have \union {i}
  BY <1>2, <1>4, <1>5 DEF Torrent
<1>8. CopyIsNear'
  BY <1>6, <1>7 DEF CopyIsNear
<1>9. Held' = Held
  BY <1>1 DEF Held
<1>10. Behind = {} /\ Behind' = {}
  <2>1. \A x : ~Overtaken(x)'
    BY <1>4, <1>5, <1>6 DEF Overtaken
  <2> QED
    BY <1>3, <2>1, BehindIsCopied DEF Behind
<1>11. Outdated' = Outdated
  BY <1>10 DEF Outdated
<1> QED
  BY <1>8, <1>9, <1>11

\* Every step keeps the copy close to the torrent in the map, and is a step of
\* Holdings or changes nothing of it.
LEMMA StepIsOfHoldings ==
  ASSUME JobsInv, CopyIsNear, [Next]_vars
  PROVE  CopyIsNear' /\ (H!Next \/ (Held' = Held /\ Outdated' = Outdated))
<1>1. CASE UNCHANGED name2torrent /\ jm # "store" /\ jm' # "store"
  BY <1>1 DEF Entry, CopyIsNear, Held, Outdated, Behind, Overtaken
<1>2. CASE UNCHANGED <<name2torrent, jm, cur, tor>>
  BY <1>2 DEF Entry, CopyIsNear, Held, Outdated, Behind, Overtaken
<1>3. CASE AcceptChunk \/ RefuseChunk
  BY <1>3, CopyLosesNothing DEF AcceptChunk, RefuseChunk
<1>4. CASE Commands
  BY <1>2, <1>4, CreateIsOfHoldings DEF Commands, ListCommand, DownloadCommand,
     AvailCommand, manager
<1>5. CASE MainStep
  BY <1>1, <1>2, <1>5 DEF MainStep, AskList, AskAvail, AskedAll, ClearMap,
     SwapMap, HaveFile, AskFile, RequestChunk, InsertJob, Synchronously, manager,
     MutexFree
<1>6. CASE ManagerStep \/ SpuriousWakeup
  BY <1>1, <1>3, <1>6, StoreIsOfHoldings DEF ManagerStep, SpuriousWakeup, Wait,
     Take, ExchangeSucceeds, ExchangeFails, Retry, Proceed
<1>7. CASE UNCHANGED vars
  BY <1>2, <1>7 DEF vars, manager
<1> QED
  BY <1>4, <1>5, <1>6, <1>7 DEF Next

\* Two threads that copy torrents out of a map and assign them back, without a
\* lock, hold what Holdings promises, and lose what Holdings admits.
THEOREM ImplementsHoldings == Spec => FollowsHoldings
<1>1. Init => JobsInv /\ CopyIsNear
  BY InitJobsInv DEF Init, CopyIsNear
<1>2. Init => H!Init
  <2>1. JobsInv => Held \in [Torrents -> SUBSET Chunks]
    BY EntriesAreTorrents DEF Held, Torrent
  <2>2. Init => Outdated = [n \in {} |-> {}]
    BY DEF Init, Outdated, Behind, Overtaken
  <2> QED
    BY <2>1, <2>2, InitJobsInv DEF H!Init, Held, Outdated, Behind
<1>3. JobsInv /\ CopyIsNear /\ [Next]_vars => JobsInv' /\ CopyIsNear'
  BY NextKeepsJobsInv, StepIsOfHoldings
<1>4. JobsInv /\ CopyIsNear /\ [Next]_vars => [H!Next]_(H!hvars)
  BY StepIsOfHoldings DEF H!hvars, Held, Outdated, Behind
<1> QED
  BY <1>1, <1>2, <1>3, <1>4, PTL DEF Spec, FollowsHoldings, H!Spec

-----------------------------------------------------------------------------
\* The types that the list of jobs does not depend on: what the devices have
\* answered, the names of the torrents, and the job about to be queued.
RestTypes ==
  /\ \A d \in DOMAIN dev2tor : dev2tor[d] \subseteq Torrents
  /\ DOMAIN name2torrent \subseteq Torrents
  /\ pending \in Wanted \union {NoJob}
  /\ commands \in 0..MaxCommands
  /\ unpackaged \subseteq Torrents

LEMMA WantedAreJobs == Wanted \subseteq Job
BY DEF Wanted

LEMMA InitRestTypes == Init => RestTypes
<1> SUFFICES ASSUME Init PROVE RestTypes
  OBVIOUS
<1>1. DOMAIN name2torrent \subseteq Torrents
  BY DEF Init
<1>2. commands \in 0..MaxCommands
  BY MaxCommandsAssumption DEF Init
<1> QED
  BY <1>1, <1>2 DEF Init, RestTypes

\* A name that is stored comes from a command, and every command names one of
\* the torrents.
LEMMA SetEntryKeepsNames ==
  ASSUME NEW n \in Torrents, NEW t, SetEntry(n, t),
         DOMAIN name2torrent \subseteq Torrents
  PROVE  DOMAIN name2torrent' \subseteq Torrents
BY DEF SetEntry

LEMMA CommandsKeepRestTypes ==
  ASSUME JobsInv, RestTypes, Commands
  PROVE  RestTypes'
<1> USE DEF RestTypes, Command, known, main, manager
<1>1. ASSUME NEW n, Command(n)
      PROVE  commands' \in 0..MaxCommands
  BY <1>1, MaxCommandsAssumption
<1>2. CASE ListCommand
  BY <1>1, <1>2 DEF ListCommand
<1>3. ASSUME NEW n \in Downloaded, DownloadCommand(n)
      PROVE  RestTypes'
  BY <1>1, <1>3 DEF DownloadCommand
<1>4. ASSUME NEW n \in Downloaded, AvailCommand(n)
      PROVE  RestTypes'
  <2>1. AvailJobs(n, Devices) \subseteq Wanted
    BY <1>4, NamesAssumption DEF AvailJobs, Wanted, Job
  <2> QED
    BY <1>1, <1>4, <2>1 DEF AvailCommand
<1>5. ASSUME NEW n \in Created, CreateTorrent(n)
      PROVE  RestTypes'
  <2>1. DOMAIN name2torrent' \subseteq Torrents
    BY <1>5, NamesAssumption, SetEntryKeepsNames DEF CreateTorrent
  <2> QED
    BY <1>1, <1>5, <2>1 DEF CreateTorrent
<1> QED
  BY <1>2, <1>3, <1>4, <1>5 DEF Commands, RestTypes

LEMMA MainKeepsRestTypes ==
  ASSUME JobsInv, RestTypes, MainStep
  PROVE  RestTypes'
<1> USE DEF RestTypes, known, main, manager
<1>1. ASSUME NEW d \in Devices, AskList(d)
      PROVE  RestTypes'
  <2>1. \A e \in DOMAIN dev2tor' : dev2tor'[e] \subseteq Torrents
    BY <1>1 DEF AskList
  <2> QED
    BY <1>1, <2>1 DEF AskList
<1>2. ASSUME NEW d \in Devices, AskAvail(d)
      PROVE  RestTypes'
  BY <1>2 DEF AskAvail
<1>3. CASE AskedAll
  BY <1>3 DEF AskedAll
<1>4. CASE ClearMap
  BY <1>4 DEF ClearMap
<1>5. CASE SwapMap
  BY <1>5 DEF SwapMap
<1>6. CASE HaveFile
  BY <1>6 DEF HaveFile
<1>7. CASE AskFile
  BY <1>7 DEF AskFile
<1>8. CASE RequestChunk
  <2>1. name \in Downloaded
    BY <1>8 DEF JobsInv, RequestChunk, Asking
  <2>2. ChunkJobs(name) \subseteq Wanted
    BY <2>1, RequestsAreJobs
  <2> QED
    BY <1>8, <2>2 DEF RequestChunk
<1>9. CASE InsertJob
  BY <1>9 DEF InsertJob
<1> QED
  BY <1>1, <1>2, <1>3, <1>4, <1>5, <1>6, <1>7, <1>8, <1>9 DEF MainStep

LEMMA ManagerKeepsRestTypes ==
  ASSUME JobsInv, RestTypes, ManagerStep \/ SpuriousWakeup
  PROVE  RestTypes'
<1> USE DEF RestTypes, known, main, manager
<1>1. jm \in Carrying => cur.name \in Torrents
  BY NamesAssumption DEF JobsInv, Wanted
<1>2. CASE Wait \/ Take \/ ExchangeSucceeds \/ ExchangeFails \/ SpuriousWakeup
  BY <1>2 DEF Wait, Take, ExchangeSucceeds, ExchangeFails, SpuriousWakeup
<1>3. CASE Retry
  BY <1>3 DEF Retry
<1>4. ASSUME NEW have, CopyTorrent(have)
      PROVE  RestTypes'
  <2>1. cur.name \in Torrents
    BY <1>1, <1>4 DEF CopyTorrent, Carrying
  <2>2. DOMAIN name2torrent' \subseteq Torrents
    BY <1>4, <2>1, SetEntryKeepsNames DEF CopyTorrent
  <2> QED
    BY <1>4, <2>2 DEF CopyTorrent
<1>5. CASE AcceptChunk
  BY <1>4, <1>5 DEF AcceptChunk
<1>6. CASE RefuseChunk
  BY <1>4, <1>6 DEF RefuseChunk
<1>7. CASE Store
  <2>1. cur.name \in Torrents
    BY <1>1, <1>7 DEF Store, Carrying
  <2>2. DOMAIN name2torrent' \subseteq Torrents
    BY <1>7, <2>1, SetEntryKeepsNames DEF Store
  <2> QED
    BY <1>7, <2>2 DEF Store
<1>8. CASE Proceed
  <2>1. cur.name \in Torrents
    BY <1>1, <1>8 DEF Proceed, Carrying
  <2> QED
    BY <1>8, <2>1 DEF Proceed
<1> QED
  BY <1>2, <1>3, <1>5, <1>6, <1>7, <1>8 DEF ManagerStep

LEMMA NextKeepsRestTypes ==
  ASSUME JobsInv, RestTypes, [Next]_vars
  PROVE  RestTypes'
<1>1. CASE Commands
  BY <1>1, CommandsKeepRestTypes
<1>2. CASE MainStep
  BY <1>2, MainKeepsRestTypes
<1>3. CASE ManagerStep \/ SpuriousWakeup
  BY <1>3, ManagerKeepsRestTypes
<1>4. CASE UNCHANGED vars
  BY <1>4 DEF RestTypes, vars, known, main, manager
<1> QED
  BY <1>1, <1>2, <1>3, <1>4 DEF Next

\* The parts of the state keep their types: every job is of a torrent of the
\* user's commands, so what the two threads put in name2torrent, what is
\* queued and what is unpacked are torrents of theirs (node.cpp,
\* jobManagerThread and completeRequest).
THEOREM DownloadTypeCorrect == Spec => []TypeOK
<1>1. Init => JobsInv /\ RestTypes
  BY InitJobsInv, InitRestTypes
<1>2. JobsInv /\ RestTypes /\ [Next]_vars => (JobsInv /\ RestTypes)'
  BY NextKeepsJobsInv, NextKeepsRestTypes
<1>3. JobsInv /\ RestTypes => TypeOK
  <2> SUFFICES ASSUME JobsInv, RestTypes PROVE TypeOK
    OBVIOUS
  <2>1. jobs \in Seq(Job)
    BY WantedAreJobs DEF JobsInv
  <2>2. pending \in Job \union {NoJob} /\ cur \in Job \union {NoJob}
    BY WantedAreJobs DEF JobsInv, RestTypes
  <2> QED
    BY <2>1, <2>2 DEF JobsInv, RestTypes, TypeOK, Carrying, Asking
<1> QED
  BY <1>1, <1>2, <1>3, PTL DEF Spec

-----------------------------------------------------------------------------
\* The job being carried out is the front of the list: only the job manager
\* takes jobs away, and what it adds it adds at the end.
FrontIsCarried == jm \in Carrying => jobs # << >> /\ cur = Head(jobs)

\* The chunk jobs of the list cannot all go unless the torrent is complete or
\* no device is known for it.
ChainKept(n) ==
  ChunkJobFor(n) /\ ~ChunkJobFor(n)' =>
    IsComplete(Entry(n)) \/ torName2dev[n] = {}

LEMMA RequestWhereKnown ==
  ASSUME NEW n, ChunkJobs(n) = {}
  PROVE  torName2dev[n] = {}
<1>1. MissingIndexes(n) # {}
  BY DEF MissingIndexes
<1>2. PICK i \in MissingIndexes(n) : TRUE
  BY <1>1
<1>3. ASSUME NEW d \in torName2dev[n]
      PROVE  FALSE
  <2>1. [kind |-> "chunk", name |-> n, dev |-> d, index |-> i] \in ChunkJobs(n)
    BY <1>2, <1>3 DEF ChunkJobs
  <2> QED
    BY <2>1
<1> QED
  BY <1>3

LEMMA AppendKeepsChunkJobs ==
  ASSUME NEW n, NEW j \in Wanted, jobs \in Seq(Wanted),
         jobs' = Append(jobs, j), ChunkJobFor(n)
  PROVE  ChunkJobFor(n)'
<1>1. PICK i \in DOMAIN jobs : jobs[i].kind = "chunk" /\ jobs[i].name = n
  BY DEF ChunkJobFor
<1>2. i \in DOMAIN jobs' /\ jobs'[i] = jobs[i]
  BY <1>1
<1> QED
  BY <1>1, <1>2 DEF ChunkJobFor

\* Popping the front can take away the last job of the front's torrent only.
LEMMA TailKeepsOthers ==
  ASSUME NEW n, jobs \in Seq(Wanted), jobs # << >>, jobs' = Tail(jobs),
         Head(jobs).kind # "chunk" \/ Head(jobs).name # n, ChunkJobFor(n)
  PROVE  ChunkJobFor(n)'
<1>1. PICK i \in DOMAIN jobs : jobs[i].kind = "chunk" /\ jobs[i].name = n
  BY DEF ChunkJobFor
<1>2. i # 1
  BY <1>1
<1>3. i - 1 \in DOMAIN jobs' /\ jobs'[i - 1] = jobs[i]
  BY <1>1, <1>2
<1> QED
  BY <1>1, <1>3 DEF ChunkJobFor

\* Replacing the front keeps a job for its torrent if there is a request for it.
LEMMA ReplaceKeepsChain ==
  ASSUME NEW n, NEW requests, requests \subseteq Wanted,
         jobs \in Seq(Wanted), jobs # << >>, Replace(requests),
         ChunkJobFor(n),
         \/ Head(jobs).kind # "chunk" \/ Head(jobs).name # n
         \/ /\ requests # {}
            /\ \A j \in requests : j.kind = "chunk" /\ j.name = n
  PROVE  ChunkJobFor(n)'
<1>1. CASE requests = {}
  BY <1>1, TailKeepsOthers DEF Replace
<1>2. CASE requests # {}
  <2>1. PICK j \in requests : jobs' = Append(Tail(jobs), j)
    BY <1>2 DEF Replace
  <2>2. CASE j.kind = "chunk" /\ j.name = n
    <3>1. Len(jobs) \in DOMAIN jobs' /\ jobs'[Len(jobs)] = j
      BY <2>1
    <3> QED
      BY <2>2, <3>1 DEF ChunkJobFor
  <2>3. CASE Head(jobs).kind # "chunk" \/ Head(jobs).name # n
    <3>1. PICK i \in DOMAIN jobs : jobs[i].kind = "chunk" /\ jobs[i].name = n
      BY DEF ChunkJobFor
    <3>2. i # 1
      BY <2>3, <3>1
    <3>3. i - 1 \in DOMAIN jobs' /\ jobs'[i - 1] = jobs[i]
      BY <2>1, <3>1, <3>2
    <3> QED
      BY <3>1, <3>3 DEF ChunkJobFor
  <2> QED
    BY <2>1, <2>2, <2>3
<1> QED
  BY <1>1, <1>2

\* What requestChunk makes are chunk requests for the torrent.
LEMMA ChunkJobsAreChunks ==
  \A n : \A j \in ChunkJobs(n) : j.kind = "chunk" /\ j.name = n
BY DEF ChunkJobs

LEMMA StepKeepsFront ==
  ASSUME JobsInv, FrontIsCarried, [Next]_vars
  PROVE  FrontIsCarried'
<1> USE DEF FrontIsCarried, Carrying, main, manager
<1>1. CASE Commands
  BY <1>1 DEF Commands, ListCommand, DownloadCommand, AvailCommand, CreateTorrent
<1>2. CASE MainStep
  BY <1>2 DEF MainStep, AskList, AskAvail, AskedAll, ClearMap, SwapMap, HaveFile,
     AskFile, RequestChunk, InsertJob, Synchronously, MutexFree
<1>3. CASE ManagerStep \/ SpuriousWakeup
  BY <1>3 DEF ManagerStep, SpuriousWakeup, Wait, Take, ExchangeSucceeds,
     ExchangeFails, Retry, AcceptChunk, RefuseChunk, CopyTorrent, Store, Proceed
<1>4. CASE UNCHANGED vars
  BY <1>4 DEF vars
<1> QED
  BY <1>1, <1>2, <1>3, <1>4 DEF Next

LEMMA StepKeepsChain ==
  ASSUME JobsInv, FrontIsCarried, [Next]_vars, NEW n \in Torrents
  PROVE  ChainKept(n)
<1> SUFFICES ASSUME ChunkJobFor(n), ~ChunkJobFor(n)',
                    ~IsComplete(Entry(n)), torName2dev[n] # {}
             PROVE  FALSE
  BY DEF ChainKept
<1>1. jobs' # jobs
  BY DEF ChunkJobFor
<1>2. jobs \in Seq(Wanted)
  BY DEF JobsInv
<1>3. ChunkJobs(n) # {}
  BY RequestWhereKnown
<1>4. CASE Commands
  BY <1>1, <1>4 DEF Commands, ListCommand, DownloadCommand, AvailCommand,
     CreateTorrent
<1>5. CASE MainStep
  <2>1. CASE InsertJob
    <3>1. pending \in Wanted /\ jobs' = Append(jobs, pending)
      BY <2>1 DEF InsertJob, JobsInv
    <3> QED
      BY <1>2, <3>1, AppendKeepsChunkJobs
  <2> QED
    BY <1>1, <1>5, <2>1 DEF MainStep, AskList, AskAvail, AskedAll, ClearMap,
       SwapMap, HaveFile, AskFile, RequestChunk
<1>6. CASE ExchangeSucceeds
  <2>1. jobs # << >> /\ cur = Head(jobs)
    BY <1>6 DEF ExchangeSucceeds, FrontIsCarried, Carrying
  <2>2. cur.kind # "chunk" /\ jobs' = Tail(jobs)
    BY <1>1, <1>6 DEF ExchangeSucceeds
  <2> QED
    BY <1>2, <2>1, <2>2, TailKeepsOthers
<1>7. CASE Retry
  <2>1. jobs # << >> /\ cur = Head(jobs) /\ RetryJobs \subseteq Wanted
    BY <1>7, RequestsAreJobs DEF Retry, FrontIsCarried, Carrying
  <2>2. Replace(RetryJobs)
    BY <1>7 DEF Retry
  <2>3. CASE cur.kind = "chunk" /\ cur.name = n
    <3>1. RetryJobs = ChunkJobs(n)
      BY <2>3 DEF RetryJobs
    <3>2. RetryJobs # {} /\ \A j \in RetryJobs : j.kind = "chunk" /\ j.name = n
      BY <1>3, <3>1, ChunkJobsAreChunks
    <3> QED
      BY <1>2, <2>1, <2>2, <3>2, ReplaceKeepsChain
  <2>4. CASE cur.kind # "chunk" \/ cur.name # n
    BY <1>2, <2>1, <2>2, <2>4, ReplaceKeepsChain
  <2> QED
    BY <2>3, <2>4
<1>8. CASE Proceed
  <2>1. /\ jobs # << >> /\ cur = Head(jobs)
        /\ ChunkJobs(cur.name) \subseteq Wanted
    BY <1>8, RequestsAreJobs DEF Proceed, FrontIsCarried, Carrying, JobsInv, Wanted
  <2>2. CASE cur.name = n
    <3>1. Replace(ChunkJobs(n))
      BY <1>8, <2>2 DEF Proceed
    <3>2. \A j \in ChunkJobs(n) : j.kind = "chunk" /\ j.name = n
      BY ChunkJobsAreChunks
    <3> QED
      BY <1>2, <1>3, <2>1, <2>2, <3>1, <3>2, ReplaceKeepsChain
  <2>3. CASE cur.name # n
    <3>1. CASE IsComplete(Entry(cur.name))
      BY <1>2, <1>8, <2>1, <2>3, <3>1, TailKeepsOthers DEF Proceed
    <3>2. CASE ~IsComplete(Entry(cur.name))
      <4>1. Replace(ChunkJobs(cur.name))
        BY <1>8, <3>2 DEF Proceed
      <4> QED
        BY <1>2, <2>1, <2>3, <4>1, ReplaceKeepsChain
    <3> QED
      BY <3>1, <3>2
  <2> QED
    BY <2>2, <2>3
<1>9. CASE ManagerStep \/ SpuriousWakeup
  BY <1>1, <1>6, <1>7, <1>8, <1>9 DEF ManagerStep, SpuriousWakeup, Wait, Take,
     ExchangeFails, AcceptChunk, RefuseChunk, CopyTorrent, Store
<1> QED
  BY <1>1, <1>4, <1>5, <1>9 DEF Next, vars

\* A download is not forgotten: whatever fails and is retried, and whatever
\* the user does at the same time, its last chunk job leaves the list only
\* when the torrent is complete or no device is known to share it.
THEOREM ChainContinuesTheorem == Spec => ChainContinues
<1>1. Init => JobsInv /\ FrontIsCarried
  BY InitJobsInv DEF Init, FrontIsCarried, Carrying
<1>2. JobsInv /\ FrontIsCarried /\ [Next]_vars => (JobsInv /\ FrontIsCarried)'
  BY NextKeepsJobsInv, StepKeepsFront
<1>3. JobsInv /\ FrontIsCarried /\ [Next]_vars =>
        [\A n \in Torrents :
           ChunkJobFor(n) /\ ~ChunkJobFor(n)' =>
             IsComplete(Entry(n)) \/ torName2dev[n] = {}]_vars
  BY StepKeepsChain DEF ChainKept
<1> QED
  BY <1>1, <1>2, <1>3, PTL DEF Spec, ChainContinues

=============================================================================
