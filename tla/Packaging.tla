----------------------------- MODULE Packaging -----------------------------
(***************************************************************************)
(* Packages and the file "temp" (package.cpp, archiver.cpp, compress.cpp). *)
(*                                                                         *)
(* The main thread makes a package for -tc: its files are archived into    *)
(* temp, temp is compressed into the package, temp is removed.  The job    *)
(* manager unpacks one that is complete: it is decompressed into temp, the *)
(* files are extracted, temp is removed.  -tc does not pause the job       *)
(* manager, and temp is the same file for both: whoever opens it for       *)
(* writing truncates what the other has, and a file that is removed lives  *)
(* on for those who have it open.                                          *)
(*                                                                         *)
(* The content of a file is the name of the torrent whose files it holds,  *)
(* "nothing" or "damaged".  What comes of a file that two threads use at   *)
(* once is left open.  The program may crash anywhere, and start again in  *)
(* the same directory.                                                     *)
(***************************************************************************)
EXTENDS Naturals

CONSTANTS Own,        \* the torrents this node makes
          Downloads   \* the names of those it has downloaded all chunks of

ASSUME NamesAssumption ==
  Own \intersect Downloads = {} /\ {"nothing", "damaged"} \intersect (Own \union Downloads) = {}

Names == Own \union Downloads
Threads == {"main", "jobs"}
Other(t) == IF t = "main" THEN "jobs" ELSE "main"

\* The files that temp has been: it, and those that were removed but are open.
Files == 1..3
NoFile == 0
Content == Names \union {"nothing", "damaged"}

VARIABLES temp,     \* which file is called temp
          content,  \* what each file holds
          package,  \* what each package holds, compressed
          complete, \* the torrents of name2torrent that have all their chunks
          at,       \* what each thread is doing
          name,     \* for which torrent
          fd,       \* the file called temp that a thread has open
          clean,    \* nobody else has touched what it has open
          alone,    \* nobody else was at work during it
          made,     \* how -tc has last made each package: no, alone or raced
          last,     \* the last unpacking: of what, and what came of it
          left      \* the program has ended with a file temp

files == <<temp, content, package>>
threads == <<at, name, fd, clean, alone>>
history == <<made, last, left>>
packVars == <<files, complete, threads, history>>

Writing == {"archiving", "decompressing"}
Places == {"idle", "archive", "archiving", "compress", "compressing", "remove",
           "failed", "decompress", "decompressing", "extract", "extracting", "removeUnpacked"}

PackInit ==
  /\ temp = NoFile
  /\ content = [f \in Files |-> "nothing"]
  /\ package \in [Names -> Content]
  /\ \A n \in Own : package[n] = "nothing"
  /\ \A n \in Downloads : package[n] \in {n, "damaged"}
  /\ complete = Downloads
  /\ at = [t \in Threads |-> "idle"]
  /\ name \in [Threads -> Names] /\ name["main"] = name["jobs"]
  /\ fd = [t \in Threads |-> NoFile]
  /\ clean = [t \in Threads |-> TRUE]
  /\ alone = [t \in Threads |-> TRUE]
  /\ made = [n \in Own |-> "no"]
  /\ last = [of |-> "nothing", got |-> "nothing", alone |-> FALSE]
  /\ left = FALSE

Go(t, place) == at' = [at EXCEPT ![t] = place]
Idle(t) == at[t] = "idle"

\* A thread begins: both are from now on not alone if the other is at work.
Begin(t, n) ==
  /\ name' = [name EXCEPT ![t] = n]
  /\ alone' = [u \in Threads |-> IF u = t THEN Idle(Other(t))
                                 ELSE Idle(u) /\ alone[u]]

\* temp is opened for writing: there is a file of that name, and it is empty.
\* If the other has it open, neither can rely on it.
OpenToWrite(t) ==
  \E f \in Files :
    /\ IF temp # NoFile THEN f = temp ELSE \A u \in Threads : fd[u] # f
    /\ temp' = f
    /\ content' = [content EXCEPT ![f] = "nothing"]
    /\ fd' = [fd EXCEPT ![t] = f]
    /\ clean' = [u \in Threads |-> IF u = t THEN fd[Other(t)] # f
                                   ELSE clean[u] /\ fd[u] # f]

\* Slip: a file that is not there is opened as well.
OpenAny(t) == fd' = [fd EXCEPT ![t] = temp]

\* temp is opened for reading; whether that is clean is left to the caller.
OpenToRead(t) ==
  /\ temp # NoFile
  /\ fd' = [fd EXCEPT ![t] = temp]

StillWritten(t) == fd[Other(t)] = temp /\ at[Other(t)] \in Writing

\* What t gets of c, if it has it for itself or not.
Outcomes(t, c) == IF clean[t] THEN {c} ELSE {c, "damaged", "nothing"}

\* remove: the name goes; the file stays for the other, if it has it open.
Remove == temp' = NoFile /\ left' = FALSE

\* The program ends, in a crash or by exit: files that were being written hold
\* any part of what they should.
End ==
  /\ \E c, d \in {"nothing", "damaged"} :
       /\ content' = [f \in Files |->
                        IF f # temp THEN "nothing"
                        ELSE IF \E t \in Threads : fd[t] = f /\ at[t] \in Writing THEN c
                        ELSE content[f]]
       /\ package' = [n \in Names |->
                        IF at["main"] = "compressing" /\ name["main"] = n THEN d
                        ELSE package[n]]
  /\ at' = [t \in Threads |-> "idle"]
  /\ fd' = [t \in Threads |-> NoFile]
  /\ clean' = [t \in Threads |-> TRUE]
  /\ alone' = [t \in Threads |-> TRUE]
  /\ UNCHANGED name

Crash ==
  /\ End
  /\ left' = (temp # NoFile)
  /\ UNCHANGED <<complete, temp, made, last>>

-----------------------------------------------------------------------------
(* -tc: Package::package, and generateChunks of what it has made. *)

BeginPackage(n) ==
  /\ Idle("main")
  /\ Begin("main", n)
  /\ Go("main", "archive")
  /\ made' = [made EXCEPT ![n] = "no"]
  /\ UNCHANGED <<complete, files, fd, clean, last, left>>

\* Slip: a file temp that is there is taken for the archive.
OpenArchiveOnce ==
  /\ at["main"] = "archive"
  /\ IF temp = NoFile THEN OpenToWrite("main") /\ Go("main", "archiving")
     ELSE Go("main", "compress") /\ UNCHANGED <<temp, content, fd, clean>>
  /\ UNCHANGED <<complete, package, name, alone, history>>

OpenArchive ==
  /\ at["main"] = "archive"
  /\ OpenToWrite("main")
  /\ Go("main", "archiving")
  /\ UNCHANGED <<complete, package, name, alone, history>>

FinishArchive ==
  /\ at["main"] = "archiving"
  /\ \E c \in Outcomes("main", name["main"]) :
       content' = [content EXCEPT ![fd["main"]] = c]
  /\ fd' = [fd EXCEPT !["main"] = NoFile]
  /\ Go("main", "compress")
  /\ UNCHANGED <<complete, temp, package, name, clean, alone, history>>

\* Both files are opened before it is known that there is a temp: a package
\* that was there is empty from now on.
OpenCompress ==
  /\ at["main"] = "compress"
  /\ package' = [package EXCEPT ![name["main"]] = "nothing"]
  /\ IF temp = NoFile
       THEN Go("main", "failed") /\ UNCHANGED fd
       ELSE Go("main", "compressing") /\ OpenToRead("main")
  /\ clean' = [t \in Threads |->
                 IF t = "main" THEN ~StillWritten("main")
                 ELSE clean[t] /\ ~(at[t] = "decompressing" /\ name[t] = name["main"])]
  /\ UNCHANGED <<complete, temp, content, name, alone, history>>

FinishCompress ==
  /\ at["main"] = "compressing"
  /\ \E c \in Outcomes("main", content[fd["main"]]) :
       package' = [package EXCEPT ![name["main"]] = c]
  /\ fd' = [fd EXCEPT !["main"] = NoFile]
  /\ Go("main", "remove")
  /\ UNCHANGED <<complete, temp, content, name, clean, alone, history>>

\* The package is made, and its chunks are hashed.
FinishPackage ==
  /\ at["main"] = "remove"
  /\ Remove
  /\ made' = [made EXCEPT ![name["main"]] = IF alone["main"] THEN "alone" ELSE "raced"]
  /\ complete' = complete \union {name["main"]}
  /\ Go("main", "idle")
  /\ UNCHANGED <<content, package, name, fd, clean, alone, last>>

\* Its size is a multiple of that of a chunk: generateChunks throws, and nothing
\* catches it.
FinishUnhashable ==
  /\ at["main"] = "remove"
  /\ Remove
  /\ End
  /\ UNCHANGED <<complete, made, last>>

\* compress has returned Z_ERRNO: -tc fails.
FailPackage ==
  /\ at["main"] = "failed"
  /\ Remove
  /\ Go("main", "idle")
  /\ UNCHANGED <<complete, content, package, name, fd, clean, alone, made, last>>

-----------------------------------------------------------------------------
(* The job manager: Torrent::unpackage of a complete torrent. *)

BeginUnpackage(n) ==
  /\ Idle("jobs")
  /\ n \in complete
  /\ Begin("jobs", n)
  /\ Go("jobs", "decompress")
  /\ UNCHANGED <<complete, files, fd, clean, history>>

\* Slip: what was decompressed is appended to a temp that is there.
OpenToAppend ==
  /\ at["jobs"] = "decompress"
  /\ IF temp = NoFile \/ content[temp] = "nothing" THEN OpenToWrite("jobs")
     ELSE /\ OpenToRead("jobs")
          /\ clean' = [clean EXCEPT !["jobs"] = FALSE]
          /\ UNCHANGED <<temp, content>>
  /\ Go("jobs", "decompressing")
  /\ UNCHANGED <<complete, package, name, alone, history>>

OpenDecompress ==
  /\ at["jobs"] = "decompress"
  /\ OpenToWrite("jobs")
  /\ Go("jobs", "decompressing")
  /\ UNCHANGED <<complete, package, name, alone, history>>

\* A package that is damaged gives a part of its content, or nothing.  If it
\* is being compressed at the same time, a part of it is read.
FinishDecompress ==
  /\ at["jobs"] = "decompressing"
  /\ \E c \in Outcomes("jobs", package[name["jobs"]]) :
       \E d \in IF c = "damaged" THEN {c, "nothing"} ELSE {c} :
         content' = [content EXCEPT ![fd["jobs"]] = d]
  /\ fd' = [fd EXCEPT !["jobs"] = NoFile]
  /\ Go("jobs", "extract")
  /\ UNCHANGED <<complete, temp, package, name, clean, alone, history>>

\* extract is called whether or not decompress has failed.
OpenExtract ==
  /\ at["jobs"] = "extract"
  /\ OpenToRead("jobs")
  /\ clean' = [clean EXCEPT !["jobs"] = ~StillWritten("jobs")]
  /\ Go("jobs", "extracting")
  /\ UNCHANGED <<complete, files, name, alone, history>>

\* What came of an unpacking, for the package as it is.
Unpacked(c) ==
  last' = [of |-> package[name["jobs"]], got |-> c, alone |-> alone["jobs"]]

\* temp is not there: exit(1) in the middle of the program.
ExtractMissing ==
  /\ at["jobs"] = "extract"
  /\ temp = NoFile
  /\ Unpacked("exit")
  /\ left' = FALSE
  /\ End
  /\ UNCHANGED <<complete, temp, made>>

FinishExtract ==
  /\ at["jobs"] = "extracting"
  /\ \E c \in Outcomes("jobs", content[fd["jobs"]]) : Unpacked(c)
  /\ fd' = [fd EXCEPT !["jobs"] = NoFile]
  /\ Go("jobs", "removeUnpacked")
  /\ UNCHANGED <<complete, files, name, clean, alone, made, left>>

\* libarchive finds no archive in it: exit(1) as well.
ExtractDamaged ==
  /\ at["jobs"] = "extracting"
  /\ "damaged" \in Outcomes("jobs", content[fd["jobs"]])
  /\ Unpacked("exit")
  /\ left' = (temp # NoFile)
  /\ End
  /\ UNCHANGED <<complete, temp, made>>

\* Slip: nothing is removed if nothing was extracted.
FinishExtracted ==
  /\ at["jobs"] = "removeUnpacked"
  /\ IF last.got = "nothing" THEN UNCHANGED <<temp, left>> ELSE Remove
  /\ Go("jobs", "idle")
  /\ UNCHANGED <<complete, content, package, name, fd, clean, alone, made, last>>

FinishUnpackage ==
  /\ at["jobs"] = "removeUnpacked"
  /\ Remove
  /\ Go("jobs", "idle")
  /\ UNCHANGED <<complete, content, package, name, fd, clean, alone, made, last>>

-----------------------------------------------------------------------------
Package ==
  \/ \E n \in Own : BeginPackage(n)
  \/ OpenArchive \/ FinishArchive \/ OpenCompress \/ FinishCompress
  \/ FinishPackage \/ FinishUnhashable \/ FailPackage

Unpackage ==
  \/ \E n \in Names : BeginUnpackage(n)
  \/ OpenDecompress \/ FinishDecompress
  \/ OpenExtract \/ ExtractMissing \/ FinishExtract \/ ExtractDamaged
  \/ FinishUnpackage

PackNext == Package \/ Unpackage \/ Crash

PackSpec == PackInit /\ [][PackNext]_packVars

-----------------------------------------------------------------------------
(* Properties. *)

PackTypeOK ==
  /\ temp \in Files \union {NoFile}
  /\ content \in [Files -> Content]
  /\ package \in [Names -> Content]
  /\ complete \subseteq Names
  /\ at \in [Threads -> Places]
  /\ name \in [Threads -> Names]
  /\ fd \in [Threads -> Files \union {NoFile}]
  /\ \A t \in Threads :
       fd[t] # NoFile <=> at[t] \in Writing \union {"compressing", "extracting"}
  /\ clean \in [Threads -> BOOLEAN] /\ alone \in [Threads -> BOOLEAN]
  /\ made \in [Own -> {"no", "alone", "raced"}]
  /\ last \in [of : Content, got : Content \union {"exit"}, alone : BOOLEAN]
  /\ left \in BOOLEAN

\* A package that -tc has made while nothing was unpacked holds the files of
\* its torrent, whatever file temp crashes, exits and races before it have left,
\* and it keeps them whatever happens afterwards (package.cpp, package).
PackagedAlone == \A n \in Own : made[n] = "alone" => package[n] = n

\* A package that is unpacked while -tc does nothing gives the files it holds,
\* again whatever temp was there; and only one that is damaged ends the program
\* (package.cpp, unpackage; archiver.cpp, extract).
UnpackedAlone ==
  last.alone => \/ last.got = last.of
                \/ last.of = "damaged"

\* When no package is made or unpacked there is no file temp, but for one that a
\* program that has ended has left; two threads that remove it do not leave one
\* (package.cpp, package and unpackage).
TempIsRemoved == (\A t \in Threads : Idle(t)) /\ temp # NoFile => left

\* The package of a torrent that -tc has made holds its files (torrent.h,
\* package: "Creates a package containing the files that were specified").
PackageHoldsItsFiles == \A n \in Own : made[n] # "no" => package[n] = n
=============================================================================
