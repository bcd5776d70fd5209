---------------------------- MODULE NodeThreads ----------------------------
(***************************************************************************)
(* The main thread of a node (node.cpp, main) and the WorkerThread objects *)
(* it drives: one server per local device, and the job manager.  Each      *)
(* command of the user is a script of method calls on those objects.  A    *)
(* synchronous request pauses every worker, exchanges one request and its  *)
(* response, and activates every worker again; a download ends by          *)
(* inserting a job for the job manager.                                    *)
(***************************************************************************)
EXTENDS WorkerThread

CONSTANT JobManager   \* the one object that has a list of jobs

ASSUME JobManagerAssumption ==
  JobManager \in Workers /\ Predicated = {JobManager}

VARIABLES command,  \* the command the main thread is carrying out
          phase,    \* where the main thread is in it
          todo      \* the objects the loop of this phase has not reached yet

script == <<command, phase, todo>>
nodeVars == <<vars, script>>

\* The commands that make synchronous requests.
Requesting == {"-lnt", "-tr", "-td"}

\* The phases that loop over every object, and the method each calls.
LoopPhase == {"pause", "activate", "kill"}

\* Slip: the phase name is taken for a method.
MethodOfUntranslated(p) == p

MethodOf(p) == IF p = "kill" THEN "close" ELSE p

ScriptTypeOK ==
  /\ command \in {"none", "-p", "-a", "-rc", "-q"} \union Requesting
  /\ phase \in LoopPhase \union
        {"prompt", "settle", "request", "between", "insert", "exited"}
  /\ todo \subseteq Workers

NodeTypeOK == TypeOK /\ ScriptTypeOK

NodeInit ==
  /\ Init
  /\ command = "none"
  /\ phase = "prompt"
  /\ todo = {}

-----------------------------------------------------------------------------
(* Commands, read at the prompt. *)

\* Slip: the loop leaves out the job manager.
EnterServersOnly(p) ==
  /\ phase' = p
  /\ todo' = IF p \in LoopPhase THEN Workers \ {JobManager} ELSE {}

\* A phase that loops starts with every object; the others have no loop.
Enter(p) ==
  /\ phase' = p
  /\ todo' = IF p \in LoopPhase THEN Workers ELSE {}

Command(c, p) ==
  /\ phase = "prompt"
  /\ command' = c
  /\ Enter(p)
  /\ UNCHANGED vars

PauseCommand == Command("-p", "pause")
ActivateCommand == Command("-a", "activate")
RequestCommand == \E c \in Requesting : Command(c, "pause")
AvailCommand == Command("-rc", "insert")
QuitCommand == Command("-q", "kill")

-----------------------------------------------------------------------------
(* The script of a command. *)

Continue(p, q) ==
  /\ phase = p
  /\ cpc = "idle"
  /\ todo = {}
  /\ Enter(q)
  /\ UNCHANGED <<command, vars>>

\* One turn of the loop over the objects: the job manager comes last.  The
\* status of the object is not looked at.
CallNext(w) ==
  /\ phase \in LoopPhase
  /\ w \in todo
  /\ w = JobManager => todo = {JobManager}
  /\ cpc = "idle"
  /\ Invoke(w, MethodOf(phase))
  /\ todo' = todo \ {w}
  /\ UNCHANGED <<command, phase>>

\* pauseWorkerThreads ends by sleeping out the accept timeout.
AllPaused == Continue("pause", "settle")

Settled == Continue("settle", IF command = "-p" THEN "prompt" ELSE "request")

\* Slip: an error returns from the request without activating the workers.
RequestDoneEarly ==
  Continue("request", "activate") \/ Continue("request", "between")

\* The response, or an error, is in: syncRequest activates the workers.
RequestDone == Continue("request", "activate")

AllActivated ==
  Continue("activate", IF command \in Requesting THEN "between" ELSE "prompt")

\* The command goes on to its next synchronous request ...
NextRequest == Continue("between", "pause")

\* ... or was at its last one.
LastRequest == Continue("between", "prompt")

\* requestTorrentData ends by asking for a chunk of the torrent.
RequestChunk == command = "-td" /\ Continue("between", "insert")

\* insertJob: a modify on the job manager.
InsertJob ==
  /\ phase = "insert"
  /\ cpc = "idle"
  /\ Invoke(JobManager, "modify")
  /\ phase' = "prompt"
  /\ UNCHANGED <<command, todo>>

\* Slip: -q closes the threads and goes on reading commands.
AllKilledReadingOn == Continue("kill", "prompt")

AllKilled == Continue("kill", "exited")

-----------------------------------------------------------------------------
\* The prompt is shown again when the method that ends a command has returned.
CommandNext ==
  /\ cpc = "idle"
  /\ PauseCommand \/ ActivateCommand \/ RequestCommand \/ AvailCommand \/ QuitCommand

ScriptNext ==
  \/ \E w \in Workers : CallNext(w)
  \/ AllPaused \/ Settled \/ RequestDone \/ AllActivated
  \/ NextRequest \/ LastRequest \/ RequestChunk
  \/ InsertJob \/ AllKilled

WorkersNext ==
  /\ MethodNext \/ \E w \in Workers : WorkerNext(w)
  /\ UNCHANGED script

NodeNext == CommandNext \/ ScriptNext \/ WorkersNext

\* The user need not type anything, but a command that has begun goes on: a
\* request gets its response or an error.
NodeFairness == Fairness /\ WF_nodeVars(ScriptNext)

NodeSpec == NodeInit /\ [][NodeNext]_nodeVars /\ NodeFairness

-----------------------------------------------------------------------------
(* Properties. *)

\* While the main thread exchanges a synchronous request no other thread is
\* in its work: the request has the local devices and the maps of the node to
\* itself (node.cpp, syncRequest).
SyncRequestExclusive ==
  phase \in {"settle", "request"} => \A w \in Workers : wpc[w] \notin Working

\* A synchronous request leaves no worker paused (node.cpp, syncRequest).
SyncRequestResumes ==
  phase = "between" /\ cpc = "idle" =>
    \A w \in Workers : status[w] = "ACTIVE"

\* When main returns and the node is destroyed no thread of its is left
\* (node.cpp, killWorkerThreads).
QuitLeavesNoThread ==
  phase = "exited" => \A w \in Workers : wpc[w] = "done"

\* An object that has been closed is left alone by the main thread, in this
\* command and in all that follow: a second close would join a thread that is
\* joined, an activate would take back the end of one that still runs, and a
\* job inserted then would be carried out by no one (only the last run of the
\* work may add one).  Neither the methods (workerThread.cpp, close) nor the
\* scripts that call them (node.cpp, killWorkerThreads, insertJob) look at the
\* status first.
ClosedIsLeftAlone ==
  [][\A w \in Workers :
       status[w] = "KILL" =>
         /\ status'[w] = "KILL"
         /\ items'[w] > items[w] => wpc[w] = "inner"
         /\ cpc = "idle" /\ cpc' = "lock" => target' # w]_nodeVars

\* A synchronous request comes back to its caller, whatever the workers do.
RequestReturns == phase = "pause" ~> phase \in {"between", "prompt"}

\* -q ends the program.
QuitTerminates == phase = "kill" ~> phase = "exited"

\* The job that -td queues is taken up by the active job manager, or its
\* status changes first (README.md: "-td [torrent name] : download the file(s)
\* descrived by the torrent").
DownloadBegins ==
  (command = "-td" /\ items[JobManager] > 0 /\ status[JobManager] = "ACTIVE")
    ~> (wpc[JobManager] = "work" \/ status[JobManager] # "ACTIVE")
=============================================================================
