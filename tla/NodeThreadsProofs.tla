------------------------- MODULE NodeThreadsProofs -------------------------
(* What the scripts of the main thread guarantee for any set of workers.    *)
EXTENDS NodeThreads, WorkerThreadProofs

\* The running method is the one its phase calls; the insertion is the only
\* one still running when the prompt is back.
MethodFitsPhase ==
  cpc # "idle" =>
    \/ phase \in LoopPhase /\ op = MethodOf(phase) /\ target \notin todo
    \/ phase = "prompt" /\ op = "modify"

\* Only -q closes an object, each one once, and nothing follows -q.
ClosedOnce ==
  \A w \in Workers :
    status[w] = "KILL" => phase \in {"kill", "exited"} /\ w \notin todo

\* An object the loop of a phase has passed has the status of that phase,
\* unless the call on it has not set it yet.
Underway(w, m) ==
  target = w /\ op = m /\ cpc \in {"lock", "body"}

LoopProgress ==
  /\ phase = "pause" =>
       \A w \in Workers \ todo : status[w] = "PAUSE" \/ Underway(w, "pause")
  /\ phase = "activate" =>
       \A w \in Workers \ todo : status[w] = "ACTIVE" \/ Underway(w, "activate")
  /\ phase = "kill" =>
       \A w \in Workers \ todo : status[w] = "KILL" \/ Underway(w, "close")

\* What a finished loop leaves behind.
LoopDone ==
  /\ phase \in {"settle", "request"} => \A w \in Workers : status[w] = "PAUSE"
  /\ phase = "between" => \A w \in Workers : status[w] = "ACTIVE"
  /\ phase = "exited" => \A w \in Workers : status[w] = "KILL"

NodeInv ==
  /\ Inv
  /\ ScriptTypeOK
  /\ MethodFitsPhase
  /\ ClosedOnce
  /\ LoopProgress
  /\ LoopDone

-----------------------------------------------------------------------------
LEMMA NodeInitInv == NodeInit => NodeInv
<1>1. NodeInit => Inv
  BY InitInv DEF NodeInit
<1>2. NodeInit => ScriptTypeOK /\ MethodFitsPhase /\ ClosedOnce
               /\ LoopProgress /\ LoopDone
  BY DEF NodeInit, Init, ScriptTypeOK, Requesting, LoopPhase, MethodFitsPhase,
         ClosedOnce, LoopProgress, LoopDone
<1> QED
  BY <1>1, <1>2 DEF NodeInv

\* A step of a worker thread changes no status and nothing of the script.
LEMMA WorkerKeepsNodeInv ==
  ASSUME NodeInv, NEW w \in Workers, WorkerNext(w), UNCHANGED script
  PROVE  NodeInv'
<1>1. Inv'
  BY WorkerKeepsInv, MaxItemsAssumption DEF NodeInv
<1>2. UNCHANGED <<status, op, target, cpc>>
  BY DEF WorkerNext, Lock, Wait, BeginWork, SpuriousWakeup, Reacquire,
         InnerLock, InnerModify, FinishWork, Loop
<1> QED
  BY <1>1, <1>2 DEF NodeInv, script, ScriptTypeOK, MethodFitsPhase,
                    ClosedOnce, LoopProgress, LoopDone, Underway

\* A method sets the status its phase is for.
LEMMA MethodKeepsNodeInv ==
  ASSUME NodeInv, MethodNext, UNCHANGED script
  PROVE  NodeInv'
<1> USE DEF script
<1>1. Inv'
  BY MethodKeepsInv, MaxItemsAssumption DEF NodeInv
<1>2. ScriptTypeOK'
  BY DEF NodeInv, ScriptTypeOK
<1>3. MethodFitsPhase' /\ ClosedOnce' /\ LoopProgress' /\ LoopDone'
  <2> USE DEF NodeInv, Inv, TypeOK, Status, MethodFitsPhase, MethodOf,
              LoopPhase, ClosedOnce, LoopProgress, LoopDone, Underway
  <2>1. CASE CallerLock
    BY <2>1 DEF CallerLock
  <2>2. CASE Activate
    BY <2>2 DEF Activate, SetStatus
  <2>3. CASE Pause
    BY <2>3 DEF Pause, SetStatus
  <2>4. CASE Kill
    BY <2>4 DEF Kill, SetStatus
  <2>5. CASE Modify
    BY <2>5 DEF Modify
  <2>6. CASE Notify
    BY <2>6 DEF Notify
  <2>7. CASE Join
    BY <2>7 DEF Join
  <2> QED
    BY <2>1, <2>2, <2>3, <2>4, <2>5, <2>6, <2>7 DEF MethodNext
<1> QED
  BY <1>1, <1>2, <1>3 DEF NodeInv

\* The scripts call a method only as its class is made for.
LEMMA CallsAreAllowed ==
  ASSUME NodeInv
  PROVE  /\ \A w \in Workers :
              CallNext(w) => MethodOf(phase) \in Method /\ Call(w, MethodOf(phase))
         /\ InsertJob => Call(JobManager, "modify")
<1>1. ASSUME NEW w \in Workers, CallNext(w)
      PROVE  MethodOf(phase) \in Method /\ Call(w, MethodOf(phase))
  BY <1>1 DEF NodeInv, ClosedOnce, CallNext, Call, LoopPhase, MethodOf, Method
<1>2. InsertJob => Call(JobManager, "modify")
  BY JobManagerAssumption DEF NodeInv, ClosedOnce, InsertJob, Call
<1> QED
  BY <1>1, <1>2

\* A turn of a loop takes one object out of it and calls its method.
LEMMA CallKeepsNodeInv ==
  ASSUME NodeInv, NEW w \in Workers, CallNext(w)
  PROVE  NodeInv'
<1> USE DEF LoopPhase, MethodOf
<1>1. MethodOf(phase) \in Method /\ Call(w, MethodOf(phase))
  BY CallsAreAllowed
<1>2. Inv'
  BY <1>1, CallKeepsInv DEF NodeInv
<1>3. ScriptTypeOK'
  BY DEF NodeInv, ScriptTypeOK, CallNext
<1>4. MethodFitsPhase' /\ ClosedOnce' /\ LoopProgress' /\ LoopDone'
  BY DEF NodeInv, MethodFitsPhase, ClosedOnce, LoopProgress, LoopDone, Underway,
         CallNext, Invoke
<1> QED
  BY <1>2, <1>3, <1>4 DEF NodeInv

\* A phase that ends hands what its loop has done to the next phase.
LEMMA ContinueKeepsNodeInv ==
  ASSUME NodeInv, ScriptNext, ~ \E w \in Workers : CallNext(w)
  PROVE  NodeInv'
<1>1. CASE InsertJob
  <2>1. Inv'
    BY <1>1, CallsAreAllowed, CallKeepsInv, JobManagerAssumption DEF NodeInv, Method
  <2> QED
    BY <1>1, <2>1 DEF InsertJob, Invoke, NodeInv, ScriptTypeOK, Requesting,
       LoopPhase, MethodFitsPhase, ClosedOnce, LoopProgress, LoopDone
<1>2. CASE ~InsertJob
  <2>1. PICK p, q : Continue(p, q)
    BY <1>2 DEF ScriptNext, AllPaused, Settled, RequestDone, AllActivated,
       NextRequest, LastRequest, RequestChunk, AllKilled
  <2>2. Inv'
    BY <2>1 DEF Continue, vars, NodeInv, Inv, TypeOK, MutexOwned,
       PausedIsQuiet, ClosedIsDone, CallInProgress, RoomIsKept, Holding, Working
  <2>3. ScriptTypeOK' /\ MethodFitsPhase' /\ ClosedOnce' /\ LoopProgress' /\ LoopDone'
    BY <1>2 DEF ScriptNext, AllPaused, Settled, RequestDone, AllActivated,
       NextRequest, LastRequest, RequestChunk, AllKilled, Continue, Enter, vars,
       NodeInv, ScriptTypeOK, Requesting, LoopPhase, MethodFitsPhase,
       ClosedOnce, LoopProgress, LoopDone, Underway
  <2> QED
    BY <2>2, <2>3 DEF NodeInv
<1> QED
  BY <1>1, <1>2

\* A new command starts from the prompt, with no method running.
LEMMA CommandKeepsNodeInv ==
  ASSUME NodeInv, CommandNext
  PROVE  NodeInv'
<1> USE DEF CommandNext, PauseCommand, ActivateCommand, RequestCommand,
            AvailCommand, QuitCommand, Command, Enter
<1>1. Inv'
  BY DEF vars, NodeInv, Inv, TypeOK, MutexOwned, PausedIsQuiet,
     ClosedIsDone, CallInProgress, RoomIsKept, Holding, Working
<1>2. ScriptTypeOK' /\ MethodFitsPhase' /\ ClosedOnce' /\ LoopProgress' /\ LoopDone'
  BY DEF vars, NodeInv, ScriptTypeOK, Requesting, LoopPhase, MethodFitsPhase,
     ClosedOnce, LoopProgress, LoopDone
<1> QED
  BY <1>1, <1>2 DEF NodeInv

LEMMA NodeNextKeepsInv ==
  ASSUME NodeInv, [NodeNext]_nodeVars
  PROVE  NodeInv'
<1>1. CASE CommandNext
  BY <1>1, CommandKeepsNodeInv
<1>2. CASE ScriptNext
  BY <1>2, CallKeepsNodeInv, ContinueKeepsNodeInv
<1>3. CASE WorkersNext
  BY <1>3, WorkerKeepsNodeInv, MethodKeepsNodeInv DEF WorkersNext
<1>4. CASE UNCHANGED nodeVars
  BY <1>4 DEF nodeVars, script, vars, NodeInv, Inv, TypeOK, MutexOwned,
     PausedIsQuiet, ClosedIsDone, CallInProgress, RoomIsKept, Holding, Working,
     ScriptTypeOK, MethodFitsPhase, ClosedOnce, LoopProgress, LoopDone, Underway
<1> QED
  BY <1>1, <1>2, <1>3, <1>4 DEF NodeNext

-----------------------------------------------------------------------------
\* The invariant holds throughout every behaviour of a node.
THEOREM NodeInvHolds == NodeSpec => []NodeInv
<1>1. NodeInit => NodeInv
  BY NodeInitInv
<1>2. NodeInv /\ [NodeNext]_nodeVars => NodeInv'
  BY NodeNextKeepsInv
<1> QED
  BY <1>1, <1>2, PTL DEF NodeSpec

\* Types are respected whatever the number of workers.
THEOREM NodeTypeCorrect == NodeSpec => []NodeTypeOK
<1>1. NodeInv => NodeTypeOK
  BY DEF NodeInv, Inv, NodeTypeOK
<1> QED
  BY <1>1, NodeInvHolds, PTL

\* A synchronous request runs with every worker out of its work.
THEOREM SyncRequestIsExclusive == NodeSpec => []SyncRequestExclusive
<1>1. NodeInv => SyncRequestExclusive
  BY DEF NodeInv, Inv, PausedIsQuiet, LoopDone, SyncRequestExclusive
<1> QED
  BY <1>1, NodeInvHolds, PTL

\* A synchronous request leaves every worker active.
THEOREM SyncRequestDoesResume == NodeSpec => []SyncRequestResumes
<1>1. NodeInv => SyncRequestResumes
  BY DEF NodeInv, LoopDone, SyncRequestResumes
<1> QED
  BY <1>1, NodeInvHolds, PTL

\* The node quits with every thread at its end.
THEOREM QuitIsClean == NodeSpec => []QuitLeavesNoThread
<1>1. NodeInv => QuitLeavesNoThread
  BY DEF NodeInv, Inv, ClosedIsDone, LoopDone, QuitLeavesNoThread,
         MethodFitsPhase, LoopPhase
<1> QED
  BY <1>1, NodeInvHolds, PTL

\* A worker's steps set no status, and only its own work adds an item.
LEMMA WorkerLeavesClosedAlone ==
  ASSUME NodeInv, NEW v \in Workers, WorkerNext(v), NEW w \in Workers
  PROVE  /\ status'[w] = status[w] /\ cpc' = cpc
         /\ items'[w] > items[w] => wpc[w] = "inner"
<1> USE DEF NodeInv, Inv, TypeOK
<1>1. CASE InnerModify(v)
  BY <1>1, MaxItemsAssumption DEF InnerModify, Goto
<1>2. CASE FinishWork(v)
  BY <1>2, MaxItemsAssumption DEF FinishWork, Goto
<1>3. CASE ~InnerModify(v) /\ ~FinishWork(v)
  BY <1>3, MaxItemsAssumption
     DEF WorkerNext, Lock, Wait, BeginWork, SpuriousWakeup, Reacquire, InnerLock, Loop
<1> QED
  BY <1>1, <1>2, <1>3

\* No step of the main thread, in a method or between two, touches an object
\* that is closed: a running method has found its target open.
THEOREM ClosedIsLeftAloneTheorem == NodeSpec => ClosedIsLeftAlone
<1> DEFINE Alone == \A w \in Workers :
              status[w] = "KILL" =>
                /\ status'[w] = "KILL"
                /\ items'[w] > items[w] => wpc[w] = "inner"
                /\ cpc = "idle" /\ cpc' = "lock" => target' # w
<1>1. NodeInv /\ [NodeNext]_nodeVars => [Alone]_nodeVars
  <2> SUFFICES ASSUME NodeInv, NodeNext, NEW w \in Workers, status[w] = "KILL"
               PROVE  /\ status'[w] = "KILL"
                      /\ items'[w] > items[w] => wpc[w] = "inner"
                      /\ cpc = "idle" /\ cpc' = "lock" => target' # w
    OBVIOUS
  <2> USE MaxItemsAssumption DEF NodeInv, Inv, TypeOK
  <2>1. CASE CommandNext
    BY <2>1 DEF CommandNext, PauseCommand, ActivateCommand, RequestCommand,
       AvailCommand, QuitCommand, Command, vars
  <2>2. CASE InsertJob
    BY <2>2, CallsAreAllowed DEF Call, Invoke
  <2>3. CASE \E v \in Workers : CallNext(v)
    BY <2>3, CallsAreAllowed DEF Call, Invoke
  <2>4. CASE ScriptNext /\ ~InsertJob /\ ~ \E v \in Workers : CallNext(v)
    BY <2>4 DEF ScriptNext, AllPaused, Settled, RequestDone, AllActivated,
       NextRequest, LastRequest, RequestChunk, AllKilled, Continue, vars
  <2>5. CASE WorkersNext /\ MethodNext
    BY <2>5 DEF MethodNext, CallerLock, Activate, Pause, Kill, Modify, Notify,
       Join, SetStatus, CallInProgress
  <2>6. CASE WorkersNext /\ \E v \in Workers : WorkerNext(v)
    BY <2>6, WorkerLeavesClosedAlone
  <2> QED
    BY <2>1, <2>2, <2>3, <2>4, <2>5, <2>6 DEF NodeNext, WorkersNext
<1> QED
  BY <1>1, NodeInvHolds, PTL DEF NodeSpec, ClosedIsLeftAlone
=============================================================================
