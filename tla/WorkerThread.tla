---------------------------- MODULE WorkerThread ----------------------------
(***************************************************************************)
(* The class WorkerThread (workerThread.h, workerThread.cpp): a thread     *)
(* that runs a piece of work over and over, holding a recursive mutex for  *)
(* the whole of each run, and that the main thread pauses, activates,      *)
(* kills and joins.  A node owns one WorkerThread per local Bluetooth      *)
(* device (its servers) and one more, the job manager, whose predicate is  *)
(* that its list of jobs is not empty.                                     *)
(*                                                                         *)
(* Each object has its own mutex, condition variable and status.  Only the *)
(* main thread calls activate, pause and close; modify is called by the    *)
(* main thread and, from inside the work, by the worker thread itself.     *)
(***************************************************************************)
EXTENDS Naturals

CONSTANTS Workers,     \* the WorkerThread objects of one node
          Predicated,  \* those built with a predicate on their work items
          MaxItems     \* bound on the work items of an object

ASSUME PredicatedAssumption == Predicated \subseteq Workers
ASSUME MaxItemsAssumption == MaxItems \in Nat

VARIABLES status,  \* status[w]: the atomic Status of w
          owner,   \* owner[w]: the thread that holds the mutex event->m of w
          depth,   \* depth[w]: how many times the owner holds it
          wpc,     \* wpc[w]: where the thread of w is in workerLoop
          items,   \* items[w]: the number of work items the predicate looks at
          op,      \* the method the main thread is executing,
          target,  \* the object it was called on,
          cpc      \* and where the main thread is in it

vars == <<status, owner, depth, wpc, items, op, target, cpc>>

Status == {"ACTIVE", "PAUSE", "KILL"}
Method == {"activate", "pause", "close", "modify"}
Holding == {"check", "work", "inner"}   \* worker positions inside the lock
Working == {"work", "inner"}            \* worker positions inside w()

TypeOK ==
  /\ status \in [Workers -> Status]
  /\ owner \in [Workers -> {"none", "worker", "main"}]
  /\ depth \in [Workers -> 0..2]
  /\ wpc \in [Workers -> {"lock", "check", "waiting", "woken", "work",
                          "inner", "sleep", "done"}]
  /\ items \in [Workers -> 0..MaxItems]
  /\ op \in Method
  /\ target \in Workers
  /\ cpc \in {"idle", "lock", "body", "notify", "join"}

\* The constructor: status ACTIVE, a fresh event, and a thread about to enter
\* its loop.
Init ==
  /\ status = [w \in Workers |-> "ACTIVE"]
  /\ owner = [w \in Workers |-> "none"]
  /\ depth = [w \in Workers |-> 0]
  /\ wpc = [w \in Workers |-> "lock"]
  /\ items = [w \in Workers |-> 0]
  /\ op = "activate"
  /\ target \in Workers
  /\ cpc = "idle"

\* Slip: the thread does not wait for the mutex to be free.
AcquireAnyway(w, t) ==
  /\ owner' = [owner EXCEPT ![w] = t]
  /\ depth' = [depth EXCEPT ![w] = 1]

Acquire(w, t) ==
  /\ owner[w] = "none"
  /\ owner' = [owner EXCEPT ![w] = t]
  /\ depth' = [depth EXCEPT ![w] = 1]

Release(w) ==
  /\ owner' = [owner EXCEPT ![w] = "none"]
  /\ depth' = [depth EXCEPT ![w] = 0]

Goto(w, l) == wpc' = [wpc EXCEPT ![w] = l]

HasWork(w) == w \notin Predicated \/ items[w] > 0

\* The condition workerLoop waits for.
MayRun(w) == (status[w] # "PAUSE" /\ HasWork(w)) \/ status[w] = "KILL"

-----------------------------------------------------------------------------
(* The worker thread. *)

Lock(w) ==
  /\ wpc[w] = "lock"
  /\ Acquire(w, "worker")
  /\ Goto(w, "check")
  /\ UNCHANGED <<status, items, op, target, cpc>>

\* cv.wait: the predicate is false, so the thread releases the mutex and
\* joins the waiters in one step.
Wait(w) ==
  /\ wpc[w] = "check"
  /\ ~MayRun(w)
  /\ Release(w)
  /\ Goto(w, "waiting")
  /\ UNCHANGED <<status, items, op, target, cpc>>

BeginWork(w) ==
  /\ wpc[w] = "check"
  /\ MayRun(w)
  /\ Goto(w, "work")
  /\ UNCHANGED <<status, owner, depth, items, op, target, cpc>>

\* A condition variable may wake its waiter without a notification.
SpuriousWakeup(w) ==
  /\ wpc[w] = "waiting"
  /\ Goto(w, "woken")
  /\ UNCHANGED <<status, owner, depth, items, op, target, cpc>>

Reacquire(w) ==
  /\ wpc[w] = "woken"
  /\ Acquire(w, "worker")
  /\ Goto(w, "check")
  /\ UNCHANGED <<status, items, op, target, cpc>>

\* The work calls modify on its own object: the mutex is recursive.
InnerLock(w) ==
  /\ wpc[w] = "work"
  /\ w \in Predicated
  /\ items[w] < MaxItems
  /\ owner[w] \in {"none", "worker"}
  /\ owner' = [owner EXCEPT ![w] = "worker"]
  /\ depth' = [depth EXCEPT ![w] = @ + 1]
  /\ Goto(w, "inner")
  /\ UNCHANGED <<status, items, op, target, cpc>>

InnerModify(w) ==
  /\ wpc[w] = "inner"
  /\ items' = [items EXCEPT ![w] = @ + 1]
  /\ depth' = [depth EXCEPT ![w] = @ - 1]
  /\ Goto(w, "work")
  /\ UNCHANGED <<status, owner, op, target, cpc>>

\* Slip: the work pops an item without looking whether there is one.
FinishWorkUnchecked(w) ==
  /\ wpc[w] = "work"
  /\ items' = [items EXCEPT ![w] = IF w \in Predicated THEN @ - 1 ELSE @]
  /\ Release(w)
  /\ Goto(w, "sleep")
  /\ UNCHANGED <<status, op, target, cpc>>

\* Slip: the loop sleeps with the mutex held.
FinishWorkLocked(w) ==
  /\ wpc[w] = "work"
  /\ items' = [items EXCEPT ![w] = IF @ > 0 THEN @ - 1 ELSE 0]
  /\ Goto(w, "sleep")
  /\ UNCHANGED <<status, owner, depth, op, target, cpc>>

\* The work ends (a predicated one has used up an item, if there was any) and
\* the loop unlocks.
FinishWork(w) ==
  /\ wpc[w] = "work"
  /\ items' = [items EXCEPT ![w] = IF @ > 0 THEN @ - 1 ELSE 0]
  /\ Release(w)
  /\ Goto(w, "sleep")
  /\ UNCHANGED <<status, op, target, cpc>>

\* The 20 ms sleep is over: while (status != KILL).
Loop(w) ==
  /\ wpc[w] = "sleep"
  /\ Goto(w, IF status[w] # "KILL" THEN "lock" ELSE "done")
  /\ UNCHANGED <<status, owner, depth, items, op, target, cpc>>

-----------------------------------------------------------------------------
(* The main thread in a method of an object. *)

\* The call itself.  The class checks nothing: not whether the object has been
\* closed, and not whether it has work items.
Invoke(w, m) ==
  /\ op' = m
  /\ target' = w
  /\ cpc' = "lock"
  /\ UNCHANGED <<status, owner, depth, wpc, items>>

\* The calls the class is made for.  That the node makes no other is a property
\* of NodeThreads (ClosedIsLeftAlone).
Call(w, m) ==
  /\ cpc = "idle"
  /\ status[w] # "KILL"
  /\ m = "modify" => w \in Predicated
  /\ Invoke(w, m)

CallerLock ==
  /\ cpc = "lock"
  /\ op = "modify" => items[target] < MaxItems
  /\ Acquire(target, "main")
  /\ cpc' = "body"
  /\ UNCHANGED <<status, wpc, items, op, target>>

\* setStatus under the lock, then unlock.
SetStatus(m, s) ==
  /\ cpc = "body"
  /\ op = m
  /\ status' = [status EXCEPT ![target] = s]
  /\ Release(target)
  /\ cpc' = "notify"
  /\ UNCHANGED <<wpc, items, op, target>>

Activate == SetStatus("activate", "ACTIVE")
Pause == SetStatus("pause", "PAUSE")
Kill == SetStatus("close", "KILL")

\* modify runs the caller's function under the lock; it notifies no one.
Modify ==
  /\ cpc = "body"
  /\ op = "modify"
  /\ items' = [items EXCEPT ![target] = @ + 1]
  /\ Release(target)
  /\ cpc' = "idle"
  /\ UNCHANGED <<status, wpc, op, target>>

\* Slip: no one is notified of the new status.
NotifyNoOne ==
  /\ cpc = "notify"
  /\ cpc' = IF op = "close" THEN "join" ELSE "idle"
  /\ UNCHANGED <<status, owner, depth, wpc, items, op, target>>

\* Slip: close returns without joining the thread.
NotifyWithoutJoin ==
  /\ cpc = "notify"
  /\ wpc' = [wpc EXCEPT ![target] = IF @ = "waiting" THEN "woken" ELSE @]
  /\ cpc' = "idle"
  /\ UNCHANGED <<status, owner, depth, items, op, target>>

\* cv.notify_one, outside the lock; close goes on to join the thread.
Notify ==
  /\ cpc = "notify"
  /\ wpc' = [wpc EXCEPT ![target] = IF @ = "waiting" THEN "woken" ELSE @]
  /\ cpc' = IF op = "close" THEN "join" ELSE "idle"
  /\ UNCHANGED <<status, owner, depth, items, op, target>>

Join ==
  /\ cpc = "join"
  /\ wpc[target] = "done"
  /\ cpc' = "idle"
  /\ UNCHANGED <<status, owner, depth, wpc, items, op, target>>

-----------------------------------------------------------------------------
WorkerNext(w) ==
  \/ Lock(w) \/ Wait(w) \/ BeginWork(w) \/ SpuriousWakeup(w) \/ Reacquire(w)
  \/ InnerLock(w) \/ InnerModify(w) \/ FinishWork(w) \/ Loop(w)

MethodNext ==
  CallerLock \/ Activate \/ Pause \/ Kill \/ Modify \/ Notify \/ Join

Next ==
  \/ \E w \in Workers : WorkerNext(w)
  \/ \E w \in Workers, m \in Method : Call(w, m)
  \/ MethodNext

\* A run of the work ends, and a thread that competes for a mutex gets it in
\* the end: the other side gives it up for at least 20 ms a round.  Nothing
\* makes the user call a method, and nothing causes a spurious wakeup.
WorkerFairness(w) ==
  /\ SF_vars(Lock(w))
  /\ SF_vars(Reacquire(w))
  /\ WF_vars(Wait(w) \/ BeginWork(w))
  /\ WF_vars(InnerModify(w))
  /\ SF_vars(FinishWork(w))
  /\ WF_vars(Loop(w))

MethodFairness ==
  /\ SF_vars(CallerLock)
  /\ WF_vars(Activate \/ Pause \/ Kill \/ Modify \/ Notify \/ Join)

Fairness == (\A w \in Workers : WorkerFairness(w)) /\ MethodFairness

Spec == Init /\ [][Next]_vars /\ Fairness

-----------------------------------------------------------------------------
(* Properties. *)

\* The mutex is held exactly by the thread that is between its lock and its
\* unlock, twice only inside a nested modify.
MutexOwned ==
  \A w \in Workers :
    /\ (owner[w] = "worker") <=> (wpc[w] \in Holding)
    /\ (owner[w] = "main") <=> (cpc = "body" /\ target = w)
    /\ depth[w] = (IF owner[w] = "none" THEN 0
                   ELSE IF wpc[w] = "inner" THEN 2 ELSE 1)

\* Once pause has set its status no run of the work is in progress, and none
\* begins until activate: pause waits for the run it finds (workerThread.cpp,
\* pause; workerThread.h, the wait of workerLoop).
PausedIsQuiet ==
  \A w \in Workers : status[w] = "PAUSE" => wpc[w] \notin Working

\* When close returns, the thread has left its loop for good
\* (workerThread.cpp, close).
ClosedIsDone ==
  \A w \in Workers :
    status[w] = "KILL" =>
      \/ wpc[w] = "done"
      \/ cpc \in {"notify", "join"} /\ op = "close" /\ target = w

\* Every call of the main thread returns: it neither waits for ever for a
\* mutex nor joins a thread that never ends.  (A modify at the bound MaxItems
\* is not counted: it waits for the bound, not for the code.)
CallsReturn ==
  (cpc # "idle" /\ op # "modify") ~> (cpc = "idle")

\* An activate that finds work items leads to a run of the work, unless a
\* later call changes the status first.
ActivateStartsWork ==
  \A w \in Predicated :
    (cpc = "notify" /\ op = "activate" /\ target = w /\ items[w] > 0)
      ~> (wpc[w] = "work" \/ status[w] # "ACTIVE")
=============================================================================
