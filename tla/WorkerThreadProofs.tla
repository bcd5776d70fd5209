------------------------- MODULE WorkerThreadProofs -------------------------
(* What WorkerThread guarantees for any set of workers and any bound on      *)
(* their work items.                                                         *)
EXTENDS WorkerThread, TLAPS

\* The strengthening: ClosedIsDone needs the object being closed to be the
\* target of the running call, and a call that is past its guard to have left
\* the status of its target alone so far.
CallInProgress ==
  cpc \in {"lock", "body"} => status[target] # "KILL"

\* A modify that has the mutex still has the room it found when it took it.
RoomIsKept ==
  /\ \A w \in Workers : wpc[w] = "inner" => items[w] < MaxItems
  /\ cpc = "body" /\ op = "modify" => items[target] < MaxItems

Inv ==
  /\ TypeOK
  /\ MutexOwned
  /\ PausedIsQuiet
  /\ ClosedIsDone
  /\ CallInProgress
  /\ RoomIsKept

\* The constructed objects satisfy the invariant.
LEMMA InitInv == Init => Inv
  BY MaxItemsAssumption
     DEF Init, Inv, TypeOK, MutexOwned, PausedIsQuiet, ClosedIsDone,
         CallInProgress, RoomIsKept, Status, Method, Holding, Working

\* The steps of a worker thread keep the invariant.
LEMMA WorkerKeepsInv ==
  ASSUME Inv, NEW w \in Workers, WorkerNext(w), MaxItems \in Nat
  PROVE  Inv'
<1> USE DEF Inv, TypeOK, MutexOwned, PausedIsQuiet, ClosedIsDone,
            CallInProgress, RoomIsKept, Status, Method, Holding, Working
<1>1. CASE Lock(w)
  BY <1>1 DEF Lock, Acquire, Goto
<1>2. CASE Wait(w)
  BY <1>2 DEF Wait, Release, Goto, MayRun, HasWork
<1>3. CASE BeginWork(w)
  BY <1>3 DEF BeginWork, Goto, MayRun, HasWork
<1>4. CASE SpuriousWakeup(w)
  BY <1>4 DEF SpuriousWakeup, Goto
<1>5. CASE Reacquire(w)
  BY <1>5 DEF Reacquire, Acquire, Goto
<1>6. CASE InnerLock(w)
  BY <1>6 DEF InnerLock, Goto
<1>7. CASE InnerModify(w)
  <2>1. depth[w] = 2
    BY <1>7 DEF InnerModify
  <2>2. TypeOK'
    BY <1>7, <2>1 DEF InnerModify, Goto
  <2>3. MutexOwned'
    BY <1>7, <2>1 DEF InnerModify, Goto
  <2> QED
    BY <1>7, <2>2, <2>3 DEF InnerModify, Goto
<1>8. CASE FinishWork(w)
  BY <1>8 DEF FinishWork, Release, Goto
<1>9. CASE Loop(w)
  BY <1>9 DEF Loop, Goto
<1> QED
  BY <1>1, <1>2, <1>3, <1>4, <1>5, <1>6, <1>7, <1>8, <1>9 DEF WorkerNext

\* The steps of the main thread inside a method keep the invariant.
LEMMA MethodKeepsInv ==
  ASSUME Inv, MethodNext, MaxItems \in Nat
  PROVE  Inv'
<1> USE DEF Inv, TypeOK, MutexOwned, PausedIsQuiet, ClosedIsDone,
            CallInProgress, RoomIsKept, Status, Method, Holding, Working
<1>1. CASE CallerLock
  BY <1>1 DEF CallerLock, Acquire
<1>2. CASE Activate
  BY <1>2 DEF Activate, SetStatus, Release
<1>3. CASE Pause
  BY <1>3 DEF Pause, SetStatus, Release
<1>4. CASE Kill
  BY <1>4 DEF Kill, SetStatus, Release
<1>5. CASE Modify
  BY <1>5 DEF Modify, Release
<1>6. CASE Notify
  BY <1>6 DEF Notify
<1>7. CASE Join
  BY <1>7 DEF Join
<1> QED
  BY <1>1, <1>2, <1>3, <1>4, <1>5, <1>6, <1>7 DEF MethodNext

\* Starting a method keeps the invariant: it is never one of a closed object.
LEMMA CallKeepsInv ==
  ASSUME Inv, NEW w \in Workers, NEW m \in Method, Call(w, m)
  PROVE  Inv'
BY DEF Inv, TypeOK, MutexOwned, PausedIsQuiet, ClosedIsDone, CallInProgress,
       RoomIsKept, Status, Method, Holding, Working, Call, Invoke

LEMMA NextKeepsInv ==
  ASSUME Inv, [Next]_vars
  PROVE  Inv'
<1>1. CASE \E w \in Workers : WorkerNext(w)
  BY <1>1, WorkerKeepsInv, MaxItemsAssumption
<1>2. CASE \E w \in Workers, m \in Method : Call(w, m)
  BY <1>2, CallKeepsInv
<1>3. CASE MethodNext
  BY <1>3, MethodKeepsInv, MaxItemsAssumption
<1>4. CASE UNCHANGED vars
  BY <1>4 DEF vars, Inv, TypeOK, MutexOwned, PausedIsQuiet, ClosedIsDone,
              CallInProgress, RoomIsKept, Holding, Working
<1> QED
  BY <1>1, <1>2, <1>3, <1>4 DEF Next

-----------------------------------------------------------------------------
\* The invariant holds throughout every behaviour.
THEOREM InvHolds == Spec => []Inv
<1>1. Init => Inv
  BY InitInv
<1>2. Inv /\ [Next]_vars => Inv'
  BY NextKeepsInv
<1> QED
  BY <1>1, <1>2, PTL DEF Spec

\* Types are respected whatever the number of workers and work items.
THEOREM TypeCorrect == Spec => []TypeOK
<1>1. Inv => TypeOK
  BY DEF Inv
<1> QED
  BY <1>1, InvHolds, PTL

\* Each recursive mutex is held by the thread that is between its lock and
\* its unlock and by no other, to the depth of its nesting.
THEOREM MutexOwnedTheorem == Spec => []MutexOwned
<1>1. Inv => MutexOwned
  BY DEF Inv
<1> QED
  BY <1>1, InvHolds, PTL

\* A pause returns to a thread that is not working and will not begin.
THEOREM PausedIsQuietTheorem == Spec => []PausedIsQuiet
<1>1. Inv => PausedIsQuiet
  BY DEF Inv
<1> QED
  BY <1>1, InvHolds, PTL

\* A close returns when its thread has ended.
THEOREM ClosedIsDoneTheorem == Spec => []ClosedIsDone
<1>1. Inv => ClosedIsDone
  BY DEF Inv
<1> QED
  BY <1>1, InvHolds, PTL
=============================================================================
