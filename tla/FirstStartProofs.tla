-------------------------- MODULE FirstStartProofs --------------------------
(***************************************************************************)
(* The counter of DBConnection is exact, and the connection is there as    *)
(* long as a handle is alive, for any finite set of handles and any width  *)
(* of the counter that can count them; the database is complete whenever a *)
(* node runs, and what DBConnection guarantees of one run of the program   *)
(* holds for every run of it.                                              *)
(***************************************************************************)
EXTENDS FirstStart, FiniteSetTheorems, TLAPS

-----------------------------------------------------------------------------
(* One run of the program: DBConnection. *)

\* Before the threads run, nobody is alive, and the main thread is counted
\* exactly while it reads the rows.
StartIsQuiet ==
  /\ pc \in {"init", "rows"} => counter = 0 /\ con = "none" /\ Alive = {}
  /\ pc = "connected" => counter = 1 /\ con # "none" /\ Alive = {}

\* The connection follows the counter.
ConFollowsCounter == pc = "running" => (con = "none" <=> counter = 0)

Inv == TypeOK /\ StartIsQuiet /\ CounterIsExact /\ ConFollowsCounter

-----------------------------------------------------------------------------
\* The handles alive are a finite set, too small for the counter to wrap.
LEMMA AliveIsFinite ==
  /\ IsFiniteSet(Alive)
  /\ Cardinality(Alive) \in Nat
  /\ Cardinality(Alive) < CounterMax
  /\ Cardinality(Alive) = 0 <=> Alive = {}
<1>1. IsFiniteSet(Handles) /\ Cardinality(Handles) < CounterMax
  BY HandlesAssumption
<1>2. Alive \subseteq Handles
  BY DEF Alive
<1>3. IsFiniteSet(Alive) /\ Cardinality(Alive) <= Cardinality(Handles)
  BY <1>1, <1>2, FS_Subset
<1>4. Cardinality(Alive) \in Nat /\ Cardinality(Handles) \in Nat
  BY <1>1, <1>3, FS_CardinalityType
<1>5. Cardinality(Alive) = 0 <=> Alive = {}
  BY <1>3, FS_EmptySet
<1> QED
  BY <1>1, <1>3, <1>4, <1>5, CounterAssumption

\* The handles alive when h has changed from one state to another.
LEMMA AliveAfter ==
  ASSUME TypeOK, NEW h \in Handles,
         NEW s \in {"none", "connected", "open", "updated"},
         handle' = [handle EXCEPT ![h] = s]
  PROVE  Alive' = IF s = "none" THEN Alive \ {h} ELSE Alive \union {h}
BY DEF TypeOK, Alive

\* A handle comes alive: the counter, and the set, grow by one.
LEMMA Joins ==
  ASSUME TypeOK, counter = Cardinality(Alive), NEW h \in Handles,
         handle[h] = "none", handle' = [handle EXCEPT ![h] = "connected"],
         counter' = Increment(counter)
  PROVE  counter' = Cardinality(Alive') /\ counter' \in 1..CounterMax
<1>1. Alive' = Alive \union {h}
  BY AliveAfter
<1>2. h \notin Alive
  BY DEF Alive
<1>3. Cardinality(Alive \union {h}) = Cardinality(Alive) + 1
  BY <1>2, AliveIsFinite, FS_AddElement
<1>4. counter' = counter + 1 /\ counter' \in 1..CounterMax
  BY AliveIsFinite, CounterAssumption DEF Increment
<1> QED
  BY <1>1, <1>3, <1>4

\* A handle dies: the counter, and the set, shrink by one.
LEMMA Leaves ==
  ASSUME TypeOK, counter = Cardinality(Alive), NEW h \in Handles,
         handle[h] # "none", handle' = [handle EXCEPT ![h] = "none"],
         DisconnectIfNeeded
  PROVE  /\ counter' = Cardinality(Alive')
         /\ counter' \in 0..CounterMax
         /\ counter > 0
<1>1. Alive' = Alive \ {h}
  BY AliveAfter
<1>2. h \in Alive
  BY DEF Alive
<1>3. Cardinality(Alive \ {h}) = Cardinality(Alive) - 1
  BY <1>2, AliveIsFinite, FS_RemoveElement
<1>4. counter > 0
  BY <1>2, AliveIsFinite
<1>5. counter' = counter - 1 /\ counter' \in 0..CounterMax
  BY <1>4, AliveIsFinite, CounterAssumption DEF DisconnectIfNeeded, Decrement
<1> QED
  BY <1>1, <1>3, <1>4, <1>5

-----------------------------------------------------------------------------
LEMMA InitInv == Init => Inv
<1> SUFFICES ASSUME Init PROVE Inv
  OBVIOUS
<1>1. Alive = {}
  BY DEF Init, Alive
<1> QED
  BY <1>1, CounterAssumption
  DEF Init, Inv, TypeOK, StartIsQuiet, CounterIsExact, ConFollowsCounter

LEMMA StepInv == Inv /\ [Next]_vars => Inv'
<1> SUFFICES ASSUME Inv, [Next]_vars PROVE Inv'
  OBVIOUS
<1> USE DEF Inv
<1>0. UNCHANGED handle => Alive' = Alive
  BY DEF Alive
<1>1. CASE InitDB
  BY <1>0, <1>1 DEF InitDB, TypeOK, StartIsQuiet, CounterIsExact, ConFollowsCounter
<1>2. CASE ConnectForRows
  <2>1. counter = 0 /\ con = "none" /\ Alive' = {} /\ pc' \in {"connected", "failed"}
    BY <1>0, <1>2 DEF ConnectForRows, StartIsQuiet
  <2>2. CASE pc' = "connected"
    <3>1. counter' = 1 /\ con' = "valid"
      BY <1>2, <2>1, <2>2, AliveIsFinite, CounterAssumption
      DEF ConnectForRows, ConnectIfNeeded, Increment
    <3> QED
      BY <1>2, <2>1, <2>2, <3>1, AliveIsFinite, CounterAssumption
      DEF ConnectForRows, TypeOK, StartIsQuiet, CounterIsExact, ConFollowsCounter
  <2>3. CASE pc' = "failed"
    BY <1>2, <2>1, <2>3, AliveIsFinite, CounterAssumption
    DEF ConnectForRows, ConnectIfNeeded, Increment, DisconnectIfNeeded, Decrement,
        TypeOK, StartIsQuiet, CounterIsExact, ConFollowsCounter
  <2> QED
    BY <2>1, <2>2, <2>3
<1>3. CASE ReadRows
  <2>1. counter = 1 /\ Alive' = {} /\ pc' \in {"running", "failed"}
    BY <1>0, <1>3 DEF ReadRows, StartIsQuiet
  <2>2. counter' = 0 /\ con' = "none"
    BY <1>3, <2>1 DEF ReadRows, DisconnectIfNeeded, Decrement
  <2>3. Cardinality(Alive') = 0
    BY <2>1, FS_EmptySet
  <2> QED
    BY <1>3, <2>1, <2>2, <2>3, CounterAssumption
    DEF ReadRows, TypeOK, StartIsQuiet, CounterIsExact, ConFollowsCounter
<1>4. CASE Lose
  BY <1>0, <1>4 DEF Lose, TypeOK, StartIsQuiet, CounterIsExact, ConFollowsCounter
<1>5. ASSUME NEW h \in Handles, Construct(h) PROVE Inv'
  <2>1. pc = "running" /\ pc' = "running" /\ counter = Cardinality(Alive)
    BY <1>5 DEF Construct, CounterIsExact
  <2>2. CASE ConnectIfNeeded(TRUE) /\ handle' = [handle EXCEPT ![h] = "connected"]
    <3>1. counter' = Cardinality(Alive') /\ counter' \in 1..CounterMax
      BY <1>5, <2>1, <2>2, Joins DEF Construct, ConnectIfNeeded
    <3>2. con' \in {"valid", "lost"}
      BY <2>1, <2>2 DEF ConnectIfNeeded, TypeOK, ConFollowsCounter
    <3> QED
      BY <2>1, <2>2, <3>1, <3>2, CounterAssumption
      DEF TypeOK, StartIsQuiet, CounterIsExact, ConFollowsCounter
  <2>3. CASE ConnectIfNeeded(FALSE) /\ UNCHANGED handle
    BY <1>0, <2>1, <2>3
    DEF ConnectIfNeeded, TypeOK, StartIsQuiet, CounterIsExact, ConFollowsCounter
  <2> QED
    BY <1>5, <2>2, <2>3 DEF Construct
<1>6. ASSUME NEW h \in Handles, pc = "running", pc' = "running",
             handle[h] # "none", DisconnectIfNeeded,
             handle' = [handle EXCEPT ![h] = "none"]
      PROVE  Inv'
  <2>1. /\ counter' = Cardinality(Alive')
        /\ counter' \in 0..CounterMax
        /\ counter > 0
    BY <1>6, Leaves DEF CounterIsExact
  <2>2. con' \in {"none", "valid", "lost"} /\ (con' = "none" <=> counter' = 0)
    BY <1>6, <2>1 DEF DisconnectIfNeeded, TypeOK, ConFollowsCounter
  <2> QED
    BY <1>6, <2>1, <2>2 DEF TypeOK, StartIsQuiet, CounterIsExact, ConFollowsCounter
<1>7. ASSUME NEW h \in Handles, NEW s \in {"open", "updated"},
             pc = "running", pc' = "running", handle[h] # "none",
             handle' = [handle EXCEPT ![h] = s], UNCHANGED <<con, counter>>
      PROVE  Inv'
  <2>1. Alive' = Alive
    <3>1. Alive' = Alive \union {h}
      BY <1>7, AliveAfter
    <3> QED
      BY <1>7, <3>1 DEF Alive
  <2> QED
    BY <1>7, <2>1 DEF TypeOK, StartIsQuiet, CounterIsExact, ConFollowsCounter
<1>8. ASSUME NEW h \in Handles, SetSchema(h) PROVE Inv'
  BY <1>6, <1>7, <1>8 DEF SetSchema
<1>9. ASSUME NEW h \in Handles, Update(h) PROVE Inv'
  <2>1. CASE handle' = [handle EXCEPT ![h] = "updated"] /\ UNCHANGED pc
    BY <1>7, <1>9, <2>1 DEF Update
  <2>2. CASE pc' = "terminated" /\ UNCHANGED handle
    BY <1>0, <1>9, <2>2
    DEF Update, TypeOK, StartIsQuiet, CounterIsExact, ConFollowsCounter
  <2> QED
    BY <1>9, <2>1, <2>2 DEF Update
<1>10. ASSUME NEW h \in Handles, Destroy(h) PROVE Inv'
  BY <1>6, <1>10 DEF Destroy
<1>11. CASE UNCHANGED vars
  BY <1>0, <1>11 DEF vars, TypeOK, StartIsQuiet, CounterIsExact, ConFollowsCounter
<1> QED
  BY <1>1, <1>2, <1>3, <1>4, <1>5, <1>8, <1>9, <1>10, <1>11 DEF Next

\* The invariant of every behaviour of db.cpp.
THEOREM InvHolds == Spec => []Inv
<1>1. Init => Inv
  BY InitInv
<1>2. Inv /\ [Next]_vars => Inv'
  BY StepInv
<1> QED
  BY <1>1, <1>2, PTL DEF Spec

\* The counter is the number of handles alive, whatever constructor has thrown
\* and whenever the connection was lost (db.cpp, connectIfNeeded).
THEOREM CounterIsExactTheorem == Spec => []CounterIsExact
<1>1. Inv => CounterIsExact
  BY DEF Inv
<1> QED
  BY <1>1, InvHolds, PTL

\* The connection exists exactly while a handle is alive (db.cpp,
\* disconnectIfNeeded).
THEOREM ConnectedWhileAliveTheorem == Spec => []ConnectedWhileAlive
<1>1. Inv => ConnectedWhileAlive
  BY AliveIsFinite DEF Inv, ConnectedWhileAlive, CounterIsExact, ConFollowsCounter
<1> QED
  BY <1>1, InvHolds, PTL

-----------------------------------------------------------------------------
(* Every run of it, and the first start: FirstStart. *)

\* The tables exist as far as the script has come; the rights come last.
ScriptInOrder ==
  /\ has \subseteq Things
  /\ next \in 0..7
  /\ next >= 2 => "schema" \in has
  /\ next >= 4 => "torrents" \in has
  /\ next >= 5 => "files" \in has
  /\ next >= 6 => "chunks" \in has
  /\ "grant" \in has => Things \subseteq has

\* A node gets to run only by the rights.
RightsOfRunning == pc = "running" => "grant" \in has

FirstInv == Inv /\ ScriptInOrder /\ RightsOfRunning

LEMMA InitFirstInv == FirstInit => FirstInv
BY InitInv DEF FirstInit, Init, FirstInv, ScriptInOrder, RightsOfRunning

\* What each statement of the script leaves behind.
LEMMA ScriptMakes ==
  /\ Len(Script) = 7
  /\ \A i \in 1..5 : Script[i] \notin {"account", "grant"}
  /\ Makes(Script[1]) = {"schema"}
  /\ Makes(Script[2]) = {}
  /\ Makes(Script[3]) = {"torrents"}
  /\ Makes(Script[4]) = {"files"}
  /\ Makes(Script[5]) = {"chunks"}
  /\ Makes(Script[6]) = {"account"}
  /\ Makes(Script[7]) = {"account", "grant"}
<1>1. /\ Script[1] = "schema" /\ Script[2] = "use" /\ Script[3] = "torrents"
      /\ Script[4] = "files" /\ Script[5] = "chunks" /\ Script[6] = "account"
      /\ Script[7] = "grant" /\ Len(Script) = 7
  BY DEF Script
<1>2. \A i \in 1..5 : i = 1 \/ i = 2 \/ i = 3 \/ i = 4 \/ i = 5
  OBVIOUS
<1>3. \A i \in 1..5 : Script[i] \notin {"account", "grant"}
  BY <1>1, <1>2
<1>4. Makes("schema") = {"schema"} /\ Makes("use") = {}
  BY DEF Makes, Things, Tables
<1>5. Makes("torrents") = {"torrents"} /\ Makes("files") = {"files"}
  BY DEF Makes, Things, Tables
<1>6. Makes("chunks") = {"chunks"} /\ Makes("account") = {"account"}
  BY DEF Makes, Things, Tables
<1>7. Makes("grant") = {"account", "grant"}
  BY DEF Makes
<1> QED
  BY <1>1, <1>3, <1>4, <1>5, <1>6, <1>7

LEMMA ThingsAre ==
  Things = {"schema", "torrents", "files", "chunks", "account", "grant"}
BY DEF Things, Tables

\* The statements of --init keep the order, whichever fails.
LEMMA ScriptKeepsOrder ==
  ASSUME ScriptInOrder, StartFirst \/ ExecuteStatement \/ SkipStatement \/ EndFirst
  PROVE  ScriptInOrder' /\ has \subseteq has'
<1> USE DEF ScriptInOrder
<1>1. CASE next' \in {0, 1} /\ has' = has
  BY <1>1
<1>2. CASE StartFirst \/ EndFirst
  BY <1>1, <1>2 DEF StartFirst, EndFirst
<1>3. CASE SkipStatement
  <2>1. next \in {6, 7} /\ has' = has /\ next' = IF next = 7 THEN 0 ELSE next + 1
    BY <1>3, ScriptMakes DEF SkipStatement, AfterNext
  <2> QED
    BY <2>1
<1>4. CASE ExecuteStatement
  <2>1. next \in 1..7 /\ has' = has \union Makes(Script[next])
    BY <1>4 DEF ExecuteStatement
  <2>2. next' = IF next = 7 THEN 0 ELSE next + 1
    BY <1>4, ScriptMakes DEF ExecuteStatement, AfterNext
  <2>3. Makes(Script[next]) \subseteq Things
    BY <2>1, ScriptMakes, ThingsAre
  <2>4. has' \subseteq Things /\ has \subseteq has'
    BY <2>1, <2>3
  <2>5. next' \in 0..7
    BY <2>1, <2>2
  <2>6. next' >= 2 => "schema" \in has'
    BY <2>1, <2>2, ScriptMakes
  <2>7. next' >= 4 => "torrents" \in has'
    BY <2>1, <2>2, ScriptMakes
  <2>8. next' >= 5 => "files" \in has'
    BY <2>1, <2>2, ScriptMakes
  <2>9. next' >= 6 => "chunks" \in has'
    BY <2>1, <2>2, ScriptMakes
  <2>10. "grant" \in has' => Things \subseteq has'
    <3>1. CASE "grant" \in has
      BY <2>4, <3>1
    <3>2. CASE next = 7
      BY <2>1, <3>2, ScriptMakes, ThingsAre
    <3>3. next # 7 => "grant" \notin Makes(Script[next])
      BY <2>1, ScriptMakes
    <3> QED
      BY <2>1, <3>1, <3>2, <3>3
  <2> QED
    BY <2>4, <2>5, <2>6, <2>7, <2>8, <2>9, <2>10
<1> QED
  BY <1>2, <1>3, <1>4

LEMMA StepFirstInv == FirstInv /\ [FirstNext]_<<vars, firstVars>> => FirstInv'
<1> SUFFICES ASSUME FirstInv, [FirstNext]_<<vars, firstVars>> PROVE FirstInv'
  OBVIOUS
<1> USE DEF FirstInv
<1>1. CASE StartFirst \/ ExecuteStatement \/ SkipStatement \/ EndFirst
  <2>1. UNCHANGED vars
    BY <1>1 DEF StartFirst, ExecuteStatement, SkipStatement, EndFirst
  <2>2. Inv'
    BY <2>1, StepInv
  <2>3. ScriptInOrder' /\ has \subseteq has'
    BY <1>1, ScriptKeepsOrder
  <2>4. RightsOfRunning'
    BY <2>1, <2>3 DEF RightsOfRunning, vars
  <2> QED
    BY <2>2, <2>3, <2>4
<1>2. CASE NodeInitDB \/ NodeReadRows \/ NodeStep
  <2>1. Next /\ UNCHANGED firstVars
    BY <1>2 DEF NodeInitDB, NodeReadRows, NodeStep, Next
  <2>2. Inv' /\ ScriptInOrder'
    BY <2>1, StepInv DEF firstVars, ScriptInOrder
  <2>3. pc' = "running" => pc = "running" \/ "grant" \in has
    BY <1>2 DEF NodeInitDB, InitDB, NodeReadRows, NodeStep, ConnectForRows, Lose,
       Construct, SetSchema, Update, Destroy
  <2> QED
    BY <2>1, <2>2, <2>3 DEF RightsOfRunning, firstVars
<1>3. CASE StartNode
  <2>1. Alive' = {}
    BY <1>3 DEF StartNode, Alive
  <2>2. Inv'
    BY <1>3, <2>1, CounterAssumption
    DEF StartNode, Inv, TypeOK, StartIsQuiet, CounterIsExact, ConFollowsCounter
  <2> QED
    BY <1>3, <2>2 DEF StartNode, firstVars, ScriptInOrder, RightsOfRunning
<1>4. CASE UNCHANGED <<vars, firstVars>>
  <2>1. Inv'
    BY <1>4, StepInv
  <2> QED
    BY <1>4, <2>1 DEF vars, firstVars, ScriptInOrder, RightsOfRunning
<1> QED
  BY <1>1, <1>2, <1>3, <1>4 DEF FirstNext

LEMMA FirstInvHolds == FirstSpec => []FirstInv
<1> QED
  BY InitFirstInv, StepFirstInv, PTL DEF FirstSpec

\* Whatever run of the first start was cut off, a node that runs has its tables
\* (db.cpp, firstTimeInit).
THEOREM RunningHasTablesTheorem == FirstSpec => []RunningHasTables
<1>1. FirstInv => RunningHasTables
  BY DEF FirstInv, ScriptInOrder, RightsOfRunning, RunningHasTables, Things
<1> QED
  BY <1>1, FirstInvHolds, PTL

\* The variables have their types in every run of the program.
THEOREM FirstTypeOKTheorem == FirstSpec => []FirstTypeOK
<1>1. Len(Script) = 7
  BY DEF Script
<1>2. FirstInv => FirstTypeOK
  BY <1>1 DEF FirstInv, Inv, ScriptInOrder, FirstTypeOK
<1> QED
  BY <1>2, FirstInvHolds, PTL

\* The counter is exact in every run of the program (db.cpp, connectIfNeeded).
THEOREM CounterIsExactAlways == FirstSpec => []CounterIsExact
<1>1. FirstInv => CounterIsExact
  BY DEF FirstInv, Inv
<1> QED
  BY <1>1, FirstInvHolds, PTL

\* The connection is there exactly while a handle is, in every run of the
\* program (db.cpp, disconnectIfNeeded).
THEOREM ConnectedWhileAliveAlways == FirstSpec => []ConnectedWhileAlive
<1>1. FirstInv => ConnectedWhileAlive
  BY AliveIsFinite
  DEF FirstInv, Inv, ConnectedWhileAlive, CounterIsExact, ConFollowsCounter
<1> QED
  BY <1>1, FirstInvHolds, PTL
=============================================================================
