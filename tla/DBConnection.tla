---------------------------- MODULE DBConnection ----------------------------
(***************************************************************************)
(* The database connection that all Torrents share (db.cpp).  Every        *)
(* Torrent has a handle; constructing one takes part in the connection,    *)
(* destroying one, which first writes the chunk flags, leaves it; a        *)
(* counter tells the first and the last.  Each step is a section under the *)
(* recursive mutex of the class, so that the threads interleave between    *)
(* them.  At the start the main thread reads all rows with no handle, and  *)
(* takes part by itself.                                                   *)
(***************************************************************************)
EXTENDS Integers, FiniteSets

CONSTANTS Handles,    \* the handles that may be alive at a time
          CounterMax  \* the largest value of the unsigned counter

ASSUME CounterAssumption == CounterMax \in Nat
ASSUME HandlesAssumption == IsFiniteSet(Handles) /\ Cardinality(Handles) < CounterMax

VARIABLES con,      \* the connection: absent, usable, or lost
          counter,  \* connectionCounter
          handle,   \* where each handle is in its life
          pc        \* where the main thread is

vars == <<con, counter, handle, pc>>

TypeOK ==
  /\ con \in {"none", "valid", "lost"}
  /\ counter \in 0..CounterMax
  /\ handle \in [Handles -> {"none", "connected", "open", "updated"}]
  /\ pc \in {"init", "rows", "connected", "running", "failed", "terminated"}

Init ==
  /\ con = "none"
  /\ counter = 0
  /\ handle = [h \in Handles |-> "none"]
  /\ pc = "init"

Alive == {h \in Handles : handle[h] # "none"}

-----------------------------------------------------------------------------
(* The counted connection. *)

Increment(c) == IF c = CounterMax THEN 0 ELSE c + 1

\* Slip: a counter with a sign.
DecrementSigned(c) == c - 1

Decrement(c) == IF c = 0 THEN CounterMax ELSE c - 1

\* Slip: counted before the connection is there.
ConnectCountingFirst(ok) ==
  /\ counter' = Increment(counter)
  /\ IF ok THEN con' = "valid" ELSE UNCHANGED con

\* connectIfNeeded: the first connects, the others reconnect if the
\* connection is lost.  ok is FALSE if an exception leaves it.
ConnectIfNeeded(ok) ==
  /\ ok \/ counter = 0 \/ con = "lost"
  /\ counter' = IF ok THEN Increment(counter) ELSE counter
  /\ con' = IF ok /\ (counter = 0 \/ con = "lost") THEN "valid" ELSE con

\* Slip: the last but one disconnects.
DisconnectEarly ==
  /\ counter' = Decrement(counter)
  /\ con' = IF counter' <= 1 THEN "none" ELSE con

DisconnectIfNeeded ==
  /\ counter' = Decrement(counter)
  /\ con' = IF counter' = 0 THEN "none" ELSE con

-----------------------------------------------------------------------------
(* The start of the program. *)

\* TorrentDB::init connects and disconnects, past the counter.
InitDB ==
  /\ pc = "init"
  /\ pc' \in {"rows", "failed"}
  /\ con' = "none"
  /\ UNCHANGED <<counter, handle>>

\* getAllTorrentRows.  When it cannot connect it disconnects all the same.
ConnectForRows ==
  /\ pc = "rows"
  /\ \/ ConnectIfNeeded(TRUE) /\ pc' = "connected"
     \/ DisconnectIfNeeded /\ pc' = "failed"
  /\ UNCHANGED handle

\* The queries succeed, or throw; in both cases it disconnects.
ReadRows ==
  /\ pc = "connected"
  /\ DisconnectIfNeeded
  /\ pc' \in IF con = "valid" THEN {"running", "failed"} ELSE {"failed"}
  /\ UNCHANGED handle

-----------------------------------------------------------------------------
(* The threads. *)

\* A Torrent is constructed: an exception leaves no handle behind.
Construct(h) ==
  /\ pc = "running"
  /\ handle[h] = "none"
  /\ \/ ConnectIfNeeded(TRUE) /\ handle' = [handle EXCEPT ![h] = "connected"]
     \/ ConnectIfNeeded(FALSE) /\ UNCHANGED handle
  /\ UNCHANGED pc

\* setSchema of the constructor of TorrentDB; if it throws, the base object is
\* destroyed again.
SetSchema(h) ==
  /\ pc = "running"
  /\ handle[h] = "connected"
  /\ \/ /\ con = "valid"
        /\ handle' = [handle EXCEPT ![h] = "open"]
        /\ UNCHANGED <<con, counter>>
     \/ /\ DisconnectIfNeeded
        /\ handle' = [handle EXCEPT ![h] = "none"]
  /\ UNCHANGED pc

\* ~Torrent: updateChunks.  Nothing catches what it throws, and the program
\* terminates.
Update(h) ==
  /\ pc = "running"
  /\ handle[h] = "open"
  /\ \/ con = "valid" /\ handle' = [handle EXCEPT ![h] = "updated"] /\ UNCHANGED pc
     \/ pc' = "terminated" /\ UNCHANGED handle
  /\ UNCHANGED <<con, counter>>

\* ~DatabaseConnector.
Destroy(h) ==
  /\ pc = "running"
  /\ handle[h] = "updated"
  /\ DisconnectIfNeeded
  /\ handle' = [handle EXCEPT ![h] = "none"]
  /\ UNCHANGED pc

\* The server of the database goes away.
Lose ==
  /\ con = "valid"
  /\ con' = "lost"
  /\ UNCHANGED <<counter, handle, pc>>

Next ==
  \/ InitDB \/ ConnectForRows \/ ReadRows \/ Lose
  \/ \E h \in Handles : Construct(h) \/ SetSchema(h) \/ Update(h) \/ Destroy(h)

Spec == Init /\ [][Next]_vars

-----------------------------------------------------------------------------
(* Properties. *)

\* No thread uses a connection that another one has deleted: the connection
\* is there as long as a handle is alive, and deleted with the last one
\* (db.cpp, connectIfNeeded and disconnectIfNeeded).
ConnectedWhileAlive == pc = "running" => (con = "none" <=> Alive = {})

\* Exceptions of constructors and lost connections leave the counter right
\* (db.cpp, connectIfNeeded and disconnectIfNeeded).
CounterIsExact == pc = "running" => counter = Cardinality(Alive)
=============================================================================
