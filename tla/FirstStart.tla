----------------------------- MODULE FirstStart -----------------------------
(***************************************************************************)
(* The database a node needs, and the program that makes it (--init:       *)
(* node.cpp, firstTimeInit; db.cpp, firstTimeInit and the statements it    *)
(* executes).  The statements create, one after the other, the schema, the *)
(* tables, the account of the node, and its rights; each may fail, or the  *)
(* program may be stopped between two, and what exists stays.  It may be   *)
(* run again, also while a node is starting.  A node that ends may be      *)
(* started again, and does not find out what is there before it needs it.  *)
(***************************************************************************)
EXTENDS DBConnection, Sequences

VARIABLES has,   \* what there is in the database
          next   \* the statement that --init is about to execute; 0: none

firstVars == <<has, next>>

Tables == {"torrents", "files", "chunks"}
Things == {"schema", "account", "grant"} \union Tables

\* Slip: the account is made ready before the tables.
ScriptRightsFirst ==
  <<"schema", "use", "account", "grant", "torrents", "files", "chunks">>

\* createSchema, setSchema, createTables, createUser, grantAllUser.
Script == <<"schema", "use", "torrents", "files", "chunks", "account", "grant">>

\* What a statement leaves in the database, all of them "if not exists"; a
\* grant with a password creates the account as well.
Makes(statement) ==
  IF statement = "grant" THEN {"account", "grant"} ELSE {statement} \intersect Things

FirstInit == Init /\ has = {} /\ next = 0

\* --init: the user types the credentials, and the program connects.
StartFirst ==
  /\ next = 0
  /\ next' = 1
  /\ UNCHANGED <<vars, has>>

AfterNext == IF next = Len(Script) THEN 0 ELSE next + 1

ExecuteStatement ==
  /\ next # 0
  /\ has' = has \union Makes(Script[next])
  /\ next' = AfterNext
  /\ UNCHANGED vars

\* createUser and grantAllUser do nothing if they cannot lock their memory.
SkipStatement ==
  /\ next # 0
  /\ Script[next] \in {"account", "grant"}
  /\ next' = AfterNext
  /\ UNCHANGED <<vars, has>>

\* An exception leaves main, or the user stops the program.
EndFirst ==
  /\ next # 0
  /\ next' = 0
  /\ UNCHANGED <<vars, has>>

-----------------------------------------------------------------------------
(* The node, on the database as it is. *)

\* init connects with the account of the node.
NodeInitDB ==
  /\ InitDB
  /\ pc' = "rows" => "account" \in has
  /\ UNCHANGED firstVars

\* setSchema needs the rights and the schema, the query the table of torrents;
\* the other tables are not read for a torrent that is not there.
NodeReadRows ==
  /\ ReadRows
  /\ pc' = "running" => {"schema", "grant", "torrents"} \subseteq has
  /\ UNCHANGED firstVars

NodeStep ==
  /\ \/ ConnectForRows \/ Lose
     \/ \E h \in Handles : Construct(h) \/ SetSchema(h) \/ Update(h) \/ Destroy(h)
  /\ UNCHANGED firstVars

\* The node has ended, or ends now, and is started again.
StartNode ==
  /\ pc # "init"
  /\ con' = "none"
  /\ counter' = 0
  /\ handle' = [h \in Handles |-> "none"]
  /\ pc' = "init"
  /\ UNCHANGED firstVars

FirstNext ==
  \/ StartFirst \/ ExecuteStatement \/ SkipStatement \/ EndFirst
  \/ NodeInitDB \/ NodeReadRows \/ NodeStep \/ StartNode

FirstSpec == FirstInit /\ [][FirstNext]_<<vars, firstVars>>

-----------------------------------------------------------------------------
(* Properties. *)

FirstTypeOK == TypeOK /\ has \subseteq Things /\ next \in 0..Len(Script)

\* A node that runs finds all its tables when it comes to insert a torrent, a
\* file or a chunk, wherever the first start and its repetitions were cut off,
\* although it looks at one of them only (db.cpp, firstTimeInit; node.cpp, init).
RunningHasTables == pc = "running" => Tables \union {"schema", "account", "grant"} \subseteq has
=============================================================================
