------------------------------ MODULE Exchange ------------------------------
(***************************************************************************)
(* The exchange of a request and its answer between nodes (node.cpp,       *)
(* sendRequestWait4Response and serverThread; btdevice.cpp;                *)
(* btchannel.cpp).  Every node has a client, which is its main thread or   *)
(* its job manager, and a server.  A synchronous request first pauses the  *)
(* server of its own node (NodeThreads), so that two nodes that ask each   *)
(* other wait for each other's servers.                                    *)
(*                                                                         *)
(* An answer travels in fragments of 1008 bytes, the last of which may be  *)
(* shorter.  A read returns one fragment; what a write does not take, or a *)
(* program that ends does not write, is whole fragments.  The client knows *)
(* the end of an answer by a short fragment, the end of the connection, or *)
(* a reset; and it also stops after a fragment when errno still holds the  *)
(* code of any earlier failure of its thread.                              *)
(*                                                                         *)
(* A program may end anywhere, also by what the code itself does: an       *)
(* exception that a thread does not catch, the exit of extract             *)
(* (archiver.cpp), or accept, which writes an address over the pointer     *)
(* that the server uses next.                                              *)
(***************************************************************************)
EXTENDS Naturals, Sequences, SequencesExt

CONSTANTS Nodes,
          NoNode,         \* stands for no connection
          Answers,        \* the answers there are, as sequences of fragments
          NoAnswer,       \* the server has not answered
          LinksBreak,     \* whether radio links may break
          StaleAtStart,   \* the value of stale after the start of the program
          MaxRequests     \* bound on the requests of each node

ASSUME NoNodeAssumption == NoNode \notin Nodes
ASSUME AnswersAssumption ==
  /\ Answers \subseteq Seq({"full", "short"})
  /\ \A a \in Answers : \A i \in 1..(Len(a) - 1) : a[i] = "full"
  /\ NoAnswer \notin Answers
ASSUME LinksBreakAssumption == LinksBreak \in BOOLEAN
ASSUME StaleAssumption == StaleAtStart \in [Nodes -> SUBSET BOOLEAN]
ASSUME MaxRequestsAssumption == MaxRequests \in Nat

VARIABLES client,   \* where the client of a node is
          sync,     \* whether its request is a synchronous one
          server,   \* where the server of a node is
          paused,   \* whether the server is paused
          peer,     \* the node the client has asked
          serving,  \* the client the server has a connection to
          left,     \* what the server has still to write
          link,     \* the connection of the client: closed after the whole
                    \* answer and cut before look the same to it
          inbox,    \* fragments written to the client and not read
          got,      \* what the client has read
          stale,    \* the threads, by sync, whose errno is set
          end,      \* how the client's exchange has ended
          answer,   \* what the server has answered this request
          requests  \* how many requests the client has begun

clientVars == <<client, sync, peer, got, stale, end, requests>>
serverVars == <<server, paused, serving, left, answer>>
linkVars == <<link, inbox>>
vars == <<clientVars, serverVars, linkVars>>

Fragments == Seq({"full", "short"})

TypeOK ==
  /\ client \in [Nodes -> {"idle", "pausing", "connecting", "reading", "done"}]
  /\ sync \in [Nodes -> BOOLEAN]
  /\ server \in [Nodes -> {"off", "listening", "fetching", "writing", "closing"}]
  /\ paused \in [Nodes -> BOOLEAN]
  /\ peer \in [Nodes -> Nodes \union {NoNode}]
  /\ serving \in [Nodes -> Nodes \union {NoNode}]
  /\ left \in [Nodes -> Fragments]
  /\ link \in [Nodes -> {"none", "pending", "open", "closed", "cut", "reset"}]
  /\ inbox \in [Nodes -> Fragments]
  /\ got \in [Nodes -> Fragments]
  /\ stale \in [Nodes -> SUBSET BOOLEAN]
  /\ end \in [Nodes -> {"none", "short", "stale", "eof", "reset", "failed"}]
  /\ answer \in [Nodes -> Answers \union {NoAnswer}]
  /\ requests \in [Nodes -> 0..MaxRequests]

Init ==
  /\ client = [n \in Nodes |-> "idle"]
  /\ sync = [n \in Nodes |-> FALSE]
  /\ server = [n \in Nodes |-> "off"]
  /\ paused = [n \in Nodes |-> FALSE]
  /\ peer = [n \in Nodes |-> NoNode]
  /\ serving = [n \in Nodes |-> NoNode]
  /\ left = [n \in Nodes |-> << >>]
  /\ link = [n \in Nodes |-> "none"]
  /\ inbox = [n \in Nodes |-> << >>]
  /\ got = [n \in Nodes |-> << >>]
  /\ stale = StaleAtStart
  /\ end = [n \in Nodes |-> "none"]
  /\ answer = [n \in Nodes |-> NoAnswer]
  /\ requests = [n \in Nodes |-> 0]

-----------------------------------------------------------------------------
(* The client. *)

\* A request to another node, by syncRequest or by the job manager.
Request(n, m, s) ==
  /\ client[n] = "idle"
  /\ requests[n] < MaxRequests
  /\ m # n
  /\ client' = [client EXCEPT ![n] = IF s THEN "pausing" ELSE "connecting"]
  /\ sync' = [sync EXCEPT ![n] = s]
  /\ peer' = [peer EXCEPT ![n] = m]
  /\ requests' = [requests EXCEPT ![n] = @ + 1]
  /\ UNCHANGED <<got, stale, end, serverVars, linkVars>>

\* pauseWorkerThreads returns when the server is between two runs.
PauseServer(n) ==
  /\ client[n] = "pausing"
  /\ server[n] = "off"
  /\ paused' = [paused EXCEPT ![n] = TRUE]
  /\ client' = [client EXCEPT ![n] = "connecting"]
  /\ UNCHANGED <<sync, peer, got, stale, end, requests, server, serving, left,
                 answer, linkVars>>

\* The listening socket of m is open until the run of its server ends, with
\* room for one connection that waits to be accepted.
Listens(m) ==
  /\ server[m] \in {"listening", "fetching", "writing"}
  /\ \A n \in Nodes : ~(peer[n] = m /\ link[n] = "pending")

\* salloc, bind, connect; and the request, which fits a fragment, is written.
Connect(n) ==
  /\ client[n] = "connecting"
  /\ Listens(peer[n])
  /\ link' = [link EXCEPT ![n] = "pending"]
  /\ client' = [client EXCEPT ![n] = "reading"]
  /\ UNCHANGED <<sync, peer, got, stale, end, requests, serverVars, inbox>>

\* The exchange of n ends with one of the codes e.
Ends(n, e) ==
  /\ end' = [end EXCEPT ![n] = e]
  /\ client' = [client EXCEPT ![n] = "done"]

\* Nothing ever clears errno.
SetErrno(n) == stale' = [stale EXCEPT ![n] = @ \union {sync[n]}]

\* No device, no server, or no room.  A reset, by a link that breaks, is not
\* an error here either.
ConnectFails(n) ==
  /\ client[n] = "connecting"
  /\ Ends(n, "failed") \/ (LinksBreak /\ Ends(n, "reset"))
  /\ SetErrno(n)
  /\ UNCHANGED <<sync, peer, got, requests, serverVars, linkVars>>

\* Slip: a full fragment ends the answer as well.
ReadOneFragment(n) ==
  /\ client[n] = "reading"
  /\ inbox[n] # << >>
  /\ got' = [got EXCEPT ![n] = Append(@, Head(inbox[n]))]
  /\ inbox' = [inbox EXCEPT ![n] = Tail(@)]
  /\ Ends(n, "short")
  /\ UNCHANGED <<sync, peer, stale, requests, serverVars, link>>

\* One round of the loop of read: a short fragment is the last.
ReadFragment(n) ==
  /\ client[n] = "reading"
  /\ inbox[n] # << >>
  /\ got' = [got EXCEPT ![n] = Append(@, Head(inbox[n]))]
  /\ inbox' = [inbox EXCEPT ![n] = Tail(@)]
  /\ CASE Head(inbox[n]) = "short" -> Ends(n, "short")
       [] Head(inbox[n]) = "full" /\ sync[n] \in stale[n] -> Ends(n, "stale")
       [] OTHER -> UNCHANGED <<end, client>>
  /\ UNCHANGED <<sync, peer, stale, requests, serverVars, link>>

\* The server has closed the connection: read returns 0, or ECONNRESET.
ReadEnd(n) ==
  /\ client[n] = "reading"
  /\ inbox[n] = << >>
  /\ link[n] \in {"closed", "cut"}
  /\ \/ Ends(n, "eof") /\ UNCHANGED stale
     \/ Ends(n, "reset") /\ SetErrno(n)
  /\ UNCHANGED <<sync, peer, got, requests, serverVars, linkVars>>

\* The connection is reset; another error is thrown.
ReadReset(n) ==
  /\ client[n] = "reading"
  /\ link[n] = "reset"
  /\ Ends(n, "reset") \/ Ends(n, "failed")
  /\ SetErrno(n)
  /\ UNCHANGED <<sync, peer, got, requests, serverVars, linkVars>>

\* The server of m loses its connection to n, if it has one.
Disconnected(n) ==
  serving' = [m \in Nodes |-> IF serving[m] = n THEN NoNode ELSE serving[m]]

\* The channel and the packet of n are destroyed.
Forget(n) ==
  /\ link' = [link EXCEPT ![n] = "none"]
  /\ inbox' = [inbox EXCEPT ![n] = << >>]
  /\ peer' = [peer EXCEPT ![n] = NoNode]
  /\ got' = [got EXCEPT ![n] = << >>]
  /\ end' = [end EXCEPT ![n] = "none"]
  /\ answer' = [answer EXCEPT ![n] = NoAnswer]

\* Slip: the server goes on with a descriptor that is soon in use again.
EndCommKeepingPeer(n) ==
  /\ client[n] = "done"
  /\ Forget(n)
  /\ client' = [client EXCEPT ![n] = "idle"]
  /\ sync' = [sync EXCEPT ![n] = FALSE]
  /\ paused' = [paused EXCEPT ![n] = FALSE]
  /\ UNCHANGED <<stale, requests, server, serving, left>>

\* endComm, and the workers are activated if they were paused.
EndComm(n) ==
  /\ client[n] = "done"
  /\ Forget(n)
  /\ Disconnected(n)
  /\ client' = [client EXCEPT ![n] = "idle"]
  /\ sync' = [sync EXCEPT ![n] = FALSE]
  /\ paused' = [paused EXCEPT ![n] = FALSE]
  /\ UNCHANGED <<stale, requests, server, left>>

-----------------------------------------------------------------------------
(* The server. *)

\* A run of serverThread begins: initServer, and listen.
Listen(s) ==
  /\ server[s] = "off"
  /\ ~paused[s]
  /\ server' = [server EXCEPT ![s] = "listening"]
  /\ UNCHANGED <<clientVars, paused, serving, left, answer, linkVars>>

Accept(s) ==
  /\ server[s] = "listening"
  /\ \E n \in Nodes :
       /\ peer[n] = s
       /\ link[n] = "pending"
       /\ serving' = [serving EXCEPT ![s] = n]
       /\ link' = [link EXCEPT ![n] = "open"]
  /\ server' = [server EXCEPT ![s] = "fetching"]
  /\ UNCHANGED <<clientVars, paused, left, answer, inbox>>

\* Slip: accept waits for a client for ever.
AcceptWaits(s) == Accept(s)

\* Slip: EAGAIN is thrown out of the thread.
AcceptTimesOutUncaught(s) ==
  /\ server[s] = "listening"
  /\ server' = [server EXCEPT ![s] = "terminated"]
  /\ UNCHANGED <<clientVars, paused, serving, left, answer, linkVars>>

\* SO_RCVTIMEO, two seconds, even if a client has connected by now; bind and
\* listen may fail as well.
AcceptTimesOut(s) ==
  /\ server[s] = "listening"
  /\ server' = [server EXCEPT ![s] = "closing"]
  /\ UNCHANGED <<clientVars, paused, serving, left, answer, linkVars>>

\* fetchRequestData, processRequest, and the answer is there to be written.
Fetch(s) ==
  /\ server[s] = "fetching"
  /\ serving[s] # NoNode
  /\ \E a \in Answers :
       /\ left' = [left EXCEPT ![s] = a]
       /\ answer' = [answer EXCEPT ![serving[s]] = a]
  /\ server' = [server EXCEPT ![s] = "writing"]
  /\ UNCHANGED <<clientVars, paused, serving, linkVars>>

\* The client reads while the server writes.
WriteFragment(s) ==
  /\ server[s] = "writing"
  /\ serving[s] # NoNode
  /\ left[s] # << >>
  /\ inbox' = [inbox EXCEPT ![serving[s]] = Append(@, Head(left[s]))]
  /\ left' = [left EXCEPT ![s] = Tail(@)]
  /\ UNCHANGED <<clientVars, server, paused, serving, answer, link>>

\* All is written; or the client is gone, the request is not read or not
\* answered because of an exception, or write takes only a part, which nobody
\* looks at.
EndsService(s) ==
  /\ server[s] \in {"fetching", "writing"}
  /\ server' = [server EXCEPT ![s] = "closing"]
  /\ UNCHANGED <<clientVars, paused, serving, left, answer, linkVars>>

\* What becomes of the connections when the sockets of s are closed: one that
\* was never accepted is reset.
Released(s) ==
  [n \in Nodes |->
     CASE serving[s] = n ->
            IF answer[n] # NoAnswer /\ left[s] = << >> THEN "closed" ELSE "cut"
       [] peer[n] = s /\ link[n] = "pending" -> "reset"
       [] OTHER -> link[n]]

\* endComm.
CloseServer(s) ==
  /\ server[s] = "closing"
  /\ link' = Released(s)
  /\ serving' = [serving EXCEPT ![s] = NoNode]
  /\ left' = [left EXCEPT ![s] = << >>]
  /\ server' = [server EXCEPT ![s] = "off"]
  /\ UNCHANGED <<clientVars, paused, answer, inbox>>

-----------------------------------------------------------------------------
\* The radio: what is under way is lost.
LinkBreaks(n) ==
  /\ LinksBreak
  /\ client[n] = "reading"
  /\ link[n] \in {"pending", "open", "closed", "cut"}
  /\ link' = [link EXCEPT ![n] = "reset"]
  /\ inbox' = [inbox EXCEPT ![n] = << >>]
  /\ Disconnected(n)
  /\ UNCHANGED <<clientVars, server, paused, left, answer>>

\* The program of n ends, and is started again.
ProcessEnds(n) ==
  /\ client' = [client EXCEPT ![n] = "idle"]
  /\ sync' = [sync EXCEPT ![n] = FALSE]
  /\ server' = [server EXCEPT ![n] = "off"]
  /\ paused' = [paused EXCEPT ![n] = FALSE]
  /\ peer' = [peer EXCEPT ![n] = NoNode]
  /\ serving' = [m \in Nodes |-> IF m = n \/ serving[m] = n THEN NoNode ELSE serving[m]]
  /\ left' = [left EXCEPT ![n] = << >>]
  /\ link' = [Released(n) EXCEPT ![n] = "none"]
  /\ inbox' = [inbox EXCEPT ![n] = << >>]
  /\ got' = [got EXCEPT ![n] = << >>]
  /\ stale' = [stale EXCEPT ![n] = StaleAtStart[n]]
  /\ end' = [end EXCEPT ![n] = "none"]
  /\ answer' = [answer EXCEPT ![n] = NoAnswer]
  /\ UNCHANGED requests

ClientStep(n) ==
  \/ Connect(n) \/ ConnectFails(n) \/ ReadFragment(n) \/ ReadEnd(n)
  \/ ReadReset(n) \/ EndComm(n)

ServerStep(s) ==
  \/ Accept(s) \/ AcceptTimesOut(s) \/ Fetch(s) \/ WriteFragment(s)
  \/ EndsService(s) \/ CloseServer(s)

Next ==
  \E n \in Nodes :
    \/ \E m \in Nodes, s \in BOOLEAN : Request(n, m, s)
    \/ PauseServer(n)
    \/ ClientStep(n)
    \/ Listen(n)
    \/ ServerStep(n)
    \/ LinkBreaks(n)
    \/ ProcessEnds(n)

\* Threads run on; the main thread gets the mutex of its server in the end;
\* accept returns in time.
Fairness ==
  \A n \in Nodes :
    WF_vars(ClientStep(n)) /\ WF_vars(ServerStep(n)) /\ SF_vars(PauseServer(n))

Spec == Init /\ [][Next]_vars /\ Fairness

-----------------------------------------------------------------------------
(* Properties. *)

\* What has come to a client is the beginning of the answer to the request it
\* has just made, and never of an earlier one (btchannel.cpp, btdevice.cpp: a
\* channel of its own for every exchange).
ReadsItsAnswer ==
  \A n \in Nodes :
    got[n] # << >> \/ (client[n] = "reading" /\ inbox[n] # << >>) =>
      answer[n] # NoAnswer /\ IsPrefix(got[n], answer[n])

\* An answer that is ended by a short fragment is whole; and so is one that is
\* ended without an error, as by the reset that ends a multiple of the
\* fragment's length, if the server has written all of it and no link has
\* broken (btchannel.cpp, read; node.cpp, sendRequestWait4Response).
WholeUnlessBroken ==
  \A n \in Nodes :
    /\ end[n] = "short" => got[n] = answer[n]
    /\ end[n] \in {"eof", "reset"} /\ link[n] = "closed" => got[n] = answer[n]

\* Every request returns, although the nodes wait for their own servers first
\* and the servers for the clients of other nodes (node.cpp, syncRequest;
\* btchannel.cpp, setTimeout).
RequestEnds == \A n \in Nodes : client[n] = "pausing" ~> client[n] = "idle"
=============================================================================
