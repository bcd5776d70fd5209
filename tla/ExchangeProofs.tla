--------------------------- MODULE ExchangeProofs ---------------------------
(***************************************************************************)
(* The exchange of messages, for any nodes, answers and number of          *)
(* requests: what a client has read is the beginning of the answer to its  *)
(* request, and all of it if a short fragment has told so, or the end of a *)
(* connection that a server closes after all it has to write.              *)
(***************************************************************************)
EXTENDS Exchange, SequenceTheorems, TLAPS

\* The client of n has no connection yet for this request, or no request.
Fresh(n) ==
  /\ link[n] = "none" /\ inbox[n] = << >> /\ got[n] = << >>
  /\ end[n] = "none" /\ answer[n] = NoAnswer

ClientLinks ==
  \A n \in Nodes :
    /\ client[n] = "idle" <=> peer[n] = NoNode
    /\ client[n] \in {"idle", "pausing", "connecting"} => Fresh(n)
    /\ client[n] = "reading" => link[n] # "none" /\ end[n] = "none"
    /\ link[n] = "pending" => answer[n] = NoAnswer

\* A server and a client agree that they have a connection, so that no server
\* writes to the client of another.
ServerLinks ==
  /\ \A n \in Nodes : link[n] = "open" => serving[peer[n]] = n
  /\ \A s \in Nodes :
       serving[s] # NoNode =>
         /\ server[s] \in {"fetching", "writing", "closing"}
         /\ link[serving[s]] = "open"
         /\ peer[serving[s]] = s

\* What the client has read, what is under way to it, and more, are its answer.
ClientAnswers ==
  \A n \in Nodes :
    /\ answer[n] = NoAnswer => got[n] = << >> /\ inbox[n] = << >>
    /\ answer[n] # NoAnswer =>
         \E r \in Fragments : answer[n] = (got[n] \o inbox[n]) \o r
    /\ link[n] = "closed" => answer[n] \in Answers /\ answer[n] = got[n] \o inbox[n]
    /\ end[n] = "short" => answer[n] \in Answers /\ got[n] = answer[n]
    /\ end[n] \in {"eof", "reset"} =>
         /\ link[n] \notin {"pending", "open"}
         /\ link[n] = "closed" => got[n] = answer[n]

\* And while the server is connected, that more is what it has still to write.
ServerAnswers ==
  \A s \in Nodes :
    serving[s] # NoNode =>
      /\ server[s] = "fetching" => answer[serving[s]] = NoAnswer
      /\ server[s] = "writing" => answer[serving[s]] # NoAnswer
      /\ answer[serving[s]] # NoAnswer =>
           answer[serving[s]] = (got[serving[s]] \o inbox[serving[s]]) \o left[s]

ExchangeInv == ClientLinks /\ ServerLinks /\ ClientAnswers /\ ServerAnswers

-----------------------------------------------------------------------------
(* Sequences of fragments. *)

\* A fragment that goes from the head of one sequence to the end of another.
LEMMA MoveFragment ==
  ASSUME NEW c \in Fragments, NEW d \in Fragments, d # << >>
  PROVE  /\ Head(d) \in {"full", "short"} /\ Tail(d) \in Fragments
         /\ Append(c, Head(d)) \in Fragments
         /\ Append(c, Head(d)) \o Tail(d) = c \o d
<1> USE DEF Fragments
<1> DEFINE S == {"full", "short"}
           h == Head(d)
<1>1. /\ h \in S /\ Tail(d) \in Seq(S) /\ Len(Tail(d)) = Len(d) - 1
      /\ \A i \in 1..Len(Tail(d)) : Tail(d)[i] = d[i + 1]
  BY HeadTailProperties
<1>2. Len(c) \in Nat /\ Len(d) \in Nat \ {0} /\ h = d[1]
  BY EmptySeq, LenProperties
<1>3. PICK t \in Seq(S) : t = Tail(d)
  BY <1>1
<1>4. PICK a \in Seq(S) : a = Append(c, h)
  BY <1>1, AppendProperties
<1>5. /\ Len(a) = Len(c) + 1 /\ a[Len(c) + 1] = h
      /\ \A i \in 1..Len(c) : a[i] = c[i]
  BY <1>1, <1>4, AppendProperties
<1>6. /\ a \o t \in Seq(S) /\ Len(a \o t) = Len(a) + Len(t)
      /\ \A i \in 1..(Len(a) + Len(t)) :
           (a \o t)[i] = IF i <= Len(a) THEN a[i] ELSE t[i - Len(a)]
  BY ConcatProperties
<1>7. /\ c \o d \in Seq(S) /\ Len(c \o d) = Len(c) + Len(d)
      /\ \A i \in 1..(Len(c) + Len(d)) :
           (c \o d)[i] = IF i <= Len(c) THEN c[i] ELSE d[i - Len(c)]
  BY ConcatProperties
<1>8. Len(a \o t) = Len(c \o d)
  BY <1>1, <1>2, <1>3, <1>5, <1>6, <1>7
<1>9. ASSUME NEW i \in 1..Len(a \o t) PROVE (a \o t)[i] = (c \o d)[i]
  <2>1. i \in 1..(Len(c) + Len(d)) /\ i \in 1..(Len(a) + Len(t))
    BY <1>6, <1>7, <1>8
  <2>2. CASE i <= Len(c)
    BY <1>2, <1>5, <1>6, <1>7, <2>1, <2>2
  <2>3. CASE i = Len(c) + 1
    <3>1. (a \o t)[i] = h
      BY <1>2, <1>5, <1>6, <2>1, <2>3
    <3>2. (c \o d)[i] = d[1]
      BY <1>2, <1>7, <2>1, <2>3
    <3> QED
      BY <1>2, <3>1, <3>2
  <2>4. CASE i > Len(c) + 1
    <3>1. (a \o t)[i] = t[i - (Len(c) + 1)]
      BY <1>2, <1>5, <1>6, <2>1, <2>4
    <3>2. (c \o d)[i] = d[i - Len(c)]
      BY <1>2, <1>7, <2>1, <2>4
    <3>3. i - (Len(c) + 1) \in 1..Len(t)
      BY <1>1, <1>2, <1>3, <2>1, <2>4
    <3>4. t[i - (Len(c) + 1)] = d[i - (Len(c) + 1) + 1]
      BY <1>1, <1>3, <3>3
    <3> QED
      BY <1>2, <3>1, <3>2, <3>4
  <2>5. i \in Int /\ Len(c) \in Int
    BY <1>2, <2>1
  <2>6. i <= Len(c) \/ i = Len(c) + 1 \/ i > Len(c) + 1
    BY <2>5
  <2> QED
    BY <2>2, <2>3, <2>4, <2>6
<1>10. a \o t = c \o d
  BY <1>6, <1>7, <1>8, <1>9, SeqEqual
<1> QED
  BY <1>1, <1>3, <1>4, <1>10

\* A fragment of an answer after which another comes is a full one.
LEMMA ShortIsLast ==
  ASSUME NEW a \in Answers, NEW c \in Fragments, NEW d \in Fragments, d # << >>,
         a = c \o d, Head(d) = "short"
  PROVE  Tail(d) = << >> /\ a = Append(c, Head(d))
<1> USE DEF Fragments
<1> DEFINE S == {"full", "short"}
<1>1. /\ Len(c) \in Nat /\ Len(d) \in Nat \ {0} /\ d[1] = "short"
      /\ Tail(d) \in Seq(S) /\ Len(Tail(d)) = Len(d) - 1
  BY EmptySeq, LenProperties, HeadTailProperties
<1>2. /\ Len(a) = Len(c) + Len(d)
      /\ \A i \in 1..(Len(c) + Len(d)) :
           a[i] = IF i <= Len(c) THEN c[i] ELSE d[i - Len(c)]
  BY ConcatProperties
<1>3. a[Len(c) + 1] = "short"
  BY <1>1, <1>2
<1>4. ~(Len(c) + 1 \in 1..(Len(a) - 1))
  BY <1>3, AnswersAssumption
<1>5. Len(Tail(d)) = 0
  BY <1>1, <1>2, <1>4
<1>6. Tail(d) = << >>
  BY <1>1, <1>5, EmptySeq
<1>7. Append(c, Head(d)) \in Seq(S) /\ Append(c, Head(d)) \o Tail(d) = c \o d
  BY MoveFragment
<1>8. Append(c, Head(d)) \o << >> = Append(c, Head(d))
  BY <1>7, ConcatEmptySeq
<1> QED
  BY <1>6, <1>7, <1>8

LEMMA EmptyIs == << >> \in Fragments /\ \A c \in Fragments : c \o << >> = c /\ << >> \o c = c
BY EmptySeq, ConcatEmptySeq DEF Fragments

LEMMA FragmentsConcat ==
  /\ \A c, d \in Fragments : c \o d \in Fragments
  /\ \A c, d, e \in Fragments : (c \o d) \o e = c \o (d \o e)
<1>1. ASSUME NEW c \in Fragments, NEW d \in Fragments PROVE c \o d \in Fragments
  BY ConcatProperties DEF Fragments
<1>2. ASSUME NEW c \in Fragments, NEW d \in Fragments, NEW e \in Fragments
      PROVE  (c \o d) \o e = c \o (d \o e)
  BY ConcatAssociative DEF Fragments
<1> QED
  BY <1>1, <1>2

LEMMA AnswersAre == Answers \subseteq Fragments /\ NoAnswer \notin Answers
BY AnswersAssumption DEF Fragments

-----------------------------------------------------------------------------
(* The variables have their types. *)

LEMMA InitTypes == Init => TypeOK
BY EmptyIs, StaleAssumption, MaxRequestsAssumption DEF Init, TypeOK

LEMMA SetErrnoIs ==
  ASSUME TypeOK, NEW n \in Nodes, SetErrno(n) \/ UNCHANGED stale
  PROVE  stale' \in [Nodes -> SUBSET BOOLEAN]
<1>1. stale \in [Nodes -> SUBSET BOOLEAN] /\ sync[n] \in BOOLEAN
  BY DEF TypeOK
<1>2. stale[n] \union {sync[n]} \in SUBSET BOOLEAN
  BY <1>1
<1> QED
  BY <1>1, <1>2 DEF SetErrno

LEMMA ClientKeepsTypes ==
  ASSUME TypeOK, NEW n \in Nodes,
         \/ \E m \in Nodes, s \in BOOLEAN : Request(n, m, s)
         \/ PauseServer(n)
         \/ ClientStep(n)
  PROVE  TypeOK'
<1>1. ASSUME NEW m \in Nodes, NEW s \in BOOLEAN, Request(n, m, s) PROVE TypeOK'
  <2>1. requests' \in [Nodes -> 0..MaxRequests]
    BY <1>1, MaxRequestsAssumption DEF Request, TypeOK
  <2> QED
    BY <1>1, <2>1 DEF Request, TypeOK, serverVars, linkVars
<1>2. CASE PauseServer(n)
  BY <1>2 DEF PauseServer, TypeOK, linkVars
<1>3. CASE Connect(n)
  BY <1>3 DEF Connect, TypeOK, serverVars
<1>4. CASE ConnectFails(n)
  <2>1. stale' \in [Nodes -> SUBSET BOOLEAN]
    BY <1>4, SetErrnoIs DEF ConnectFails
  <2>2. /\ end' \in [Nodes -> {"none", "short", "stale", "eof", "reset", "failed"}]
        /\ client' \in [Nodes -> {"idle", "pausing", "connecting", "reading", "done"}]
    BY <1>4 DEF ConnectFails, Ends, TypeOK
  <2> QED
    BY <1>4, <2>1, <2>2 DEF ConnectFails, TypeOK, serverVars, linkVars
<1>5. CASE ReadFragment(n)
  <2>1. inbox[n] \in Fragments /\ got[n] \in Fragments /\ inbox[n] # << >>
    BY <1>5 DEF ReadFragment, TypeOK
  <2>2. Append(got[n], Head(inbox[n])) \in Fragments /\ Tail(inbox[n]) \in Fragments
    BY <2>1, MoveFragment
  <2>3. got' \in [Nodes -> Fragments] /\ inbox' \in [Nodes -> Fragments]
    BY <1>5, <2>2 DEF ReadFragment, TypeOK
  <2>4. /\ end' \in [Nodes -> {"none", "short", "stale", "eof", "reset", "failed"}]
        /\ client' \in [Nodes -> {"idle", "pausing", "connecting", "reading", "done"}]
    BY <1>5, <2>1, MoveFragment DEF ReadFragment, Ends, TypeOK
  <2> QED
    BY <1>5, <2>3, <2>4 DEF ReadFragment, TypeOK, serverVars
<1>6. CASE ReadEnd(n)
  <2>1. stale' \in [Nodes -> SUBSET BOOLEAN]
    BY <1>6, SetErrnoIs DEF ReadEnd
  <2>2. /\ end' \in [Nodes -> {"none", "short", "stale", "eof", "reset", "failed"}]
        /\ client' \in [Nodes -> {"idle", "pausing", "connecting", "reading", "done"}]
    BY <1>6 DEF ReadEnd, Ends, TypeOK
  <2> QED
    BY <1>6, <2>1, <2>2 DEF ReadEnd, TypeOK, serverVars, linkVars
<1>7. CASE ReadReset(n)
  <2>1. stale' \in [Nodes -> SUBSET BOOLEAN]
    BY <1>7, SetErrnoIs DEF ReadReset
  <2>2. /\ end' \in [Nodes -> {"none", "short", "stale", "eof", "reset", "failed"}]
        /\ client' \in [Nodes -> {"idle", "pausing", "connecting", "reading", "done"}]
    BY <1>7 DEF ReadReset, Ends, TypeOK
  <2> QED
    BY <1>7, <2>1, <2>2 DEF ReadReset, TypeOK, serverVars, linkVars
<1>8. CASE EndComm(n)
  BY <1>8, EmptyIs DEF EndComm, Forget, Disconnected, TypeOK
<1> QED
  BY <1>1, <1>2, <1>3, <1>4, <1>5, <1>6, <1>7, <1>8 DEF ClientStep

\* What becomes of the connection of each client when a server's are closed.
LEMMA ReleasedIs ==
  ASSUME NEW s \in Nodes, NEW n \in Nodes
  PROVE  Released(s)[n] = CASE serving[s] = n ->
                                 IF answer[n] # NoAnswer /\ left[s] = << >> THEN "closed" ELSE "cut"
                            [] peer[n] = s /\ link[n] = "pending" -> "reset"
                            [] OTHER -> link[n]
BY DEF Released

LEMMA ReleasedType ==
  ASSUME TypeOK, NEW s \in Nodes
  PROVE  Released(s) \in [Nodes -> {"none", "pending", "open", "closed", "cut", "reset"}]
BY DEF Released, TypeOK

LEMMA ServerKeepsTypes ==
  ASSUME TypeOK, NEW s \in Nodes,
         Listen(s) \/ ServerStep(s) \/ LinkBreaks(s) \/ ProcessEnds(s)
  PROVE  TypeOK'
<1>1. CASE Listen(s)
  BY <1>1 DEF Listen, TypeOK, clientVars, linkVars
<1>2. CASE Accept(s)
  BY <1>2 DEF Accept, TypeOK, clientVars
<1>3. CASE AcceptTimesOut(s)
  BY <1>3 DEF AcceptTimesOut, TypeOK, clientVars, linkVars
<1>4. CASE Fetch(s)
  BY <1>4, AnswersAre DEF Fetch, TypeOK, clientVars, linkVars
<1>5. CASE WriteFragment(s)
  <2>1. serving[s] \in Nodes /\ left[s] \in Fragments /\ left[s] # << >>
    BY <1>5 DEF WriteFragment, TypeOK
  <2>2. inbox[serving[s]] \in Fragments
    BY <2>1 DEF TypeOK
  <2>3. Append(inbox[serving[s]], Head(left[s])) \in Fragments /\ Tail(left[s]) \in Fragments
    BY <2>1, <2>2, MoveFragment
  <2>4. left' \in [Nodes -> Fragments] /\ inbox' \in [Nodes -> Fragments]
    BY <1>5, <2>3 DEF WriteFragment, TypeOK
  <2> QED
    BY <1>5, <2>4 DEF WriteFragment, TypeOK, clientVars
<1>6. CASE EndsService(s)
  BY <1>6 DEF EndsService, TypeOK, clientVars, linkVars
<1>7. CASE CloseServer(s)
  BY <1>7, ReleasedType, EmptyIs DEF CloseServer, TypeOK, clientVars
<1>8. CASE LinkBreaks(s)
  BY <1>8, EmptyIs DEF LinkBreaks, Disconnected, TypeOK, clientVars
<1>9. CASE ProcessEnds(s)
  <2>1. link' \in [Nodes -> {"none", "pending", "open", "closed", "cut", "reset"}]
    BY <1>9, ReleasedType DEF ProcessEnds
  <2>2. stale' \in [Nodes -> SUBSET BOOLEAN]
    BY <1>9, StaleAssumption DEF ProcessEnds, TypeOK
  <2>3. /\ left' \in [Nodes -> Fragments] /\ inbox' \in [Nodes -> Fragments]
        /\ got' \in [Nodes -> Fragments]
    BY <1>9, EmptyIs DEF ProcessEnds, TypeOK
  <2> QED
    BY <1>9, <2>1, <2>2, <2>3 DEF ProcessEnds, TypeOK
<1> QED
  BY <1>1, <1>2, <1>3, <1>4, <1>5, <1>6, <1>7, <1>8, <1>9 DEF ServerStep

LEMMA StepTypes == TypeOK /\ [Next]_vars => TypeOK'
<1> SUFFICES ASSUME TypeOK, [Next]_vars PROVE TypeOK'
  OBVIOUS
<1>1. CASE Next
  BY <1>1, ClientKeepsTypes, ServerKeepsTypes DEF Next
<1>2. CASE UNCHANGED vars
  BY <1>2 DEF vars, clientVars, serverVars, linkVars, TypeOK
<1> QED
  BY <1>1, <1>2

\* Clients, servers and connections stay in their states, and no answer is cut
\* into anything but fragments (node.cpp, btdevice.cpp, btchannel.cpp).
THEOREM ExchangeTypeCorrect == Spec => []TypeOK
BY InitTypes, StepTypes, PTL DEF Spec
-----------------------------------------------------------------------------
(* The invariant. *)

LEMMA InitInv == Init => ExchangeInv
BY NoNodeAssumption DEF Init, ExchangeInv, ClientLinks, Fresh, ServerLinks, ClientAnswers, ServerAnswers

\* What a step does to the places of clients and servers, when it leaves the
\* connections and what is sent over them alone.
LEMMA PlacesKeepInv ==
  ASSUME TypeOK, ExchangeInv, NEW n \in Nodes,
         \/ PauseServer(n)
         \/ ConnectFails(n)
         \/ ReadReset(n)
         \/ Listen(n)
         \/ AcceptTimesOut(n)
         \/ EndsService(n)
  PROVE  ExchangeInv'
<1>1. UNCHANGED <<peer, serving, left, link, inbox, got, answer>>
  BY DEF PauseServer, ConnectFails, ReadReset, Listen, AcceptTimesOut, EndsService,
         clientVars, serverVars, linkVars
<1>2. ClientLinks'
  <2>1. CASE PauseServer(n) \/ Listen(n) \/ AcceptTimesOut(n) \/ EndsService(n)
    BY <1>1, <2>1 DEF PauseServer, Listen, AcceptTimesOut, EndsService, clientVars, TypeOK,
                      ExchangeInv, ClientLinks, Fresh
  <2>2. CASE ConnectFails(n) \/ ReadReset(n)
    <3>1. /\ client[n] # "idle" /\ client' = [client EXCEPT ![n] = "done"]
          /\ \A m \in Nodes \ {n} : end'[m] = end[m]
      BY <2>2 DEF ConnectFails, ReadReset, Ends, TypeOK
    <3> QED
      BY <1>1, <3>1 DEF TypeOK, ExchangeInv, ClientLinks, Fresh
  <2> QED
    BY <2>1, <2>2
<1>3. \A s \in Nodes : serving[s] # NoNode =>
        server'[s] = server[s] \/ server'[s] = "closing"
  <2>1. CASE PauseServer(n) \/ ConnectFails(n) \/ ReadReset(n)
    BY <2>1 DEF PauseServer, ConnectFails, ReadReset, serverVars
  <2>2. CASE Listen(n)
    <3>1. serving[n] = NoNode
      BY <2>2 DEF Listen, ExchangeInv, ServerLinks
    <3> QED
      BY <2>2, <3>1 DEF Listen, TypeOK
  <2>3. CASE AcceptTimesOut(n) \/ EndsService(n)
    BY <2>3 DEF AcceptTimesOut, EndsService, TypeOK
  <2> QED
    BY <2>1, <2>2, <2>3
<1>4. ServerLinks'
  BY <1>1, <1>3 DEF ExchangeInv, ServerLinks
<1>5. ClientAnswers'
  <2>1. \A m \in Nodes :
          \/ end'[m] = end[m]
          \/ end'[m] = "failed"
          \/ end'[m] = "reset" /\ link[m] \in {"none", "reset"}
    <3>1. CASE ConnectFails(n)
      <4>1. link[n] = "none"
        BY <3>1 DEF ConnectFails, ExchangeInv, ClientLinks, Fresh
      <4> QED
        BY <3>1, <4>1 DEF ConnectFails, Ends, TypeOK
    <3>2. CASE ReadReset(n)
      BY <3>2 DEF ReadReset, Ends, TypeOK
    <3>3. CASE PauseServer(n) \/ Listen(n) \/ AcceptTimesOut(n) \/ EndsService(n)
      BY <3>3 DEF PauseServer, Listen, AcceptTimesOut, EndsService, clientVars
    <3> QED
      BY <3>1, <3>2, <3>3
  <2> QED
    BY <1>1, <2>1 DEF ExchangeInv, ClientAnswers
<1>6. ServerAnswers'
  BY <1>1, <1>3 DEF ExchangeInv, ServerAnswers
<1> QED
  BY <1>2, <1>4, <1>5, <1>6 DEF ExchangeInv

LEMMA RequestKeepsInv ==
  ASSUME TypeOK, ExchangeInv, NEW n \in Nodes, NEW m \in Nodes, NEW s \in BOOLEAN,
         Request(n, m, s)
  PROVE  ExchangeInv'
<1>1. /\ UNCHANGED <<server, serving, left, link, inbox, got, end, answer>>
      /\ client' = [client EXCEPT ![n] = IF s THEN "pausing" ELSE "connecting"]
      /\ peer' = [peer EXCEPT ![n] = m]
      /\ client[n] = "idle"
  BY DEF Request, serverVars, linkVars
<1>2. Fresh(n) /\ m # NoNode
  BY <1>1, NoNodeAssumption DEF ExchangeInv, ClientLinks
<1>3. ClientLinks'
  BY <1>1, <1>2 DEF TypeOK, ExchangeInv, ClientLinks, Fresh
<1>4. ServerLinks'
  BY <1>1, <1>2 DEF TypeOK, ExchangeInv, ServerLinks, Fresh
<1> QED
  BY <1>1, <1>3, <1>4 DEF ExchangeInv, ClientAnswers, ServerAnswers

LEMMA ConnectKeepsInv ==
  ASSUME TypeOK, ExchangeInv, NEW n \in Nodes, Connect(n)
  PROVE  ExchangeInv'
<1>1. /\ UNCHANGED <<peer, server, serving, left, inbox, got, end, answer>>
      /\ client' = [client EXCEPT ![n] = "reading"]
      /\ link' = [link EXCEPT ![n] = "pending"]
      /\ client[n] = "connecting"
  BY DEF Connect, serverVars
<1>2. Fresh(n)
  BY <1>1 DEF ExchangeInv, ClientLinks
<1>3. ClientLinks'
  BY <1>1, <1>2 DEF TypeOK, ExchangeInv, ClientLinks, Fresh
<1>4. ServerLinks'
  BY <1>1, <1>2 DEF TypeOK, ExchangeInv, ServerLinks, Fresh
<1>5. ClientAnswers'
  BY <1>1, <1>2 DEF TypeOK, ExchangeInv, ClientAnswers, Fresh
<1> QED
  BY <1>1, <1>3, <1>4, <1>5 DEF ExchangeInv, ServerAnswers

\* The first fragment of what is under way comes first in the rest of the answer.
LEMMA HeadOfConcat ==
  ASSUME NEW c \in Fragments, c # << >>, NEW d \in Fragments
  PROVE  c \o d \in Fragments /\ c \o d # << >> /\ Head(c \o d) = Head(c)
<1> USE DEF Fragments
<1>1. Len(c) \in Nat \ {0} /\ Len(d) \in Nat /\ Head(c) = c[1]
  BY EmptySeq, LenProperties
<1>2. /\ c \o d \in Fragments /\ Len(c \o d) = Len(c) + Len(d)
      /\ (c \o d)[1] = c[1]
  BY <1>1, ConcatProperties
<1>3. c \o d # << >>
  BY <1>1, <1>2, EmptySeq
<1> QED
  BY <1>1, <1>2, <1>3

LEMMA ReadFragmentKeepsInv ==
  ASSUME TypeOK, ExchangeInv, NEW n \in Nodes, ReadFragment(n)
  PROVE  ExchangeInv'
<1> DEFINE h == Head(inbox[n])
<1>1. /\ UNCHANGED <<peer, server, serving, left, link, answer>>
      /\ got' = [got EXCEPT ![n] = Append(got[n], h)]
      /\ inbox' = [inbox EXCEPT ![n] = Tail(inbox[n])]
      /\ client[n] = "reading" /\ inbox[n] # << >>
  BY DEF ReadFragment, serverVars
<1>2. got[n] \in Fragments /\ inbox[n] \in Fragments
  BY DEF TypeOK
<1>3. h \in {"full", "short"} /\ Append(got[n], h) \o Tail(inbox[n]) = got[n] \o inbox[n]
  BY <1>1, <1>2, MoveFragment
<1>4. /\ got'[n] = Append(got[n], h) /\ inbox'[n] = Tail(inbox[n])
      /\ \A m \in Nodes \ {n} : got'[m] = got[m] /\ inbox'[m] = inbox[m]
      /\ \A m \in Nodes : got'[m] \o inbox'[m] = got[m] \o inbox[m]
  BY <1>1, <1>3 DEF TypeOK
<1>5. /\ \A m \in Nodes \ {n} : end'[m] = end[m] /\ client'[m] = client[m]
      /\ \/ end'[n] = end[n] /\ client'[n] = "reading"
         \/ h = "short" /\ end'[n] = "short" /\ client'[n] = "done"
         \/ end'[n] = "stale" /\ client'[n] = "done"
  <2>1. CASE h = "short"
    BY <1>1, <2>1 DEF ReadFragment, Ends, TypeOK
  <2>2. CASE h = "full" /\ sync[n] \in stale[n]
    BY <1>1, <2>2 DEF ReadFragment, Ends, TypeOK
  <2>3. CASE h = "full" /\ sync[n] \notin stale[n]
    BY <1>1, <2>3 DEF ReadFragment, Ends, TypeOK
  <2> QED
    BY <1>3, <2>1, <2>2, <2>3
<1>6. answer[n] # NoAnswer /\ answer[n] \in Answers /\ end[n] = "none"
  BY <1>1 DEF TypeOK, ExchangeInv, ClientAnswers, ClientLinks
<1>7. ASSUME h = "short" PROVE got'[n] = answer[n]
  <2>1. PICK r \in Fragments : answer[n] = (got[n] \o inbox[n]) \o r
    BY <1>6 DEF ExchangeInv, ClientAnswers
  <2>2. PICK c \in Fragments, d \in Fragments : c = got[n] /\ d = inbox[n] /\ d # << >>
    BY <1>1, <1>2
  <2>3. answer[n] = c \o (d \o r)
    <3>1. (c \o d) \o r = c \o (d \o r)
      BY FragmentsConcat
    <3> QED
      BY <2>1, <2>2, <3>1
  <2>4. PICK e \in Fragments : e = d \o r /\ e # << >> /\ Head(e) = h
    BY <2>2, HeadOfConcat
  <2>5. answer[n] = Append(c, Head(e))
    BY <1>6, <1>7, <2>3, <2>4, ShortIsLast
  <2> QED
    BY <1>4, <2>2, <2>4, <2>5
<1>8. ClientLinks'
  BY <1>1, <1>4, <1>5, <1>6 DEF ExchangeInv, ClientLinks, Fresh
<1>9. ServerLinks'
  BY <1>1 DEF ExchangeInv, ServerLinks
<1>10. ClientAnswers'
  <2> SUFFICES ASSUME NEW m \in Nodes
               PROVE  /\ answer[m] = NoAnswer => got'[m] = << >> /\ inbox'[m] = << >>
                      /\ answer[m] # NoAnswer =>
                           \E r \in Fragments : answer[m] = (got'[m] \o inbox'[m]) \o r
                      /\ link[m] = "closed" =>
                           answer[m] \in Answers /\ answer[m] = got'[m] \o inbox'[m]
                      /\ end'[m] = "short" => answer[m] \in Answers /\ got'[m] = answer[m]
                      /\ end'[m] \in {"eof", "reset"} =>
                           /\ link[m] \notin {"pending", "open"}
                           /\ link[m] = "closed" => got'[m] = answer[m]
    BY <1>1 DEF ClientAnswers
  <2>1. got'[m] \o inbox'[m] = got[m] \o inbox[m]
    BY <1>4
  <2>2. /\ answer[m] # NoAnswer =>
             \E r \in Fragments : answer[m] = (got[m] \o inbox[m]) \o r
        /\ link[m] = "closed" =>
             answer[m] \in Answers /\ answer[m] = got[m] \o inbox[m]
    BY DEF ExchangeInv, ClientAnswers
  <2>3. answer[m] = NoAnswer => got'[m] = << >> /\ inbox'[m] = << >>
    BY <1>4, <1>6 DEF ExchangeInv, ClientAnswers
  <2>4. /\ end'[m] = "short" => answer[m] \in Answers /\ got'[m] = answer[m]
        /\ end'[m] \in {"eof", "reset"} =>
             /\ link[m] \notin {"pending", "open"}
             /\ link[m] = "closed" => got'[m] = answer[m]
    <3>1. CASE m = n
      BY <1>5, <1>6, <1>7, <3>1
    <3>2. CASE m # n
      BY <1>4, <1>5, <3>2 DEF ExchangeInv, ClientAnswers
    <3> QED
      BY <3>1, <3>2
  <2> QED
    BY <2>1, <2>2, <2>3, <2>4
<1>11. ServerAnswers'
  <2> SUFFICES ASSUME NEW s \in Nodes, serving[s] # NoNode
               PROVE  got'[serving[s]] \o inbox'[serving[s]] = got[serving[s]] \o inbox[serving[s]]
    BY <1>1 DEF ExchangeInv, ServerAnswers
  <2>1. serving[s] \in Nodes
    BY DEF TypeOK
  <2> QED
    BY <1>4, <2>1
<1> QED
  BY <1>8, <1>9, <1>10, <1>11 DEF ExchangeInv

LEMMA ReadEndKeepsInv ==
  ASSUME TypeOK, ExchangeInv, NEW n \in Nodes, ReadEnd(n)
  PROVE  ExchangeInv'
<1>1. /\ UNCHANGED <<peer, server, serving, left, link, inbox, got, answer>>
      /\ client[n] = "reading" /\ inbox[n] = << >> /\ link[n] \in {"closed", "cut"}
      /\ client' = [client EXCEPT ![n] = "done"]
      /\ end'[n] \in {"eof", "reset"} /\ \A m \in Nodes \ {n} : end'[m] = end[m]
  BY DEF ReadEnd, Ends, TypeOK, serverVars, linkVars
<1>2. ASSUME link[n] = "closed" PROVE answer[n] = got[n]
  <2>1. answer[n] \in Answers /\ answer[n] = got[n] \o << >>
    BY <1>1, <1>2 DEF ExchangeInv, ClientAnswers
  <2>2. PICK c \in Fragments : c = got[n]
    BY DEF TypeOK
  <2> QED
    BY <2>1, <2>2, EmptyIs
<1>3. ClientLinks'
  BY <1>1 DEF TypeOK, ExchangeInv, ClientLinks, Fresh
<1>4. ServerLinks'
  BY <1>1 DEF ExchangeInv, ServerLinks
<1>5. ClientAnswers'
  BY <1>1, <1>2 DEF ExchangeInv, ClientAnswers
<1>6. ServerAnswers'
  BY <1>1 DEF ExchangeInv, ServerAnswers
<1> QED
  BY <1>3, <1>4, <1>5, <1>6 DEF ExchangeInv

LEMMA EndCommKeepsInv ==
  ASSUME TypeOK, ExchangeInv, NEW n \in Nodes, EndComm(n)
  PROVE  ExchangeInv'
<1>1. /\ UNCHANGED <<server, left>>
      /\ client' = [client EXCEPT ![n] = "idle"]
      /\ peer' = [peer EXCEPT ![n] = NoNode]
      /\ link' = [link EXCEPT ![n] = "none"]
      /\ inbox' = [inbox EXCEPT ![n] = << >>]
      /\ got' = [got EXCEPT ![n] = << >>]
      /\ end' = [end EXCEPT ![n] = "none"]
      /\ answer' = [answer EXCEPT ![n] = NoAnswer]
      /\ serving' = [m \in Nodes |-> IF serving[m] = n THEN NoNode ELSE serving[m]]
  BY DEF EndComm, Forget, Disconnected
<1>2. Fresh(n)' /\ client'[n] = "idle" /\ peer'[n] = NoNode
  BY <1>1 DEF Fresh, TypeOK
<1>3. ASSUME NEW m \in Nodes \ {n}
      PROVE  /\ client'[m] = client[m] /\ peer'[m] = peer[m] /\ link'[m] = link[m]
             /\ inbox'[m] = inbox[m] /\ got'[m] = got[m] /\ end'[m] = end[m]
             /\ answer'[m] = answer[m]
  BY <1>1 DEF TypeOK
<1>4. ClientLinks'
  BY <1>2, <1>3 DEF ExchangeInv, ClientLinks, Fresh
<1>5. ServerLinks'
  <2>1. ASSUME NEW m \in Nodes, link'[m] = "open" PROVE serving'[peer'[m]] = m
    <3>1. m # n
      BY <1>2, <2>1 DEF Fresh
    <3>2. link[m] = "open" /\ peer'[m] = peer[m] /\ serving[peer[m]] = m
      BY <1>3, <2>1, <3>1 DEF ExchangeInv, ServerLinks
    <3>3. peer[m] \in Nodes
      BY <3>2 DEF TypeOK, ExchangeInv, ClientLinks, Fresh
    <3> QED
      BY <1>1, <3>1, <3>2, <3>3
  <2>2. ASSUME NEW s \in Nodes, serving'[s] # NoNode
        PROVE  serving'[s] = serving[s] /\ serving[s] \in Nodes \ {n}
    BY <1>1, <2>2 DEF TypeOK
  <2> QED
    BY <1>1, <1>3, <2>1, <2>2 DEF ExchangeInv, ServerLinks
<1>6. ClientAnswers'
  BY <1>2, <1>3 DEF ExchangeInv, ClientAnswers, Fresh
<1>7. ServerAnswers'
  <2> SUFFICES ASSUME NEW s \in Nodes, serving'[s] # NoNode
               PROVE  /\ server[s] = "fetching" => answer'[serving'[s]] = NoAnswer
                      /\ server[s] = "writing" => answer'[serving'[s]] # NoAnswer
                      /\ answer'[serving'[s]] # NoAnswer =>
                           answer'[serving'[s]] =
                             (got'[serving'[s]] \o inbox'[serving'[s]]) \o left[s]
    BY <1>1 DEF ServerAnswers
  <2>1. PICK m \in Nodes \ {n} : serving'[s] = m /\ serving[s] = m
    BY <1>1 DEF TypeOK
  <2>2. /\ server[s] = "fetching" => answer[m] = NoAnswer
        /\ server[s] = "writing" => answer[m] # NoAnswer
        /\ answer[m] # NoAnswer => answer[m] = (got[m] \o inbox[m]) \o left[s]
    BY <2>1, NoNodeAssumption DEF ExchangeInv, ServerAnswers
  <2> QED
    BY <1>3, <2>1, <2>2
<1> QED
  BY <1>4, <1>5, <1>6, <1>7 DEF ExchangeInv
\* No two servers have the same client.
LEMMA OneServer ==
  ASSUME TypeOK, ExchangeInv, NEW s \in Nodes, serving[s] # NoNode
  PROVE  /\ serving[s] \in Nodes /\ link[serving[s]] = "open" /\ peer[serving[s]] = s
         /\ client[serving[s]] \in {"reading", "done"}
         /\ \A t \in Nodes : serving[t] = serving[s] => t = s
<1>1. /\ serving[s] \in Nodes /\ link[serving[s]] = "open" /\ peer[serving[s]] = s
      /\ \A t \in Nodes : serving[t] # NoNode => peer[serving[t]] = t
  BY DEF TypeOK, ExchangeInv, ServerLinks
<1>2. PICK n \in Nodes : n = serving[s]
  BY <1>1
<1>3. client[n] \in {"reading", "done"}
  <2>1. client[n] \in {"idle", "pausing", "connecting", "reading", "done"}
    BY DEF TypeOK
  <2>2. client[n] \notin {"idle", "pausing", "connecting"}
    BY <1>1, <1>2 DEF ExchangeInv, ClientLinks, Fresh
  <2> QED
    BY <2>1, <2>2
<1>4. \A t \in Nodes : serving[t] = n => t = s
  BY <1>1, <1>2
<1> QED
  BY <1>1, <1>2, <1>3, <1>4

LEMMA AcceptKeepsInv ==
  ASSUME TypeOK, ExchangeInv, NEW s \in Nodes, Accept(s)
  PROVE  ExchangeInv'
<1>1. PICK n \in Nodes :
        /\ peer[n] = s /\ link[n] = "pending"
        /\ serving' = [serving EXCEPT ![s] = n]
        /\ link' = [link EXCEPT ![n] = "open"]
  BY DEF Accept
<1>2. /\ UNCHANGED <<client, peer, left, inbox, got, end, answer>>
      /\ server[s] = "listening" /\ server' = [server EXCEPT ![s] = "fetching"]
  BY DEF Accept, clientVars
<1>3. /\ server'[s] = "fetching" /\ serving'[s] = n /\ link'[n] = "open"
      /\ \A t \in Nodes \ {s} : server'[t] = server[t] /\ serving'[t] = serving[t]
      /\ \A m \in Nodes \ {n} : link'[m] = link[m]
  BY <1>1, <1>2 DEF TypeOK
<1>4. serving[s] = NoNode /\ answer[n] = NoAnswer /\ n # NoNode
  BY <1>1, <1>2, NoNodeAssumption DEF ExchangeInv, ServerLinks, ClientLinks
<1>5. ClientLinks'
  BY <1>1, <1>2, <1>3 DEF ExchangeInv, ClientLinks, Fresh
<1>6. ServerLinks'
  <2>1. ASSUME NEW m \in Nodes, link'[m] = "open" PROVE serving'[peer[m]] = m
    <3>1. CASE m = n
      BY <1>1, <1>3, <3>1
    <3>2. CASE m # n
      <4>1. link[m] = "open" /\ serving[peer[m]] = m /\ m # NoNode
        BY <1>3, <2>1, <3>2, NoNodeAssumption DEF ExchangeInv, ServerLinks
      <4>2. peer[m] \in Nodes /\ peer[m] # s
        BY <1>4, <4>1 DEF TypeOK, ExchangeInv, ClientLinks, Fresh
      <4> QED
        BY <1>3, <4>1, <4>2
    <3> QED
      BY <3>1, <3>2
  <2>2. ASSUME NEW t \in Nodes, serving'[t] # NoNode
        PROVE  /\ server'[t] \in {"fetching", "writing", "closing"}
               /\ link'[serving'[t]] = "open"
               /\ peer[serving'[t]] = t
    <3>1. CASE t = s
      BY <1>1, <1>3, <3>1
    <3>2. CASE t # s
      <4>1. PICK m \in Nodes : m = serving[t] /\ serving'[t] = m
        BY <1>3, <2>2, <3>2 DEF TypeOK
      <4>2. link[m] = "open" /\ peer[m] = t /\ server[t] \in {"fetching", "writing", "closing"}
        BY <4>1, NoNodeAssumption DEF ExchangeInv, ServerLinks
      <4> QED
        BY <1>1, <1>3, <3>2, <4>1, <4>2
    <3> QED
      BY <3>1, <3>2
  <2> QED
    BY <1>2, <2>1, <2>2 DEF ServerLinks
<1>7. ClientAnswers'
  <2>1. end[n] \notin {"eof", "reset"}
    BY <1>1 DEF ExchangeInv, ClientAnswers
  <2> QED
    BY <1>2, <1>3, <2>1 DEF ExchangeInv, ClientAnswers
<1>8. ServerAnswers'
  <2> SUFFICES ASSUME NEW t \in Nodes, serving'[t] # NoNode
               PROVE  /\ server'[t] = "fetching" => answer[serving'[t]] = NoAnswer
                      /\ server'[t] = "writing" => answer[serving'[t]] # NoAnswer
                      /\ answer[serving'[t]] # NoAnswer =>
                           answer[serving'[t]] =
                             (got[serving'[t]] \o inbox[serving'[t]]) \o left[t]
    BY <1>2 DEF ServerAnswers
  <2>1. CASE t = s
    BY <1>3, <1>4, <2>1
  <2>2. CASE t # s
    <3>1. server'[t] = server[t] /\ serving'[t] = serving[t]
      BY <1>3, <2>2
    <3> QED
      BY <3>1 DEF ExchangeInv, ServerAnswers
  <2> QED
    BY <2>1, <2>2
<1> QED
  BY <1>5, <1>6, <1>7, <1>8 DEF ExchangeInv

LEMMA FetchKeepsInv ==
  ASSUME TypeOK, ExchangeInv, NEW s \in Nodes, Fetch(s)
  PROVE  ExchangeInv'
<1>1. /\ UNCHANGED <<client, peer, serving, link, inbox, got, end>>
      /\ server[s] = "fetching" /\ serving[s] # NoNode
  BY DEF Fetch, clientVars, linkVars
<1>2. PICK n \in Nodes : n = serving[s]
  BY <1>1 DEF TypeOK
<1>3. PICK a \in Answers : left' = [left EXCEPT ![s] = a] /\ answer' = [answer EXCEPT ![n] = a]
  BY <1>2 DEF Fetch
<1>4. /\ server'[s] = "writing" /\ left'[s] = a /\ answer'[n] = a
      /\ \A t \in Nodes \ {s} : server'[t] = server[t] /\ left'[t] = left[t]
      /\ \A m \in Nodes \ {n} : answer'[m] = answer[m]
  BY <1>3 DEF Fetch, TypeOK
<1>5. /\ link[n] = "open" /\ client[n] \in {"reading", "done"}
      /\ \A t \in Nodes \ {s} : serving[t] # n
  BY <1>1, <1>2, OneServer
<1>6. answer[n] = NoAnswer /\ got[n] = << >> /\ inbox[n] = << >>
  BY <1>1, <1>2 DEF ExchangeInv, ServerAnswers, ClientAnswers
<1>7. a = (got[n] \o inbox[n]) \o a /\ a \in Fragments /\ a # NoAnswer
  <2>1. PICK e \in Fragments : e = << >>
    BY EmptyIs
  <2>2. a = (e \o e) \o a /\ a \in Fragments
    BY <2>1, EmptyIs, AnswersAre
  <2> QED
    BY <1>6, <2>1, <2>2, AnswersAre
<1>8. end[n] \notin {"short", "eof", "reset"}
  BY <1>5, <1>6, AnswersAre DEF ExchangeInv, ClientAnswers
<1>9. ClientLinks'
  BY <1>1, <1>4, <1>5 DEF ExchangeInv, ClientLinks, Fresh
<1>10. ServerLinks'
  BY <1>1, <1>4 DEF ExchangeInv, ServerLinks
<1>11. ClientAnswers'
  <2>1. ASSUME NEW m \in Nodes
        PROVE  /\ answer'[m] = NoAnswer => got[m] = << >> /\ inbox[m] = << >>
               /\ answer'[m] # NoAnswer =>
                    \E r \in Fragments : answer'[m] = (got[m] \o inbox[m]) \o r
               /\ link[m] = "closed" => answer'[m] \in Answers /\ answer'[m] = got[m] \o inbox[m]
               /\ end[m] = "short" => answer'[m] \in Answers /\ got[m] = answer'[m]
               /\ end[m] \in {"eof", "reset"} =>
                    /\ link[m] \notin {"pending", "open"}
                    /\ link[m] = "closed" => got[m] = answer'[m]
    <3>1. CASE m = n
      BY <1>4, <1>5, <1>6, <1>7, <1>8, <3>1
    <3>2. CASE m # n
      BY <1>4, <3>2 DEF ExchangeInv, ClientAnswers
    <3> QED
      BY <3>1, <3>2
  <2> QED
    BY <1>1, <2>1 DEF ClientAnswers
<1>12. ServerAnswers'
  <2> SUFFICES ASSUME NEW t \in Nodes, serving[t] # NoNode
               PROVE  /\ server'[t] = "fetching" => answer'[serving[t]] = NoAnswer
                      /\ server'[t] = "writing" => answer'[serving[t]] # NoAnswer
                      /\ answer'[serving[t]] # NoAnswer =>
                           answer'[serving[t]] = (got[serving[t]] \o inbox[serving[t]]) \o left'[t]
    BY <1>1 DEF ServerAnswers
  <2>1. CASE t = s
    BY <1>2, <1>4, <1>7, <2>1
  <2>2. CASE t # s
    <3>1. serving[t] \in Nodes \ {n}
      BY <1>5, <2>2, OneServer
    <3> QED
      BY <1>4, <2>2, <3>1 DEF ExchangeInv, ServerAnswers
  <2> QED
    BY <2>1, <2>2
<1> QED
  BY <1>9, <1>10, <1>11, <1>12 DEF ExchangeInv

LEMMA WriteFragmentKeepsInv ==
  ASSUME TypeOK, ExchangeInv, NEW s \in Nodes, WriteFragment(s)
  PROVE  ExchangeInv'
<1>1. /\ UNCHANGED <<client, peer, server, serving, link, got, end, answer>>
      /\ server[s] = "writing" /\ left[s] # << >> /\ serving[s] # NoNode
  BY DEF WriteFragment, clientVars
<1>2. PICK n \in Nodes : n = serving[s]
  BY <1>1 DEF TypeOK
<1>3. PICK g \in Fragments, b \in Fragments, l \in Fragments :
        g = got[n] /\ b = inbox[n] /\ l = left[s] /\ l # << >>
  BY <1>1 DEF TypeOK
<1>4. PICK c \in Fragments, k \in Fragments :
        c = Append(b, Head(l)) /\ k = Tail(l) /\ c \o k = b \o l
  <2>1. /\ Tail(l) \in Fragments /\ Append(b, Head(l)) \in Fragments
        /\ Append(b, Head(l)) \o Tail(l) = b \o l
    BY <1>3, MoveFragment
  <2> QED
    BY <2>1
<1>5. /\ inbox'[n] = c /\ left'[s] = k
      /\ \A m \in Nodes \ {n} : inbox'[m] = inbox[m]
      /\ \A t \in Nodes \ {s} : left'[t] = left[t]
  BY <1>2, <1>3, <1>4 DEF WriteFragment, TypeOK
<1>6. /\ link[n] = "open" /\ client[n] \in {"reading", "done"}
      /\ \A t \in Nodes \ {s} : serving[t] # n
  BY <1>1, <1>2, OneServer
<1>7. answer[n] # NoAnswer /\ answer[n] = (g \o c) \o k
  <2>1. answer[n] # NoAnswer /\ answer[n] = (g \o b) \o l
    BY <1>1, <1>2, <1>3 DEF ExchangeInv, ServerAnswers
  <2>2. (g \o b) \o l = g \o (b \o l)
    BY FragmentsConcat
  <2>3. (g \o c) \o k = g \o (c \o k)
    BY FragmentsConcat
  <2> QED
    BY <1>4, <2>1, <2>2, <2>3
<1>8. ClientLinks'
  BY <1>1, <1>5, <1>6 DEF ExchangeInv, ClientLinks, Fresh
<1>9. ServerLinks'
  BY <1>1 DEF ExchangeInv, ServerLinks
<1>10. ClientAnswers'
  <2> SUFFICES ASSUME NEW m \in Nodes
               PROVE  /\ answer[m] = NoAnswer => got[m] = << >> /\ inbox'[m] = << >>
                      /\ answer[m] # NoAnswer =>
                           \E r \in Fragments : answer[m] = (got[m] \o inbox'[m]) \o r
                      /\ link[m] = "closed" =>
                           answer[m] \in Answers /\ answer[m] = got[m] \o inbox'[m]
    BY <1>1 DEF ExchangeInv, ClientAnswers
  <2>1. CASE m = n
    <3>1. /\ answer[m] # NoAnswer /\ link[m] = "open"
          /\ answer[m] = (got[m] \o inbox'[m]) \o k
      BY <1>3, <1>5, <1>6, <1>7, <2>1
    <3> QED
      BY <3>1
  <2>2. CASE m # n
    BY <1>5, <2>2 DEF ExchangeInv, ClientAnswers
  <2> QED
    BY <2>1, <2>2
<1>11. ServerAnswers'
  <2> SUFFICES ASSUME NEW t \in Nodes, serving[t] # NoNode
               PROVE  /\ server[t] = "fetching" => answer[serving[t]] = NoAnswer
                      /\ server[t] = "writing" => answer[serving[t]] # NoAnswer
                      /\ answer[serving[t]] # NoAnswer =>
                           answer[serving[t]] = (got[serving[t]] \o inbox'[serving[t]]) \o left'[t]
    BY <1>1 DEF ServerAnswers
  <2>1. CASE t = s
    BY <1>1, <1>2, <1>3, <1>5, <1>7, <2>1
  <2>2. CASE t # s
    <3>1. serving[t] \in Nodes \ {n}
      BY <1>6, <2>2, OneServer
    <3> QED
      BY <1>5, <2>2, <3>1 DEF ExchangeInv, ServerAnswers
  <2> QED
    BY <2>1, <2>2
<1> QED
  BY <1>8, <1>9, <1>10, <1>11 DEF ExchangeInv

\* The connections of a server that is closed: one that it says to be closed,
\* and not cut, has carried the whole answer.
LEMMA ReleasedLinks ==
  ASSUME TypeOK, ExchangeInv, NEW s \in Nodes, NEW n \in Nodes
  PROVE  /\ \/ serving[s] = n /\ Released(s)[n] \in {"closed", "cut"} /\ link[n] = "open"
            \/ serving[s] # n /\ link[n] = "pending" /\ peer[n] = s /\ Released(s)[n] = "reset"
            \/ serving[s] # n /\ Released(s)[n] = link[n]
         /\ serving[s] = n /\ Released(s)[n] = "closed" =>
              answer[n] \in Answers /\ answer[n] = got[n] \o inbox[n]
<1>1. Released(s)[n] = CASE serving[s] = n ->
                              IF answer[n] # NoAnswer /\ left[s] = << >> THEN "closed" ELSE "cut"
                         [] peer[n] = s /\ link[n] = "pending" -> "reset"
                         [] OTHER -> link[n]
  BY ReleasedIs
<1>2. serving[s] = n => link[n] = "open"
  BY NoNodeAssumption, OneServer
<1>3. ASSUME serving[s] = n, answer[n] # NoAnswer, left[s] = << >>
      PROVE  answer[n] \in Answers /\ answer[n] = got[n] \o inbox[n]
  <2>1. answer[n] = (got[n] \o inbox[n]) \o << >>
    BY <1>3, NoNodeAssumption DEF ExchangeInv, ServerAnswers
  <2>2. PICK g \in Fragments, b \in Fragments : g = got[n] /\ b = inbox[n]
    BY DEF TypeOK
  <2>3. (g \o b) \o << >> = g \o b
    BY <2>2, FragmentsConcat, EmptyIs
  <2>4. answer[n] \in Answers
    BY <1>3 DEF TypeOK
  <2> QED
    BY <2>1, <2>2, <2>3, <2>4
<1> QED
  BY <1>1, <1>2, <1>3

LEMMA CloseServerKeepsInv ==
  ASSUME TypeOK, ExchangeInv, NEW s \in Nodes, CloseServer(s)
  PROVE  ExchangeInv'
<1>1. /\ UNCHANGED <<client, peer, inbox, got, end, answer>>
      /\ server[s] = "closing" /\ server' = [server EXCEPT ![s] = "off"]
      /\ serving' = [serving EXCEPT ![s] = NoNode]
      /\ left' = [left EXCEPT ![s] = << >>]
      /\ link' = Released(s)
  BY DEF CloseServer, clientVars
<1>2. ASSUME NEW n \in Nodes
      PROVE  /\ \/ serving[s] = n /\ link'[n] \in {"closed", "cut"} /\ link[n] = "open"
                \/ serving[s] # n /\ link[n] = "pending" /\ link'[n] = "reset"
                \/ serving[s] # n /\ link'[n] = link[n]
             /\ serving[s] = n /\ link'[n] = "closed" =>
                  answer[n] \in Answers /\ answer[n] = got[n] \o inbox[n]
  BY <1>1, ReleasedLinks
<1>3. /\ serving'[s] = NoNode
      /\ \A t \in Nodes \ {s} :
           serving'[t] = serving[t] /\ server'[t] = server[t] /\ left'[t] = left[t]
  BY <1>1 DEF TypeOK
<1>4. ClientLinks'
  <2>1. \A n \in Nodes : serving[s] = n => client[n] \in {"reading", "done"}
    BY NoNodeAssumption, OneServer
  <2> QED
    BY <1>1, <1>2, <2>1 DEF ExchangeInv, ClientLinks, Fresh
<1>5. ServerLinks'
  <2>1. ASSUME NEW n \in Nodes, link'[n] = "open" PROVE serving'[peer[n]] = n
    <3>1. link[n] = "open" /\ serving[s] # n /\ serving[peer[n]] = n
      BY <1>2, <2>1 DEF ExchangeInv, ServerLinks
    <3>2. peer[n] \in Nodes \ {s}
      BY <3>1 DEF TypeOK, ExchangeInv, ClientLinks, Fresh
    <3> QED
      BY <1>3, <3>1, <3>2
  <2>2. ASSUME NEW t \in Nodes, serving'[t] # NoNode
        PROVE  /\ server'[t] \in {"fetching", "writing", "closing"}
               /\ link'[serving'[t]] = "open"
               /\ peer[serving'[t]] = t
    <3>1. t # s /\ serving'[t] = serving[t] /\ server'[t] = server[t]
      BY <1>3, <2>2
    <3>2. PICK m \in Nodes : m = serving[t]
      BY <2>2, <3>1 DEF TypeOK
    <3>3. /\ link[m] = "open" /\ peer[m] = t /\ server[t] \in {"fetching", "writing", "closing"}
          /\ serving[s] # m
      BY <2>2, <3>1, <3>2, OneServer DEF ExchangeInv, ServerLinks
    <3>4. link'[m] = "open"
      BY <1>2, <3>3
    <3> QED
      BY <3>1, <3>2, <3>3, <3>4
  <2> QED
    BY <1>1, <2>1, <2>2 DEF ServerLinks
<1>6. ClientAnswers'
  BY <1>1, <1>2 DEF ExchangeInv, ClientAnswers
<1>7. ServerAnswers'
  BY <1>1, <1>3 DEF ExchangeInv, ServerAnswers
<1> QED
  BY <1>4, <1>5, <1>6, <1>7 DEF ExchangeInv

LEMMA ProcessEndsKeepsInv ==
  ASSUME TypeOK, ExchangeInv, NEW n \in Nodes, ProcessEnds(n)
  PROVE  ExchangeInv'
<1>1. /\ client'[n] = "idle" /\ peer'[n] = NoNode /\ Fresh(n)'
      /\ server'[n] = "off" /\ serving'[n] = NoNode
  <2>1. link'[n] = "none"
    BY ReleasedType DEF ProcessEnds, TypeOK
  <2>2. serving'[n] = NoNode
    BY DEF ProcessEnds
  <2> QED
    BY <2>1, <2>2 DEF ProcessEnds, Fresh, TypeOK
<1>2. ASSUME NEW m \in Nodes \ {n}
      PROVE  /\ client'[m] = client[m] /\ peer'[m] = peer[m]
             /\ inbox'[m] = inbox[m] /\ got'[m] = got[m] /\ end'[m] = end[m]
             /\ answer'[m] = answer[m]
             /\ server'[m] = server[m] /\ left'[m] = left[m]
             /\ serving'[m] = IF serving[m] = n THEN NoNode ELSE serving[m]
  BY DEF ProcessEnds, TypeOK
<1>3. ASSUME NEW m \in Nodes \ {n}
      PROVE  /\ \/ serving[n] = m /\ link'[m] \in {"closed", "cut"} /\ link[m] = "open"
                \/ serving[n] # m /\ link[m] = "pending" /\ peer[m] = n /\ link'[m] = "reset"
                \/ serving[n] # m /\ link'[m] = link[m]
             /\ serving[n] = m /\ link'[m] = "closed" =>
                  answer[m] \in Answers /\ answer[m] = got[m] \o inbox[m]
  <2>1. link'[m] = Released(n)[m]
    BY ReleasedType DEF ProcessEnds
  <2> QED
    BY <2>1, ReleasedLinks
<1>4. ASSUME NEW t \in Nodes, serving'[t] # NoNode
      PROVE  t \in Nodes \ {n} /\ serving'[t] = serving[t] /\ serving[t] \in Nodes \ {n}
  <2>1. t # n
    BY <1>1, <1>4
  <2> QED
    BY <1>2, <1>4, <2>1 DEF TypeOK
<1>5. ClientLinks'
  <2>1. \A m \in Nodes : serving[n] = m => client[m] \in {"reading", "done"}
    BY NoNodeAssumption, OneServer
  <2>2. ASSUME NEW m \in Nodes \ {n}
        PROVE  /\ client'[m] = "idle" <=> peer'[m] = NoNode
               /\ client'[m] \in {"idle", "pausing", "connecting"} => Fresh(m)'
               /\ client'[m] = "reading" => link'[m] # "none" /\ end'[m] = "none"
               /\ link'[m] = "pending" => answer'[m] = NoAnswer
    <3>1. /\ client[m] = "idle" <=> peer[m] = NoNode
          /\ client[m] \in {"idle", "pausing", "connecting"} => Fresh(m)
          /\ client[m] = "reading" => link[m] # "none" /\ end[m] = "none"
          /\ link[m] = "pending" => answer[m] = NoAnswer
      BY DEF ExchangeInv, ClientLinks
    <3>2. /\ link'[m] = "pending" => link[m] = "pending"
          /\ link'[m] = "none" <=> link[m] = "none"
      BY <1>3
    <3>3. client[m] \in {"idle", "pausing", "connecting"} => Fresh(m)'
      BY <1>2, <3>1, <3>2 DEF Fresh
    <3> QED
      BY <1>2, <3>1, <3>2, <3>3
  <2>3. /\ client'[n] = "idle" <=> peer'[n] = NoNode
        /\ client'[n] \in {"idle", "pausing", "connecting"} => Fresh(n)'
        /\ client'[n] = "reading" => link'[n] # "none" /\ end'[n] = "none"
        /\ link'[n] = "pending" => answer'[n] = NoAnswer
    BY <1>1 DEF Fresh
  <2> QED
    BY <2>2, <2>3 DEF ClientLinks
<1>6. ServerLinks'
  <2>1. ASSUME NEW m \in Nodes, link'[m] = "open" PROVE serving'[peer'[m]] = m
    <3>1. m # n
      BY <1>1, <2>1 DEF Fresh
    <3>2. serving[n] # m /\ link[m] = "open" /\ peer'[m] = peer[m] /\ serving[peer[m]] = m
      <4>1. serving[n] # m /\ link[m] = "open"
        BY <1>3, <2>1, <3>1
      <4> QED
        BY <1>2, <3>1, <4>1 DEF ExchangeInv, ServerLinks
    <3>3. peer[m] \in Nodes \ {n}
      <4>1. peer[m] \in Nodes
        BY <3>2 DEF TypeOK, ExchangeInv, ClientLinks, Fresh
      <4> QED
        BY <3>2, <4>1
    <3> QED
      BY <1>2, <3>1, <3>2, <3>3
  <2>2. ASSUME NEW t \in Nodes, serving'[t] # NoNode
        PROVE  /\ server'[t] \in {"fetching", "writing", "closing"}
               /\ link'[serving'[t]] = "open"
               /\ peer'[serving'[t]] = t
    <3>1. PICK m \in Nodes \ {n} : m = serving[t] /\ serving'[t] = m /\ t # n
      BY <1>4, <2>2
    <3>2. /\ link[m] = "open" /\ peer[m] = t /\ server[t] \in {"fetching", "writing", "closing"}
          /\ serving[n] # m
      BY <2>2, <3>1, OneServer DEF ExchangeInv, ServerLinks
    <3>3. link'[m] = "open" /\ peer'[m] = t
      BY <1>2, <1>3, <3>2
    <3> QED
      BY <1>2, <3>1, <3>2, <3>3
  <2> QED
    BY <2>1, <2>2 DEF ServerLinks
<1>7. ClientAnswers'
  <2>1. ASSUME NEW m \in Nodes \ {n}
        PROVE  /\ answer[m] = NoAnswer => got[m] = << >> /\ inbox[m] = << >>
               /\ answer[m] # NoAnswer =>
                    \E r \in Fragments : answer[m] = (got[m] \o inbox[m]) \o r
               /\ link'[m] = "closed" => answer[m] \in Answers /\ answer[m] = got[m] \o inbox[m]
               /\ end[m] = "short" => answer[m] \in Answers /\ got[m] = answer[m]
               /\ end[m] \in {"eof", "reset"} =>
                    /\ link'[m] \notin {"pending", "open"}
                    /\ link'[m] = "closed" => got[m] = answer[m]
    <3>1. /\ answer[m] = NoAnswer => got[m] = << >> /\ inbox[m] = << >>
          /\ answer[m] # NoAnswer =>
               \E r \in Fragments : answer[m] = (got[m] \o inbox[m]) \o r
          /\ link[m] = "closed" => answer[m] \in Answers /\ answer[m] = got[m] \o inbox[m]
          /\ end[m] = "short" => answer[m] \in Answers /\ got[m] = answer[m]
          /\ end[m] \in {"eof", "reset"} =>
               /\ link[m] \notin {"pending", "open"}
               /\ link[m] = "closed" => got[m] = answer[m]
      BY DEF ExchangeInv, ClientAnswers
    <3>2. /\ link'[m] \in {"pending", "open"} => link[m] = link'[m]
          /\ link[m] \notin {"pending", "open"} => link'[m] = link[m]
          /\ link'[m] = "closed" =>
               \/ link[m] = "closed"
               \/ answer[m] \in Answers /\ answer[m] = got[m] \o inbox[m]
      BY <1>3
    <3> QED
      BY <3>1, <3>2
  <2>2. ASSUME NEW m \in Nodes \ {n}
        PROVE  /\ answer'[m] = NoAnswer => got'[m] = << >> /\ inbox'[m] = << >>
               /\ answer'[m] # NoAnswer =>
                    \E r \in Fragments : answer'[m] = (got'[m] \o inbox'[m]) \o r
               /\ link'[m] = "closed" =>
                    answer'[m] \in Answers /\ answer'[m] = got'[m] \o inbox'[m]
               /\ end'[m] = "short" => answer'[m] \in Answers /\ got'[m] = answer'[m]
               /\ end'[m] \in {"eof", "reset"} =>
                    /\ link'[m] \notin {"pending", "open"}
                    /\ link'[m] = "closed" => got'[m] = answer'[m]
    <3>1. /\ answer'[m] = answer[m] /\ got'[m] = got[m] /\ inbox'[m] = inbox[m]
          /\ end'[m] = end[m]
      BY <1>2
    <3> QED
      BY <2>1, <3>1
  <2>3. /\ answer'[n] = NoAnswer /\ got'[n] = << >> /\ inbox'[n] = << >>
        /\ link'[n] = "none" /\ end'[n] = "none"
    BY <1>1 DEF Fresh
  <2> QED
    BY <2>2, <2>3 DEF ClientAnswers
<1>8. ServerAnswers'
  <2> SUFFICES ASSUME NEW t \in Nodes, serving'[t] # NoNode
               PROVE  /\ server'[t] = "fetching" => answer'[serving'[t]] = NoAnswer
                      /\ server'[t] = "writing" => answer'[serving'[t]] # NoAnswer
                      /\ answer'[serving'[t]] # NoAnswer =>
                           answer'[serving'[t]] =
                             (got'[serving'[t]] \o inbox'[serving'[t]]) \o left'[t]
    BY DEF ServerAnswers
  <2>1. PICK m \in Nodes \ {n} : m = serving[t] /\ serving'[t] = m /\ t # n
    BY <1>4
  <2>2. /\ server[t] = "fetching" => answer[m] = NoAnswer
        /\ server[t] = "writing" => answer[m] # NoAnswer
        /\ answer[m] # NoAnswer => answer[m] = (got[m] \o inbox[m]) \o left[t]
    BY <2>1, NoNodeAssumption DEF ExchangeInv, ServerAnswers
  <2> QED
    BY <1>2, <2>1, <2>2
<1> QED
  BY <1>5, <1>6, <1>7, <1>8 DEF ExchangeInv

LEMMA LinkBreaksKeepsInv ==
  ASSUME TypeOK, ExchangeInv, NEW n \in Nodes, LinkBreaks(n)
  PROVE  ExchangeInv'
<1>1. /\ UNCHANGED <<client, peer, server, left, got, end, answer>>
      /\ client[n] = "reading"
      /\ serving' = [m \in Nodes |-> IF serving[m] = n THEN NoNode ELSE serving[m]]
  BY DEF LinkBreaks, Disconnected, clientVars
<1>2. /\ link'[n] = "reset" /\ inbox'[n] = << >>
      /\ \A m \in Nodes \ {n} : link'[m] = link[m] /\ inbox'[m] = inbox[m]
  BY DEF LinkBreaks, TypeOK
<1>3. ClientLinks'
  BY <1>1, <1>2 DEF ExchangeInv, ClientLinks, Fresh
<1>4. ASSUME NEW s \in Nodes, serving'[s] # NoNode
      PROVE  serving'[s] = serving[s] /\ serving[s] \in Nodes \ {n}
  BY <1>1, <1>4 DEF TypeOK
<1>5. ServerLinks'
  <2>1. ASSUME NEW m \in Nodes, link'[m] = "open" PROVE serving'[peer[m]] = m
    <3>1. m # n
      BY <1>2, <2>1
    <3>2. link[m] = "open" /\ serving[peer[m]] = m
      BY <1>2, <2>1, <3>1 DEF ExchangeInv, ServerLinks
    <3>3. peer[m] \in Nodes
      BY <3>2 DEF TypeOK, ExchangeInv, ClientLinks, Fresh
    <3> QED
      BY <1>1, <3>1, <3>2, <3>3
  <2> QED
    BY <1>1, <1>2, <1>4, <2>1 DEF ExchangeInv, ServerLinks
<1>6. ClientAnswers'
  <2>1. ASSUME NEW r \in Fragments, answer[n] = (got[n] \o inbox[n]) \o r
        PROVE  \E q \in Fragments : answer[n] = (got[n] \o << >>) \o q
    <3>1. PICK g \in Fragments, b \in Fragments : g = got[n] /\ b = inbox[n]
      BY DEF TypeOK
    <3>2. (g \o b) \o r = g \o (b \o r) /\ b \o r \in Fragments
      BY FragmentsConcat
    <3>3. g \o << >> = g
      BY EmptyIs
    <3> QED
      BY <2>1, <3>1, <3>2, <3>3
  <2> QED
    BY <1>1, <1>2, <2>1 DEF ExchangeInv, ClientAnswers
<1>7. ServerAnswers'
  <2> SUFFICES ASSUME NEW s \in Nodes, serving'[s] # NoNode
               PROVE  /\ server[s] = "fetching" => answer[serving'[s]] = NoAnswer
                      /\ server[s] = "writing" => answer[serving'[s]] # NoAnswer
                      /\ answer[serving'[s]] # NoAnswer =>
                           answer[serving'[s]] =
                             (got[serving'[s]] \o inbox'[serving'[s]]) \o left[s]
    BY <1>1 DEF ServerAnswers
  <2>1. PICK m \in Nodes \ {n} : serving'[s] = m /\ serving[s] = m
    BY <1>4
  <2>2. /\ server[s] = "fetching" => answer[m] = NoAnswer
        /\ server[s] = "writing" => answer[m] # NoAnswer
        /\ answer[m] # NoAnswer => answer[m] = (got[m] \o inbox[m]) \o left[s]
    BY <2>1, NoNodeAssumption DEF ExchangeInv, ServerAnswers
  <2> QED
    BY <1>2, <2>1, <2>2
<1> QED
  BY <1>3, <1>5, <1>6, <1>7 DEF ExchangeInv

LEMMA StepInv == TypeOK /\ ExchangeInv /\ [Next]_vars => ExchangeInv'
<1> SUFFICES ASSUME TypeOK, ExchangeInv, [Next]_vars PROVE ExchangeInv'
  OBVIOUS
<1>1. ASSUME NEW n \in Nodes, NEW m \in Nodes, NEW s \in BOOLEAN, Request(n, m, s)
      PROVE  ExchangeInv'
  BY <1>1, RequestKeepsInv
<1>2. ASSUME NEW n \in Nodes, PauseServer(n) \/ Listen(n)
      PROVE  ExchangeInv'
  BY <1>2, PlacesKeepInv
<1>3. ASSUME NEW n \in Nodes, ClientStep(n)
      PROVE  ExchangeInv'
  BY <1>3, PlacesKeepInv, ConnectKeepsInv, ReadFragmentKeepsInv, ReadEndKeepsInv,
     EndCommKeepsInv DEF ClientStep
<1>4. ASSUME NEW n \in Nodes, ServerStep(n)
      PROVE  ExchangeInv'
  BY <1>4, PlacesKeepInv, AcceptKeepsInv, FetchKeepsInv, WriteFragmentKeepsInv,
     CloseServerKeepsInv DEF ServerStep
<1>5. ASSUME NEW n \in Nodes, LinkBreaks(n) \/ ProcessEnds(n)
      PROVE  ExchangeInv'
  BY <1>5, LinkBreaksKeepsInv, ProcessEndsKeepsInv
<1>6. CASE UNCHANGED vars
  <2>1. UNCHANGED <<client, peer, server, serving, left, link, inbox, got, end, answer>>
    BY <1>6 DEF vars, clientVars, serverVars, linkVars
  <2>2. ClientLinks' /\ ServerLinks'
    BY <2>1 DEF ExchangeInv, ClientLinks, ServerLinks, Fresh
  <2>3. ClientAnswers'
    BY <2>1 DEF ExchangeInv, ClientAnswers
  <2>4. ServerAnswers'
    BY <2>1 DEF ExchangeInv, ServerAnswers
  <2> QED
    BY <2>2, <2>3, <2>4 DEF ExchangeInv
<1> QED
  BY <1>1, <1>2, <1>3, <1>4, <1>5, <1>6 DEF Next

\* What has come to a client is the beginning of the answer to the request it
\* has made, and never of an earlier one, although exchanges are cut off while
\* the server still writes (btchannel.cpp, btdevice.cpp).
THEOREM ReadsItsAnswerTheorem == Spec => []ReadsItsAnswer
<1>1. TypeOK /\ ExchangeInv => ReadsItsAnswer
  <2> SUFFICES ASSUME TypeOK, ExchangeInv, NEW n \in Nodes,
                      got[n] # << >> \/ inbox[n] # << >>
               PROVE  answer[n] # NoAnswer /\ IsPrefix(got[n], answer[n])
    BY DEF ReadsItsAnswer
  <2>1. answer[n] # NoAnswer
    BY DEF ExchangeInv, ClientAnswers
  <2>2. PICK g \in Fragments, b \in Fragments : g = got[n] /\ b = inbox[n]
    BY DEF TypeOK
  <2>3. PICK r \in Fragments : answer[n] = (g \o b) \o r
    BY <2>1, <2>2 DEF ExchangeInv, ClientAnswers
  <2>4. PICK q \in Fragments : answer[n] = g \o q
    <3>1. (g \o b) \o r = g \o (b \o r) /\ b \o r \in Fragments
      BY FragmentsConcat
    <3> QED
      BY <2>3, <3>1
  <2>5. IsPrefix(g, g \o q)
    <3>1. Len(g) \in Nat /\ Len(q) \in Nat /\ Len(g \o q) = Len(g) + Len(q)
      BY LenProperties, ConcatProperties DEF Fragments
    <3>2. SubSeq(g \o q, 1, Len(g)) = SubSeq(g, 1, Len(g))
      <4>1. CASE Len(g) = 0
        BY <4>1, SubSeqEmpty
      <4>2. CASE Len(g) # 0
        <5>1. 1 \in 1..Len(g) /\ Len(g) \in 1..Len(g)
          BY <3>1, <4>2
        <5> QED
          BY <5>1, SubSeqOfConcat1 DEF Fragments
      <4> QED
        BY <4>1, <4>2
    <3> QED
      BY <3>1, <3>2 DEF IsPrefix
  <2> QED
    BY <2>1, <2>2, <2>4, <2>5
<1> QED
  BY <1>1, InitTypes, StepTypes, InitInv, StepInv, PTL DEF Spec

\* An answer that a short fragment ends is whole, whatever its length, whatever
\* breaks and wherever programs end; and one that ends without an error is whole
\* if the server has closed its connection after all it had to write, and the
\* link has not broken (btchannel.cpp, read; node.cpp, sendRequestWait4Response).
THEOREM WholeUnlessBrokenTheorem == Spec => []WholeUnlessBroken
<1>1. ExchangeInv => WholeUnlessBroken
  BY DEF ExchangeInv, ClientAnswers, WholeUnlessBroken
<1> QED
  BY <1>1, InitTypes, StepTypes, InitInv, StepInv, PTL DEF Spec
=============================================================================
