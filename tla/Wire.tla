-------------------------------- MODULE Wire --------------------------------
(***************************************************************************)
(* Requests and answers as texts (rrpacket, torrentListReq,                *)
(* torrentFileReq, torrentAvailReq, chunkReq, rrfactory, and               *)
(* Utils::tokenize).  A node asks a peer for the names of its torrents,    *)
(* and then for the torrents, their available chunks and single chunks, by *)
(* the names it has been told, or that are typed.  A text is a sequence of *)
(* symbols: bars, other characters of names, and numerals.  Fields are     *)
(* separated by two bars, which a name may have as well.                   *)
(***************************************************************************)
EXTENDS Integers, FiniteSets, Sequences, SequencesExt

CONSTANTS Names,    \* the names of torrents there are, as texts
          Characters,  \* what a text has but bars and numerals
          Indexes,  \* the indexes of the chunks of a torrent
          Numeral,  \* to_string: the symbol of each number
          MaxTorrents  \* bound on the torrents of the peer

NoIndex == -1
Bar == "|"
Integer == Indexes \union {NoIndex} \union 0..4
Symbols == Characters \union {Numeral[i] : i \in Integer}
                      \union {Bar, "bp2p", "torrent", "data"}
Text == Seq(Symbols)

ASSUME NamesAssumption == \A n \in Names : n \in Text /\ n # << >>
ASSUME IndexesAssumption == Indexes \subseteq Nat /\ IsFiniteSet(Indexes)
ASSUME NumeralAssumption ==
  /\ \A i \in Integer : Numeral[i] # Bar
  /\ \A i, j \in Integer : Numeral[i] = Numeral[j] => i = j
ASSUME MaxTorrentsAssumption == MaxTorrents \in Nat

VARIABLES library,  \* the torrents of the peer: of each name, whether the
                    \* torrent can be opened, and the chunks it says it has
          known,    \* the names it has told
          pc,       \* where the exchange is
          kind,     \* the kind of the request,
          name,     \* the name
          index,    \* and the index in it
          message,  \* the text on its way
          handler,  \* the kind the peer takes the request for,
          asked,    \* and the name and index it has read from it
          result    \* what the answer has been parsed to

asking == <<kind, name, index>>
serving == <<handler, asked>>
vars == <<library, known, pc, asking, message, serving, result>>

Kinds == {"list", "file", "avail", "chunk"}
Sep == <<Bar, Bar>>
Prefix == <<"bp2p">> \o Sep

TypeOK ==
  /\ DOMAIN library \subseteq Names
  /\ \A n \in DOMAIN library : library[n] \in [opens : BOOLEAN, chunks : Seq(Indexes)]
  /\ known \subseteq Text
  /\ pc \in {"idle", "sent", "served", "answered", "done"}
  /\ kind \in Kinds
  /\ name \in Text
  /\ index \in Indexes \union {NoIndex}
  /\ message \in Text
  /\ handler \in Kinds \union {"bad"}
  /\ asked \in [name : Text, index : Indexes \union {NoIndex}]
  /\ result \in IF kind = "avail" THEN Seq(Indexes) ELSE Text

Init ==
  /\ \E S \in {N \in SUBSET Names : IsFiniteSet(N) /\ Cardinality(N) <= MaxTorrents} :
       library \in [S -> [opens : BOOLEAN, chunks : {<< >>, SetToSeq(Indexes)}]]
  /\ known = {}
  /\ pc = "idle"
  /\ kind = "list"
  /\ name = << >>
  /\ index = NoIndex
  /\ message = << >>
  /\ handler = "bad"
  /\ asked = [name |-> << >>, index |-> NoIndex]
  /\ result = << >>

-----------------------------------------------------------------------------
(* Numbers and fields. *)

\* RequestType, whose first value is BadReq.
TypeOf == [list |-> 1, file |-> 2, avail |-> 3, chunk |-> 4]

KindOf(t) == IF \E k \in Kinds : TypeOf[k] = t
               THEN CHOOSE k \in Kinds : TypeOf[k] = t
               ELSE "bad"

\* stoi, with the exception it throws.
Exception == -2
Stoi(text) ==
  IF text # << >> /\ \E i \in Integer : Head(text) = Numeral[i]
    THEN CHOOSE i \in Integer : Head(text) = Numeral[i]
    ELSE Exception

\* Slip: a token begins one bar too early.
ScannedFromBar(t, c) ==
  IF c = Bar /\ t.last # << >> /\ Last(t.last) = Bar
    THEN [done |-> Append(t.done, Front(t.last)), last |-> <<Bar>>]
    ELSE [t EXCEPT !.last = Append(@, c)]

\* One more character: the first two bars end a token.
Scanned(t, c) ==
  IF c = Bar /\ t.last # << >> /\ Last(t.last) = Bar
    THEN [done |-> Append(t.done, Front(t.last)), last |-> << >>]
    ELSE [t EXCEPT !.last = Append(@, c)]

Scan(text) ==
  LET scan[c \in 0..Len(text)] ==
        IF c = 0 THEN [done |-> << >>, last |-> << >>] ELSE Scanned(scan[c - 1], text[c])
  IN  scan[Len(text)]

\* There is always a last token, of an empty text too.
Tokenize(text) == Append(Scan(text).done, Scan(text).last)

\* A separator after each field.
Terminated(fields) ==
  LET text[i \in 0..Len(fields)] ==
        IF i = 0 THEN << >> ELSE text[i - 1] \o fields[i] \o Sep
  IN  text[Len(fields)]

\* Slip: the last separator stays.
SerializeListOpen(names) == Terminated(names)

\* serializeTorrentList: the last separator is removed.
SerializeList(names) ==
  LET text == Terminated(names)
  IN  IF Len(text) > 2 THEN SubSeq(text, 1, Len(text) - 2) ELSE text

\* A separator after each number but the last.
SerializeAvail(avail) ==
  LET numerals == [i \in DOMAIN avail |-> <<Numeral[avail[i]]>>]
  IN  IF avail = << >> THEN << >> ELSE Terminated(Front(numerals)) \o Last(numerals)

\* Slip: what is not a number is an index that is none.
ParseAvailLeniently(text) ==
  LET tokens == Tokenize(text)
  IN  [t \in DOMAIN tokens |->
         IF Stoi(tokens[t]) = Exception THEN NoIndex ELSE Stoi(tokens[t])]

\* An exception of stoi clears the list.
ParseAvail(text) ==
  LET tokens == Tokenize(text)
      avail == [t \in DOMAIN tokens |-> Stoi(tokens[t])]
  IN  IF Exception \in ToSet(avail) THEN << >> ELSE avail

\* Two opaque answers: a serialized torrent, and what a package has at the
\* offset of an index.
File(n) == <<"torrent">> \o n
Data(n, i) == <<"data">> \o n \o <<Numeral[i]>>

-----------------------------------------------------------------------------
(* The node that asks. *)

\* createRequest of the four kinds.
RequestText(k, n, i) ==
  Prefix \o <<Numeral[TypeOf[k]]>>
    \o (IF k = "list" THEN << >> ELSE Sep \o n)
    \o (IF k = "chunk" THEN Sep \o <<Numeral[i]>> ELSE << >>)

\* The names are those of torName2dev; the user may type any other for -tr and
\* for -rc.
Ask(k, n, i) ==
  /\ pc \in {"idle", "done"}
  /\ CASE k = "list" -> n = << >> /\ i = NoIndex
       [] k = "file" -> n \in known \union Names /\ i = NoIndex
       [] k = "avail" -> n \in known \union Names /\ i = NoIndex
       [] k = "chunk" -> n \in known
  /\ kind' = k
  /\ name' = n
  /\ index' = i
  /\ message' = RequestText(k, n, i)
  /\ result' = << >>
  /\ pc' = "sent"
  /\ UNCHANGED <<library, known, serving>>

\* processResponse, and completeRequest of a list.
ProcessResponse ==
  /\ pc = "answered"
  /\ known' = IF kind = "list" THEN ToSet(Tokenize(message)) ELSE known
  /\ result' = CASE kind = "list" -> << >>
                 [] kind = "avail" -> ParseAvail(message)
                 [] OTHER -> message
  /\ message' = << >>
  /\ pc' = "done"
  /\ UNCHANGED <<library, asking, serving>>

-----------------------------------------------------------------------------
(* The peer. *)

\* getReqTypeFromReq.  stoi reads past the end of a text that ends with its
\* type: what follows in memory may make another number of it.
KindsRead(text) ==
  IF Len(text) <= Len(Prefix) \/ ~IsPrefix(Prefix, text)
    THEN {"bad"}
    ELSE LET rest == SubSeq(text, Len(Prefix) + 1, Len(text))
         IN  {KindOf(Stoi(rest))} \union IF Len(rest) = 1 THEN {"bad"} ELSE {}

ReadName(text) ==
  LET tokens == Tokenize(text) IN IF Len(tokens) > 2 THEN tokens[3] ELSE << >>

\* Slip: a bad index is the first.
ReadIndexOrFirst(text) ==
  LET tokens == Tokenize(text)
  IN  IF Len(tokens) > 3 /\ Stoi(tokens[4]) # Exception THEN Stoi(tokens[4]) ELSE 0

ReadIndex(text) ==
  LET tokens == Tokenize(text)
  IN  IF Len(tokens) > 3 /\ Stoi(tokens[4]) # Exception THEN Stoi(tokens[4]) ELSE NoIndex

\* RRFactory::create, and what each packet extracts.
Create ==
  /\ pc = "sent"
  /\ handler' \in KindsRead(message)
  /\ asked' = [name |-> IF handler' \in {"list", "bad"} THEN << >> ELSE ReadName(message),
               index |-> IF handler' = "chunk" THEN ReadIndex(message) ELSE NoIndex]
  /\ pc' = "served"
  /\ UNCHANGED <<library, known, asking, message, result>>

\* getChunkAvail after open, which has added the chunks of the rows to those
\* that are there: each counts twice.
OpenedChunks(n) == library[n].chunks \o library[n].chunks

\* getChunk: the offset of -1 is the last multiple of the chunk size that an
\* unsigned number can have, where a smaller package has nothing.
ReadFrom(n, i) == {Data(n, i)} \union IF i = NoIndex THEN {<< >>} ELSE {}

\* The answers about a torrent that is there: one with the uid 0, as all that
\* were received have, or without chunks does not open.
Answers ==
  IF ~library[asked.name].opens THEN {<< >>}
  ELSE CASE handler = "file" -> {File(asked.name)}
         [] handler = "avail" -> {SerializeAvail(OpenedChunks(asked.name))}
         [] handler = "chunk" -> ReadFrom(asked.name, asked.index)

\* processRequest: an answer to a bad request, and about a torrent that is not
\* there, is empty.
ProcessRequest ==
  /\ pc = "served"
  /\ message' \in
       IF handler = "list" THEN {SerializeList(names) : names \in SetToSeqs(DOMAIN library)}
       ELSE IF handler = "bad" \/ asked.name \notin DOMAIN library THEN {<< >>}
       ELSE Answers
  /\ pc' = "answered"
  /\ UNCHANGED <<library, known, asking, serving, result>>

Next ==
  \/ \E k \in Kinds, n \in known \union Names \union {<< >>}, i \in Indexes \union {NoIndex} :
       Ask(k, n, i)
  \/ Create
  \/ ProcessRequest
  \/ ProcessResponse

Spec == Init /\ [][Next]_vars

-----------------------------------------------------------------------------
(* Properties. *)

\* A name without two bars in a row, nor one at its end.
Plain(n) ==
  n[Len(n)] # Bar /\ \A c \in 1..(Len(n) - 1) : <<n[c], n[c + 1]>> # Sep

\* All names of a peer become known, and no other, if it has any, and all are
\* plain (torrentListReq.cpp, serializeTorrentList and parseTorrentList).
ListArrives ==
  pc = "done" /\ kind = "list" /\ handler = "list" /\ library # << >>
    /\ (\A n \in DOMAIN library : Plain(n)) => known = DOMAIN library

\* The part of a name before its first two bars.
Heard(n) ==
  LET cuts == {c \in 1..(Len(n) - 1) : <<n[c], n[c + 1]>> = Sep}
  IN  IF cuts = {} THEN n
      ELSE SubSeq(n, 1, (CHOOSE c \in cuts : \A d \in cuts : c <= d) - 1)

\* An answer is empty, or about the torrent asked for, whatever names the peer
\* has and however the list of them was cut into names: about the one that the
\* name has before its first two bars, which is the name itself unless it was
\* typed.  The one exception is a chunk by a name that ends with a bar, which
\* runs into the separator: the peer reads the name without the bar and no
\* index, and may answer with what is at the offset of -1 there
\* (torrentFileReq.cpp, torrentAvailReq.cpp, chunkReq.cpp).
AnswerFits ==
  pc = "done" =>
    /\ kind = "file" => result \in {<< >>, File(Heard(name))}
    /\ kind = "avail" /\ result # << >> =>
         /\ Heard(name) \in DOMAIN library
         /\ ToSet(result) = ToSet(library[Heard(name)].chunks)
    /\ kind = "chunk" =>
         \/ result \in {<< >>, Data(name, index)}
         \/ Last(name) = Bar /\ result = Data(Front(name), NoIndex)

\* A request about a torrent the peer has is answered, if the torrent can be
\* opened and its name is plain (node.cpp, processRequest).
RequestIsAnswered ==
  pc = "done" /\ name \in DOMAIN library /\ library[name].opens /\ Plain(name) =>
    /\ kind = "file" => result = File(name)
    /\ kind = "avail" => ToSet(result) = ToSet(library[name].chunks)
    /\ kind = "chunk" /\ index # NoIndex => result = Data(name, index)
=============================================================================
