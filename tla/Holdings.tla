------------------------------ MODULE Holdings ------------------------------
(***************************************************************************)
(* What a node promises of the torrents it shares: the chunks it has of    *)
(* each.  A download adds one chunk at a time, and the creation of a       *)
(* torrent gives all of them.  Only one thing takes chunks away: a         *)
(* creation that overtakes a download of the same name is undone, and what *)
(* was held before it is left, with at most the chunk of that download.    *)
(* Download implements this.                                               *)
(***************************************************************************)
CONSTANTS Torrents, Chunks, Created, Downloaded

VARIABLES held,     \* the chunks held of each torrent
          outdated  \* of the torrents with a creation to be undone: what is
                    \* left of them

hvars == <<held, outdated>>

Init ==
  /\ held \in [Torrents -> SUBSET Chunks]
  /\ outdated = [n \in {} |-> {}]

Gain(n, i) ==
  /\ n \notin DOMAIN outdated
  /\ i \notin held[n]
  /\ held' = [held EXCEPT ![n] = @ \union {i}]
  /\ UNCHANGED outdated

Create(n) ==
  /\ held' = [held EXCEPT ![n] = Chunks]
  /\ UNCHANGED outdated

\* A creation in the middle of a download of n.
CreateInDownload(n, left) ==
  /\ n \notin DOMAIN outdated
  /\ left = held[n] \/ \E i \in Chunks : left = held[n] \union {i}
  /\ left # Chunks
  /\ held' = [held EXCEPT ![n] = Chunks]
  /\ outdated' = [x \in DOMAIN outdated \union {n} |->
                    IF x = n THEN left ELSE outdated[x]]

\* The download goes on, and undoes it.
Undo(n) ==
  /\ n \in DOMAIN outdated
  /\ held' = [held EXCEPT ![n] = outdated[n]]
  /\ outdated' = [x \in DOMAIN outdated \ {n} |-> outdated[x]]

Next ==
  \/ \E n \in Downloaded, i \in Chunks : Gain(n, i)
  \/ \E n \in Created : Create(n)
  \/ \E n \in Created \cap Downloaded :
       Undo(n) \/ \E left \in SUBSET Chunks : CreateInDownload(n, left)

Spec == Init /\ [][Next]_hvars
=============================================================================
