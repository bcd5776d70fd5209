----------------------------- MODULE WireProofs -----------------------------
(***************************************************************************)
(* Answers fit their requests for any names, with bars anywhere in them,   *)
(* any indexes and any number of torrents.                                 *)
(*                                                                         *)
(* The argument is about tokens: none has two bars in a row, and a text    *)
(* that is put together of such tokens, with none that ends with a bar,    *)
(* falls into the same tokens again.  A token that ends with a bar moves   *)
(* the separator behind it by one: the field that follows begins with a    *)
(* bar, and is no number.                                                  *)
(*                                                                         *)
(* The recursive functions of Wire count positions, so that what they      *)
(* return is shown by induction on a set of numbers (lemma Induction).     *)
(***************************************************************************)
EXTENDS Wire, SequenceTheorems, FiniteSetTheorems, WellFoundedInduction, TLAPS

\* Without two bars in a row, as every token is.
Whole(n) == \A c \in 1..(Len(n) - 1) : ~(n[c] = Bar /\ n[c + 1] = Bar)

EndsWithBar(n) == n # << >> /\ Last(n) = Bar

-----------------------------------------------------------------------------
(* Recursion over positions. *)

\* A set of natural numbers that is not empty has a least element.
LEMMA LeastOf ==
  ASSUME NEW T, T \subseteq Nat, T # {}
  PROVE  \E m \in T : \A k \in T : m <= k
<1> DEFINE R == OpToRel(<, Nat)
<1>1. IsWellFoundedOn(R, Nat)
  BY NatLessThanWellFounded
<1>2. \A x, y \in Nat : <<y, x>> \in R <=> y < x
  BY DEF OpToRel
<1> HIDE DEF R
<1>3. PICK m \in T : \A k \in T : ~(<<k, m>> \in R)
  BY <1>1, WFMin
<1>4. ASSUME NEW k \in T PROVE m <= k
  <2>1. k \in Nat /\ m \in Nat /\ ~(<<k, m>> \in R)
    BY <1>3
  <2>2. ~(k < m)
    BY <2>1, <1>2
  <2> QED
    BY <2>1, <2>2
<1> QED
  BY <1>4

\* Induction up to n, with the set of the numbers that have the property.
LEMMA Induction ==
  ASSUME NEW n \in Nat, NEW T, 0 \in T,
         \A k \in 0..(n - 1) : k \in T => k + 1 \in T
  PROVE  0..n \subseteq T
<1> SUFFICES ASSUME ~(0..n \subseteq T) PROVE FALSE
  OBVIOUS
<1>1. PICK m \in (0..n) \ T : \A k \in (0..n) \ T : m <= k
  <2>1. (0..n) \ T \subseteq Nat /\ (0..n) \ T # {}
    OBVIOUS
  <2> QED
    BY <2>1, LeastOf
<1>2. m # 0 /\ m - 1 \in 0..(n - 1)
  BY <1>1
<1>3. m - 1 \in T
  BY <1>1, <1>2
<1>4. (m - 1) + 1 \in T
  BY <1>2, <1>3
<1> QED
  BY <1>1, <1>2, <1>4

\* The values of n functions that are applied one after the other.
Iterates(f, n, V, v, F) ==
  /\ f \in [0..n -> V]
  /\ f[0] = v
  /\ \A k \in 1..n : f[k] = F[k][f[k - 1]]

LEMMA Recursion ==
  ASSUME NEW n \in Nat, NEW V, NEW v \in V, NEW F \in [1..n -> [V -> V]]
  PROVE  \E f : Iterates(f, n, V, v, F)
<1> DEFINE Values(m, f) == f[0] = v /\ \A k \in 1..m : f[k] = F[k][f[k - 1]]
           T == {m \in 0..n : \E f \in [0..m -> V] : Values(m, f)}
<1>1. 0 \in T
  <2>1. PICK f : f = [k \in 0..0 |-> v]
    OBVIOUS
  <2>2. Values(0, f) /\ f \in [0..0 -> V] /\ 0 \in 0..n
    BY <2>1
  <2> HIDE DEF Values
  <2> QED
    BY <2>2
<1>2. ASSUME NEW m \in 0..(n - 1), m \in T PROVE m + 1 \in T
  <2>1. PICK f \in [0..m -> V] : Values(m, f)
    BY <1>2
  <2> DEFINE g == [k \in 0..(m + 1) |-> IF k = m + 1 THEN F[m + 1][f[m]] ELSE f[k]]
  <2>2. F[m + 1][f[m]] \in V
    OBVIOUS
  <2>3. g \in [0..(m + 1) -> V]
    BY <2>2
  <2>4. Values(m + 1, g)
    <3>1. g[0] = v
      BY <2>1
    <3>2. ASSUME NEW k \in 1..(m + 1) PROVE g[k] = F[k][g[k - 1]]
      <4>1. CASE k = m + 1
        BY <4>1
      <4>2. CASE k # m + 1
        <5>1. k \in 1..m /\ k - 1 \in 0..m
          BY <4>2
        <5> QED
          BY <5>1, <2>1
      <4> QED
        BY <4>1, <4>2
    <3> HIDE DEF g
    <3> QED
      BY <3>1, <3>2
  <2>5. m + 1 \in 0..n
    OBVIOUS
  <2> HIDE DEF g, Values
  <2> QED
    BY <2>3, <2>4, <2>5
<1>3. n \in T
  <2>1. n \in 0..n
    OBVIOUS
  <2> HIDE DEF T
  <2>2. 0..n \subseteq T
    BY <1>1, <1>2, Induction
  <2> QED
    BY <2>1, <2>2
<1> QED
  BY <1>3 DEF Iterates

-----------------------------------------------------------------------------
(* The scan of a text. *)

Scans == [done : Seq(Text), last : Text]
NothingScanned == [done |-> << >>, last |-> << >>]

LEMMA NothingScannedIs == NothingScanned \in Scans
<1>1. << >> \in Seq(Text) /\ << >> \in Text
  BY EmptySeq DEF Text
<1> QED
  BY <1>1 DEF NothingScanned, Scans

LEMMA FrontIs ==
  ASSUME NEW S, NEW s \in Seq(S), s # << >>
  PROVE  /\ Front(s) \in Seq(S)
         /\ Len(Front(s)) = Len(s) - 1
         /\ \A i \in 1..(Len(s) - 1) : Front(s)[i] = s[i]
<1>1. PICK n : n = Len(s) - 1
  OBVIOUS
<1>2. n \in Nat /\ \A i \in 1..n : i \in 1..Len(s)
  <2>1. Len(s) \in Nat \ {0}
    BY EmptySeq
  <2> QED
    BY <1>1, <2>1
<1>3. \A i \in 1..n : s[i] \in S
  BY <1>2, ElementOfSeq
<1>4. /\ SubSeq(s, 1, n) \in Seq(S)
      /\ Len(SubSeq(s, 1, n)) = IF 1 <= n THEN n - 1 + 1 ELSE 0
      /\ \A i \in 1..(n - 1 + 1) : SubSeq(s, 1, n)[i] = s[1 + i - 1]
  <2>1. 1 \in Int /\ n \in Int
    BY <1>2
  <2> QED
    BY <1>3, <2>1, SubSeqProperties
<1> QED
  BY <1>1, <1>2, <1>4 DEF Front

LEMMA ScannedIs ==
  ASSUME NEW t \in Scans, NEW c \in Symbols
  PROVE  Scanned(t, c) \in Scans
<1>1. t.done \in Seq(Text) /\ t.last \in Text
  BY DEF Scans
<1>2. CASE c = Bar /\ t.last # << >> /\ Last(t.last) = Bar
  <2>1. Front(t.last) \in Text
    BY <1>1, <1>2, FrontIs DEF Text
  <2>2. Append(t.done, Front(t.last)) \in Seq(Text)
    BY <1>1, <2>1, AppendProperties
  <2>3. << >> \in Text
    BY EmptySeq DEF Text
  <2> QED
    BY <1>2, <2>2, <2>3 DEF Scanned, Scans
<1>3. CASE ~(c = Bar /\ t.last # << >> /\ Last(t.last) = Bar)
  <2>1. Scanned(t, c) = [t EXCEPT !.last = Append(t.last, c)]
    BY <1>3 DEF Scanned
  <2>2. Append(t.last, c) \in Text
    BY <1>1, AppendProperties DEF Text
  <2> QED
    BY <2>1, <2>2 DEF Scans
<1> QED
  BY <1>2, <1>3

\* The scan of a text passes through a state for each of its characters.
IsScan(text, f) ==
  /\ f \in [0..Len(text) -> Scans]
  /\ f[0] = NothingScanned
  /\ \A k \in 1..Len(text) : f[k] = Scanned(f[k - 1], text[k])

LEMMA ScanIs ==
  ASSUME NEW text \in Text
  PROVE  \E f : IsScan(text, f) /\ Scan(text) = f[Len(text)]
<1> DEFINE Rec(f) == f = [c \in 0..Len(text) |->
                           IF c = 0 THEN NothingScanned
                                    ELSE Scanned(f[c - 1], text[c])]
<1>1. Len(text) \in Nat /\ \A k \in 1..Len(text) : text[k] \in Symbols
  BY EmptySeq, LenProperties, ElementOfSeq DEF Text
<1>2. \E f : Rec(f)
  <2> DEFINE F == [k \in 1..Len(text) |-> [t \in Scans |-> Scanned(t, text[k])]]
  <2>1. F \in [1..Len(text) -> [Scans -> Scans]]
    BY <1>1, ScannedIs
  <2>2. PICK f \in [0..Len(text) -> Scans] :
          f[0] = NothingScanned /\ \A k \in 1..Len(text) : f[k] = F[k][f[k - 1]]
    <3>1. PICK n : n = Len(text) /\ n \in Nat
      BY <1>1
    <3>2. PICK G : G = F
      OBVIOUS
    <3>3. G \in [1..n -> [Scans -> Scans]]
      BY <2>1, <3>1, <3>2
    <3>4. PICK f : Iterates(f, n, Scans, NothingScanned, G)
      BY <3>1, <3>3, NothingScannedIs, Recursion
    <3> HIDE DEF F
    <3> QED
      BY <3>1, <3>2, <3>4 DEF Iterates
  <2>3. ASSUME NEW c \in 0..Len(text)
        PROVE  f[c] = IF c = 0 THEN NothingScanned ELSE Scanned(f[c - 1], text[c])
    <3>1. CASE c # 0
      <4>1. c \in 1..Len(text) /\ c - 1 \in 0..Len(text) /\ f[c - 1] \in Scans
        BY <1>1, <3>1
      <4> QED
        BY <2>2, <3>1, <4>1
    <3> QED
      BY <2>2, <3>1
  <2> QED
    BY <2>3
<1> DEFINE scan == CHOOSE f : Rec(f)
<1>3. Rec(scan)
  BY <1>2
<1>4. Scan(text) = scan[Len(text)]
  BY DEF Scan, NothingScanned
<1> HIDE DEF scan
<1>5. ASSUME NEW k \in 1..Len(text) PROVE scan[k] = Scanned(scan[k - 1], text[k])
  BY <1>1, <1>3
<1>6. scan[0] = NothingScanned
  BY <1>1, <1>3
<1>7. scan \in [0..Len(text) -> Scans]
  <2> DEFINE T == {k \in 0..Len(text) : scan[k] \in Scans}
  <2>1. 0 \in T
    BY <1>1, <1>6, NothingScannedIs
  <2>2. ASSUME NEW k \in 0..(Len(text) - 1), k \in T PROVE k + 1 \in T
    <3>1. k + 1 \in 1..Len(text) /\ (k + 1) - 1 = k
      BY <1>1
    <3>2. scan[k + 1] = Scanned(scan[k], text[k + 1])
      BY <1>5, <3>1
    <3>3. scan[k + 1] \in Scans
      BY <1>1, <2>2, <3>1, <3>2, ScannedIs
    <3> QED
      BY <3>1, <3>3
  <2>3. 0..Len(text) \subseteq T
    <3> HIDE DEF T
    <3> QED
      BY <1>1, <2>1, <2>2, Induction
  <2> QED
    BY <1>3, <2>3
<1> QED
  BY <1>4, <1>5, <1>6, <1>7 DEF IsScan

LEMMA ScanType ==
  ASSUME NEW text \in Text
  PROVE  Scan(text) \in Scans
<1>1. PICK f : IsScan(text, f) /\ Scan(text) = f[Len(text)]
  BY ScanIs
<1>2. Len(text) \in 0..Len(text)
  BY LenProperties DEF Text
<1> QED
  BY <1>1, <1>2 DEF IsScan

LEMMA ScanEmpty == Scan(<< >>) = NothingScanned
<1>1. << >> \in Text /\ Len(<< >>) = 0
  BY EmptySeq DEF Text
<1>2. PICK f : IsScan(<< >>, f) /\ Scan(<< >>) = f[Len(<< >>)]
  BY <1>1, ScanIs
<1> QED
  BY <1>1, <1>2 DEF IsScan

LEMMA ScanAppend ==
  ASSUME NEW text \in Text, NEW c \in Symbols
  PROVE  Scan(Append(text, c)) = Scanned(Scan(text), c)
<1>1. PICK f : IsScan(text, f) /\ Scan(text) = f[Len(text)]
  BY ScanIs
<1>2. PICK more : more = Append(text, c)
  OBVIOUS
<1>3. /\ more \in Text
      /\ Len(more) = Len(text) + 1
      /\ \A i \in 1..Len(text) : more[i] = text[i]
      /\ more[Len(text) + 1] = c
      /\ Len(text) \in Nat
  BY <1>2, AppendProperties, LenProperties DEF Text
<1>4. PICK g : IsScan(more, g) /\ Scan(more) = g[Len(more)]
  BY <1>3, ScanIs
<1> DEFINE T == {k \in 0..Len(text) : f[k] = g[k]}
<1>5. 0 \in T
  BY <1>1, <1>3, <1>4 DEF IsScan
<1>6. ASSUME NEW k \in 0..(Len(text) - 1), k \in T PROVE k + 1 \in T
  <2>1. k + 1 \in 1..Len(text) /\ k + 1 \in 1..Len(more) /\ (k + 1) - 1 = k
    BY <1>3
  <2>2. f[k + 1] = Scanned(f[k], text[k + 1])
    BY <1>1, <2>1 DEF IsScan
  <2>3. g[k + 1] = Scanned(g[k], more[k + 1])
    BY <1>4, <2>1 DEF IsScan
  <2> QED
    BY <1>3, <1>6, <2>1, <2>2, <2>3
<1>7. 0..Len(text) \subseteq T
  <2> HIDE DEF T
  <2> QED
    BY <1>3, <1>5, <1>6, Induction
<1>8. f[Len(text)] = g[Len(text)]
  BY <1>3, <1>7
<1>9. Len(more) \in 1..Len(more) /\ Len(more) - 1 = Len(text)
  BY <1>3
<1>10. g[Len(more)] = Scanned(g[Len(text)], more[Len(more)])
  BY <1>4, <1>9 DEF IsScan
<1> QED
  BY <1>1, <1>2, <1>3, <1>4, <1>8, <1>10

-----------------------------------------------------------------------------
(* Tokens. *)

LEMMA TokensAre ==
  ASSUME NEW text \in Text
  PROVE  /\ Tokenize(text) \in Seq(Text)
         /\ Scan(text).done \in Seq(Text)
         /\ Scan(text).last \in Text
         /\ Len(Tokenize(text)) = Len(Scan(text).done) + 1
         /\ \A i \in 1..Len(Scan(text).done) : Tokenize(text)[i] = Scan(text).done[i]
         /\ Tokenize(text)[Len(Scan(text).done) + 1] = Scan(text).last
<1>1. PICK d, l : d = Scan(text).done /\ l = Scan(text).last
  OBVIOUS
<1>2. d \in Seq(Text) /\ l \in Text
  BY <1>1, ScanType DEF Scans
<1>3. Tokenize(text) = Append(d, l)
  BY <1>1 DEF Tokenize
<1> QED
  BY <1>1, <1>2, <1>3, AppendProperties

WholeScan(t) == Whole(t.last) /\ \A i \in 1..Len(t.done) : Whole(t.done[i])

LEMMA ScannedStaysWhole ==
  ASSUME NEW t \in Scans, WholeScan(t), NEW c \in Symbols
  PROVE  WholeScan(Scanned(t, c))
<1>1. PICK d, l : d = t.done /\ l = t.last
  OBVIOUS
<1>2. d \in Seq(Text) /\ l \in Text /\ t = [done |-> d, last |-> l]
  BY <1>1 DEF Scans
<1>3. Whole(l) /\ \A i \in 1..Len(d) : Whole(d[i])
  BY <1>1 DEF WholeScan
<1>4. Len(l) \in Nat /\ Len(d) \in Nat
  BY <1>2, LenProperties DEF Text
<1>5. CASE c = Bar /\ l # << >> /\ Last(l) = Bar
  <2>1. Scanned(t, c) = [done |-> Append(d, Front(l)), last |-> << >>]
    BY <1>1, <1>5 DEF Scanned
  <2>2. PICK f : f = Front(l)
    OBVIOUS
  <2>3. f \in Text /\ Len(f) = Len(l) - 1 /\ \A i \in 1..(Len(l) - 1) : f[i] = l[i]
    BY <1>2, <1>5, <2>2, FrontIs DEF Text
  <2>4. Whole(f)
    BY <1>3, <1>4, <2>3 DEF Whole
  <2>5. Whole(<< >>)
    BY EmptySeq DEF Whole
  <2>6. PICK more : more = Append(d, f)
    OBVIOUS
  <2>7. /\ Len(more) = Len(d) + 1
        /\ \A i \in 1..Len(d) : more[i] = d[i]
        /\ more[Len(d) + 1] = f
    BY <1>2, <2>3, <2>6, AppendProperties
  <2>8. \A i \in 1..Len(more) : Whole(more[i])
    BY <1>3, <1>4, <2>4, <2>7
  <2> QED
    BY <2>1, <2>2, <2>5, <2>6, <2>8 DEF WholeScan
<1>6. CASE ~(c = Bar /\ l # << >> /\ Last(l) = Bar)
  <2>1. Scanned(t, c) = [done |-> d, last |-> Append(l, c)]
    BY <1>1, <1>2, <1>6 DEF Scanned
  <2>2. PICK more : more = Append(l, c)
    OBVIOUS
  <2>3. /\ Len(more) = Len(l) + 1
        /\ \A i \in 1..Len(l) : more[i] = l[i]
        /\ more[Len(l) + 1] = c
    BY <1>2, <2>2, AppendProperties DEF Text
  <2>4. ASSUME NEW i \in 1..(Len(more) - 1), more[i] = Bar, more[i + 1] = Bar
        PROVE  FALSE
    <3>1. CASE i < Len(l)
      <4>1. i \in 1..(Len(l) - 1) /\ i \in 1..Len(l) /\ i + 1 \in 1..Len(l)
        BY <1>4, <2>3, <3>1
      <4> QED
        BY <1>3, <2>3, <2>4, <4>1 DEF Whole
    <3>2. CASE i = Len(l)
      <4>1. i \in 1..Len(l)
        BY <1>4, <2>3, <3>2
      <4>2. more[i + 1] = c /\ more[i] = l[i]
        BY <2>3, <3>2, <4>1
      <4>3. c = Bar /\ l[Len(l)] = Bar
        BY <2>4, <3>2, <4>2
      <4>4. l = << >>
        BY <1>6, <4>3 DEF Last
      <4>5. Len(l) = 0
        BY <4>4, EmptySeq
      <4> QED
        BY <3>2, <4>1, <4>5
    <3> QED
      BY <1>4, <2>3, <3>1, <3>2
  <2>5. Whole(more)
    BY <2>4 DEF Whole
  <2> QED
    BY <1>3, <2>1, <2>2, <2>5 DEF WholeScan
<1> QED
  BY <1>5, <1>6

LEMMA ScanIsWhole ==
  ASSUME NEW text \in Text
  PROVE  WholeScan(Scan(text))
<1>1. PICK f : IsScan(text, f) /\ Scan(text) = f[Len(text)]
  BY ScanIs
<1>2. Len(text) \in Nat /\ \A k \in 1..Len(text) : text[k] \in Symbols
  BY LenProperties, ElementOfSeq DEF Text
<1> DEFINE T == {k \in 0..Len(text) : WholeScan(f[k])}
<1>3. 0 \in T
  <2>1. PICK e : e = << >>
    OBVIOUS
  <2>2. Len(e) = 0
    BY <2>1, EmptySeq
  <2>3. f[0] = [done |-> e, last |-> e]
    BY <1>1, <2>1 DEF IsScan, NothingScanned
  <2>4. WholeScan(f[0])
    BY <2>2, <2>3 DEF WholeScan, Whole
  <2> QED
    BY <1>2, <2>4
<1>4. ASSUME NEW k \in 0..(Len(text) - 1), k \in T PROVE k + 1 \in T
  <2>1. k + 1 \in 1..Len(text) /\ (k + 1) - 1 = k /\ k \in 0..Len(text)
    BY <1>2
  <2>2. f[k + 1] = Scanned(f[k], text[k + 1]) /\ f[k] \in Scans
    BY <1>1, <2>1 DEF IsScan
  <2>3. WholeScan(f[k + 1])
    BY <1>2, <1>4, <2>1, <2>2, ScannedStaysWhole
  <2> QED
    BY <2>1, <2>3
<1>5. 0..Len(text) \subseteq T
  <2> HIDE DEF T
  <2> QED
    BY <1>2, <1>3, <1>4, Induction
<1> QED
  BY <1>1, <1>2, <1>5

\* No token of any text has two bars in a row.
LEMMA TokensAreWhole ==
  ASSUME NEW text \in Text, NEW n \in ToSet(Tokenize(text))
  PROVE  n \in Text /\ Whole(n)
<1>1. PICK tokens : tokens = Tokenize(text)
  OBVIOUS
<1>2. tokens \in Seq(Text)
  BY <1>1, TokensAre
<1>3. PICK i \in 1..Len(tokens) : n = tokens[i]
  <2>1. DOMAIN tokens = 1..Len(tokens)
    BY <1>2, LenProperties
  <2> QED
    BY <1>1, <2>1 DEF ToSet
<1>4. n \in Text
  BY <1>2, <1>3, ElementOfSeq
<1>5. PICK d, l : d = Scan(text).done /\ l = Scan(text).last
  OBVIOUS
<1>6. /\ Len(tokens) = Len(d) + 1
      /\ \A j \in 1..Len(d) : tokens[j] = d[j]
      /\ tokens[Len(d) + 1] = l
      /\ Len(d) \in Nat
  <2>1. d \in Seq(Text)
    BY <1>5, TokensAre
  <2> QED
    BY <1>1, <1>5, <2>1, TokensAre, LenProperties
<1>7. Whole(l) /\ \A j \in 1..Len(d) : Whole(d[j])
  BY <1>5, ScanIsWhole DEF WholeScan
<1>8. i \in 1..Len(d) \/ i = Len(d) + 1
  BY <1>3, <1>6
<1> QED
  BY <1>3, <1>4, <1>6, <1>7, <1>8

-----------------------------------------------------------------------------
(* Texts that are put together. *)

LEMMA ConcatAppend ==
  ASSUME NEW S, NEW s \in Seq(S), NEW t \in Seq(S), NEW e \in S
  PROVE  s \o Append(t, e) = Append(s \o t, e)
<1>1. PICK u : u = <<e>>
  OBVIOUS
<1>2. u \in Seq(S)
  BY <1>1
<1>3. PICK st : st = s \o t
  OBVIOUS
<1>4. st \in Seq(S)
  BY <1>3, ConcatProperties
<1>5. (s \o t) \o u = s \o (t \o u)
  BY <1>2, ConcatAssociative
<1>6. Append(t, e) = t \o u
  BY <1>1, AppendIsConcat
<1>7. Append(st, e) = st \o u
  BY <1>1, <1>4, AppendIsConcat
<1> QED
  BY <1>3, <1>5, <1>6, <1>7

LEMMA SepIs ==
  /\ Bar \in Symbols
  /\ <<Bar>> \in Text
  /\ Sep \in Text
  /\ Len(Sep) = 2 /\ Sep[1] = Bar /\ Sep[2] = Bar
  /\ Sep = Append(<<Bar>>, Bar)
<1>1. Bar \in Symbols
  BY DEF Symbols
<1>2. PICK b : b = Bar
  OBVIOUS
<1>3. <<b>> \in Seq(Symbols) /\ <<b, b>> \in Seq(Symbols)
  <2>1. ASSUME NEW S, b \in S PROVE <<b>> \in Seq(S) /\ <<b, b>> \in Seq(S)
    BY <2>1
  <2>2. b \in Symbols
    BY <1>1, <1>2
  <2> QED
    BY <2>1, <2>2
<1>4. <<b, b>> = Append(<<b>>, b)
  OBVIOUS
<1>5. Len(<<b, b>>) = 2 /\ <<b, b>>[1] = b /\ <<b, b>>[2] = b
  OBVIOUS
<1> QED
  BY <1>1, <1>2, <1>3, <1>4, <1>5 DEF Sep, Text

LEMMA AppendSep ==
  ASSUME NEW text \in Text
  PROVE  text \o Sep = Append(Append(text, Bar), Bar) /\ Append(text, Bar) \in Text
<1>1. PICK b : b = <<Bar>>
  OBVIOUS
<1>2. b \in Seq(Symbols) /\ text \in Seq(Symbols) /\ Bar \in Symbols
  BY <1>1, SepIs DEF Text
<1>3. text \o Append(b, Bar) = Append(text \o b, Bar)
  <2>1. PICK c \in Symbols : c = Bar
    BY <1>2
  <2>2. text \o Append(b, c) = Append(text \o b, c)
    BY <1>2, <2>1, ConcatAppend
  <2> QED
    BY <2>1, <2>2
<1>4. Append(text, Bar) = text \o b /\ Append(text, Bar) \in Seq(Symbols)
  BY <1>1, <1>2, AppendIsConcat, AppendProperties
<1> QED
  BY <1>1, <1>3, <1>4, SepIs DEF Text

LEMMA PrefixGrows ==
  ASSUME NEW S, NEW n \in Seq(S), NEW k \in 0..(Len(n) - 1)
  PROVE  /\ SubSeq(n, 1, k) \in Seq(S)
         /\ Len(SubSeq(n, 1, k)) = k
         /\ \A i \in 1..k : SubSeq(n, 1, k)[i] = n[i]
         /\ n[k + 1] \in S
         /\ SubSeq(n, 1, k + 1) = Append(SubSeq(n, 1, k), n[k + 1])
<1>1. Len(n) \in Nat /\ k \in Nat /\ k + 1 \in 1..Len(n) /\ 1 \in 1..Len(n)
  BY LenProperties
<1>2. \A i \in 1..k : n[i] \in S
  <2>1. \A i \in 1..k : i \in 1..Len(n)
    BY <1>1
  <2> QED
    BY <2>1, ElementOfSeq
<1>3. n[k + 1] \in S
  BY <1>1, ElementOfSeq
<1>4. /\ SubSeq(n, 1, k) \in Seq(S)
      /\ Len(SubSeq(n, 1, k)) = IF 1 <= k THEN k - 1 + 1 ELSE 0
      /\ \A i \in 1..(k - 1 + 1) : SubSeq(n, 1, k)[i] = n[1 + i - 1]
  <2>1. 1 \in Int /\ k \in Int
    BY <1>1
  <2> QED
    BY <1>2, <2>1, SubSeqProperties
<1>5. PICK m : m = k + 1
  OBVIOUS
<1>6. m \in 1..Len(n) /\ m - 1 = k
  BY <1>1, <1>5
<1>7. SubSeq(n, 1, m) = SubSeq(n, 1, m - 1) \o <<n[m]>>
  BY <1>1, <1>6, SubSeqRecursiveSecond
<1>8. Append(SubSeq(n, 1, k), n[k + 1]) = SubSeq(n, 1, k) \o <<n[k + 1]>>
  BY <1>3, <1>4, AppendIsConcat
<1> QED
  BY <1>1, <1>3, <1>4, <1>5, <1>6, <1>7, <1>8

LEMMA ScannedMore ==
  ASSUME NEW d, NEW l, NEW c, ~(c = Bar /\ EndsWithBar(l))
  PROVE  Scanned([done |-> d, last |-> l], c) = [done |-> d, last |-> Append(l, c)]
BY DEF Scanned, EndsWithBar

LEMMA ScannedEnd ==
  ASSUME NEW d, NEW l, EndsWithBar(l)
  PROVE  Scanned([done |-> d, last |-> l], Bar) =
           [done |-> Append(d, Front(l)), last |-> << >>]
BY DEF Scanned, EndsWithBar

\* A text without two bars in a row, at the beginning of a token, is one.
LEMMA ScanWhole ==
  ASSUME NEW text \in Text, NEW n \in Text, NEW d,
         Whole(n), Scan(text) = [done |-> d, last |-> << >>]
  PROVE  /\ text \o n \in Text
         /\ Scan(text \o n) = [done |-> d, last |-> n]
<1>1. text \o n \in Text
  BY ConcatProperties DEF Text
<1>2. Len(n) \in Nat
  BY LenProperties DEF Text
<1> DEFINE T == {k \in 0..Len(n) :
                   Scan(text \o SubSeq(n, 1, k)) = [done |-> d, last |-> SubSeq(n, 1, k)]}
<1>3. 0 \in T
  <2>1. SubSeq(n, 1, 0) = << >>
    BY SubSeqEmpty
  <2>2. text \o << >> = text
    BY ConcatEmptySeq DEF Text
  <2>3. PICK e : e = << >>
    OBVIOUS
  <2>4. 0 \in 0..Len(n) /\ SubSeq(n, 1, 0) = e /\ text \o e = text
    BY <1>2, <2>1, <2>2, <2>3
  <2>5. Scan(text) = [done |-> d, last |-> e]
    BY <2>3
  <2>6. Scan(text \o SubSeq(n, 1, 0)) = [done |-> d, last |-> SubSeq(n, 1, 0)]
    BY <2>4, <2>5
  <2> QED
    BY <2>4, <2>6
<1>4. ASSUME NEW k \in 0..(Len(n) - 1), k \in T PROVE k + 1 \in T
  <2>1. PICK p, c : p = SubSeq(n, 1, k) /\ c = n[k + 1]
    OBVIOUS
  <2>2. /\ p \in Text /\ c \in Symbols /\ Len(p) = k
        /\ \A i \in 1..k : p[i] = n[i]
        /\ SubSeq(n, 1, k + 1) = Append(p, c)
    BY <2>1, PrefixGrows DEF Text
  <2>3. Scan(text \o p) = [done |-> d, last |-> p] /\ text \o p \in Text
    BY <1>4, <2>1, <2>2, ConcatProperties DEF Text
  <2>4. text \o Append(p, c) = Append(text \o p, c)
    BY <2>2, ConcatAppend DEF Text
  <2>5. Scan(Append(text \o p, c)) = Scanned(Scan(text \o p), c)
    <3>1. PICK tp : tp = text \o p
      OBVIOUS
    <3>2. Scan(Append(tp, c)) = Scanned(Scan(tp), c)
      BY <2>2, <2>3, <3>1, ScanAppend
    <3> QED
      BY <3>1, <3>2
  <2>6. ~(c = Bar /\ EndsWithBar(p))
    <3> SUFFICES ASSUME c = Bar, EndsWithBar(p) PROVE FALSE
      OBVIOUS
    <3>1. k # 0
      BY <2>2, EmptySeq DEF EndsWithBar, Text
    <3>2. k \in 1..(Len(n) - 1) /\ k \in 1..k
      BY <1>2, <3>1
    <3>3. p[k] = Bar
      BY <2>2 DEF EndsWithBar, Last
    <3>4. n[k] = Bar /\ n[k + 1] = Bar
      BY <2>1, <2>2, <3>2, <3>3
    <3> QED
      BY <3>2, <3>4 DEF Whole
  <2>7. Scanned([done |-> d, last |-> p], c) = [done |-> d, last |-> Append(p, c)]
    BY <2>6, ScannedMore
  <2>8. k + 1 \in 0..Len(n)
    BY <1>2
  <2> QED
    BY <2>2, <2>3, <2>4, <2>5, <2>7, <2>8
<1>5. 0..Len(n) \subseteq T
  <2> HIDE DEF T
  <2> QED
    BY <1>2, <1>3, <1>4, Induction
<1>6. SubSeq(n, 1, Len(n)) = n
  BY SubSeqFull DEF Text
<1>7. Len(n) \in T
  <2>1. Len(n) \in 0..Len(n)
    BY <1>2
  <2> HIDE DEF T
  <2> QED
    BY <1>5, <2>1
<1> QED
  BY <1>1, <1>6, <1>7

\* A separator behind a token that does not end with a bar.
LEMMA ScanSep ==
  ASSUME NEW text \in Text, NEW d, NEW l \in Text, ~EndsWithBar(l),
         Scan(text) = [done |-> d, last |-> l]
  PROVE  /\ text \o Sep \in Text
         /\ Scan(text \o Sep) = [done |-> Append(d, l), last |-> << >>]
<1>1. PICK one : one = Append(text, Bar)
  OBVIOUS
<1>2. one \in Text /\ text \o Sep = Append(one, Bar) /\ Append(one, Bar) \in Text
  BY <1>1, AppendSep
<1>3. Scan(one) = Scanned(Scan(text), Bar) /\ Scan(Append(one, Bar)) = Scanned(Scan(one), Bar)
  BY <1>1, <1>2, ScanAppend, SepIs
<1>4. Scanned([done |-> d, last |-> l], Bar) = [done |-> d, last |-> Append(l, Bar)]
  BY ScannedMore
<1>5. PICK m : m = Append(l, Bar)
  OBVIOUS
<1>6. /\ m \in Text /\ m # << >> /\ Len(m) = Len(l) + 1 /\ Len(l) \in Nat
      /\ \A i \in 1..Len(l) : m[i] = l[i]
      /\ m[Len(l) + 1] = Bar
  BY <1>5, AppendProperties, LenProperties, SepIs DEF Text
<1>7. EndsWithBar(m)
  BY <1>6 DEF EndsWithBar, Last
<1>8. Scanned([done |-> d, last |-> m], Bar) = [done |-> Append(d, Front(m)), last |-> << >>]
  BY <1>7, ScannedEnd
<1>9. Front(m) = l
  <2>1. PICK f : f = Front(m)
    OBVIOUS
  <2>2. /\ f \in Text /\ Len(f) = Len(l)
        /\ \A i \in 1..Len(l) : f[i] = m[i]
    <3>1. /\ f \in Text /\ Len(f) = Len(m) - 1
          /\ \A i \in 1..(Len(m) - 1) : f[i] = m[i]
      BY <1>6, <2>1, FrontIs DEF Text
    <3> QED
      BY <1>6, <3>1
  <2>3. f = l
    BY <1>6, <2>2, SeqEqual DEF Text
  <2> QED
    BY <2>1, <2>3
<1> QED
  BY <1>2, <1>3, <1>4, <1>5, <1>8, <1>9

\* And behind one that does: its second bar begins the next token.
LEMMA ScanSepLate ==
  ASSUME NEW text \in Text, NEW d, NEW l \in Text, EndsWithBar(l),
         Scan(text) = [done |-> d, last |-> l]
  PROVE  /\ text \o Sep \in Text
         /\ Scan(text \o Sep) = [done |-> Append(d, Front(l)), last |-> <<Bar>>]
<1>1. PICK one : one = Append(text, Bar)
  OBVIOUS
<1>2. one \in Text /\ text \o Sep = Append(one, Bar) /\ Append(one, Bar) \in Text
  BY <1>1, AppendSep
<1>3. Scan(one) = Scanned(Scan(text), Bar) /\ Scan(Append(one, Bar)) = Scanned(Scan(one), Bar)
  BY <1>1, <1>2, ScanAppend, SepIs
<1>4. Scanned([done |-> d, last |-> l], Bar) = [done |-> Append(d, Front(l)), last |-> << >>]
  BY ScannedEnd
<1>5. PICK e : e = Append(d, Front(l))
  OBVIOUS
<1>6. ~EndsWithBar(<< >>)
  BY DEF EndsWithBar
<1>7. Scanned([done |-> e, last |-> << >>], Bar) = [done |-> e, last |-> Append(<< >>, Bar)]
  BY <1>6, ScannedMore
<1>8. Append(<< >>, Bar) = <<Bar>>
  OBVIOUS
<1> QED
  BY <1>2, <1>3, <1>4, <1>5, <1>7, <1>8

\* The tokens of u begin with those of t.
Keeps(t, u) ==
  /\ Len(t.done) <= Len(u.done)
  /\ \A i \in 1..Len(t.done) : u.done[i] = t.done[i]

LEMMA ScannedKeeps ==
  ASSUME NEW t \in Scans, NEW u \in Scans, NEW c \in Symbols, Keeps(t, u)
  PROVE  Keeps(t, Scanned(u, c))
<1>1. PICK d, l : d = u.done /\ l = u.last /\ u = [done |-> d, last |-> l]
  BY DEF Scans
<1>2. d \in Seq(Text) /\ l \in Text /\ t.done \in Seq(Text)
  BY <1>1 DEF Scans
<1>3. Len(d) \in Nat /\ Len(t.done) \in Nat
  BY <1>2, LenProperties
<1>4. CASE c = Bar /\ EndsWithBar(l)
  <2>1. PICK f, more : f = Front(l) /\ more = Append(d, f)
    OBVIOUS
  <2>2. f \in Text
    BY <1>2, <1>4, <2>1, FrontIs DEF EndsWithBar, Text
  <2>3. Len(more) = Len(d) + 1 /\ \A i \in 1..Len(d) : more[i] = d[i]
    BY <1>2, <2>1, <2>2, AppendProperties
  <2>4. Scanned(u, c) = [done |-> more, last |-> << >>]
    BY <1>1, <1>4, <2>1, ScannedEnd
  <2>5. Scanned(u, c).done = more
    BY <2>4
  <2>6. \A i \in 1..Len(t.done) : i \in 1..Len(d) /\ d[i] = t.done[i]
    BY <1>1, <1>3 DEF Keeps
  <2>7. Len(t.done) <= Len(more)
    BY <1>1, <1>3, <2>3 DEF Keeps
  <2> QED
    BY <2>3, <2>5, <2>6, <2>7 DEF Keeps
<1>5. CASE ~(c = Bar /\ EndsWithBar(l))
  <2>1. Scanned(u, c) = [done |-> d, last |-> Append(l, c)]
    BY <1>1, <1>5, ScannedMore
  <2>2. Scanned(u, c).done = u.done
    BY <1>1, <2>1
  <2> QED
    BY <2>2 DEF Keeps
<1> QED
  BY <1>4, <1>5

\* Whatever follows in a text leaves the tokens that have ended.
LEMMA DoneStays ==
  ASSUME NEW text \in Text, NEW r \in Text
  PROVE  text \o r \in Text /\ Keeps(Scan(text), Scan(text \o r))
<1>1. text \o r \in Text
  BY ConcatProperties DEF Text
<1>2. Len(r) \in Nat /\ Scan(text) \in Scans
  BY LenProperties, ScanType DEF Text
<1> DEFINE T == {k \in 0..Len(r) : Keeps(Scan(text), Scan(text \o SubSeq(r, 1, k)))}
<1>3. 0 \in T
  <2>1. SubSeq(r, 1, 0) = << >>
    BY SubSeqEmpty
  <2>2. text \o << >> = text
    BY ConcatEmptySeq DEF Text
  <2>3. text \o SubSeq(r, 1, 0) = text
    BY <2>1, <2>2
  <2>4. Len(Scan(text).done) \in Nat
    BY <1>2, LenProperties DEF Scans
  <2>5. Keeps(Scan(text), Scan(text))
    BY <2>4 DEF Keeps
  <2>6. Keeps(Scan(text), Scan(text \o SubSeq(r, 1, 0)))
    BY <2>3, <2>5
  <2>7. 0 \in 0..Len(r)
    BY <1>2
  <2> QED
    BY <2>6, <2>7
<1>4. ASSUME NEW k \in 0..(Len(r) - 1), k \in T PROVE k + 1 \in T
  <2>1. PICK q, c : q = SubSeq(r, 1, k) /\ c = r[k + 1]
    OBVIOUS
  <2>2. q \in Text /\ c \in Symbols /\ SubSeq(r, 1, k + 1) = Append(q, c)
    BY <2>1, PrefixGrows DEF Text
  <2>3. PICK tq : tq = text \o q
    OBVIOUS
  <2>4. tq \in Text /\ Keeps(Scan(text), Scan(tq))
    BY <1>4, <2>1, <2>2, <2>3, ConcatProperties DEF Text
  <2>5. text \o Append(q, c) = Append(tq, c)
    BY <2>2, <2>3, ConcatAppend DEF Text
  <2>6. Scan(Append(tq, c)) = Scanned(Scan(tq), c) /\ Scan(tq) \in Scans
    BY <2>2, <2>4, ScanAppend, ScanType
  <2>7. Keeps(Scan(text), Scan(Append(tq, c)))
    BY <1>2, <2>2, <2>4, <2>6, ScannedKeeps
  <2>8. k + 1 \in 0..Len(r)
    BY <1>2
  <2> QED
    BY <2>2, <2>5, <2>7, <2>8
<1>5. Len(r) \in T
  <2>1. Len(r) \in 0..Len(r)
    BY <1>2
  <2> HIDE DEF T
  <2>2. 0..Len(r) \subseteq T
    BY <1>2, <1>3, <1>4, Induction
  <2> QED
    BY <2>1, <2>2
<1>6. SubSeq(r, 1, Len(r)) = r
  BY SubSeqFull DEF Text
<1> QED
  BY <1>1, <1>5, <1>6

-----------------------------------------------------------------------------
(* Fields and their separators. *)

IsTerminated(fields, f) ==
  /\ f \in [0..Len(fields) -> Text]
  /\ f[0] = << >>
  /\ \A k \in 1..Len(fields) : f[k] = f[k - 1] \o fields[k] \o Sep

LEMMA TerminatedIs ==
  ASSUME NEW fields \in Seq(Text)
  PROVE  \E f : IsTerminated(fields, f) /\ Terminated(fields) = f[Len(fields)]
<1> DEFINE Rec(f) == f = [i \in 0..Len(fields) |->
                           IF i = 0 THEN << >> ELSE f[i - 1] \o fields[i] \o Sep]
<1>1. Len(fields) \in Nat /\ << >> \in Text /\ \A k \in 1..Len(fields) : fields[k] \in Text
  BY EmptySeq, LenProperties, ElementOfSeq DEF Text
<1>2. ASSUME NEW t \in Text, NEW k \in 1..Len(fields)
      PROVE  t \o fields[k] \o Sep \in Text
  <2>1. PICK u : u = t \o fields[k]
    OBVIOUS
  <2>2. u \in Text
    BY <1>1, <2>1, ConcatProperties DEF Text
  <2> QED
    BY <2>1, <2>2, SepIs, ConcatProperties DEF Text
<1>3. \E f : Rec(f)
  <2>1. PICK F : F = [k \in 1..Len(fields) |-> [t \in Text |-> t \o fields[k] \o Sep]]
    OBVIOUS
  <2>2. PICK n : n = Len(fields) /\ n \in Nat
    BY <1>1
  <2>3. F \in [1..n -> [Text -> Text]]
    BY <1>2, <2>1, <2>2
  <2>4. PICK f \in [0..n -> Text] :
          f[0] = << >> /\ \A k \in 1..n : f[k] = F[k][f[k - 1]]
    <3>1. PICK e : e = << >> /\ e \in Text
      BY <1>1
    <3>2. PICK f : Iterates(f, n, Text, e, F)
      BY <2>2, <2>3, <3>1, Recursion
    <3> QED
      BY <3>1, <3>2 DEF Iterates
  <2>5. ASSUME NEW i \in 0..n
        PROVE  f[i] = IF i = 0 THEN << >> ELSE f[i - 1] \o fields[i] \o Sep
    <3>1. CASE i # 0
      <4>1. i \in 1..n /\ i - 1 \in 0..n /\ f[i - 1] \in Text
        BY <2>2, <3>1
      <4>2. F[i][f[i - 1]] = f[i - 1] \o fields[i] \o Sep
        BY <2>1, <2>2, <4>1
      <4> QED
        BY <2>4, <3>1, <4>1, <4>2
    <3> QED
      BY <2>4, <3>1
  <2> QED
    BY <2>2, <2>5
<1> DEFINE text == CHOOSE f : Rec(f)
<1>4. Rec(text)
  BY <1>3
<1>5. Terminated(fields) = text[Len(fields)]
  BY DEF Terminated
<1> HIDE DEF text
<1>6. ASSUME NEW k \in 1..Len(fields) PROVE text[k] = text[k - 1] \o fields[k] \o Sep
  BY <1>1, <1>4
<1>7. text[0] = << >>
  BY <1>1, <1>4
<1>8. text \in [0..Len(fields) -> Text]
  <2> DEFINE T == {k \in 0..Len(fields) : text[k] \in Text}
  <2>1. 0 \in T
    BY <1>1, <1>7
  <2>2. ASSUME NEW k \in 0..(Len(fields) - 1), k \in T PROVE k + 1 \in T
    <3>1. k + 1 \in 1..Len(fields) /\ (k + 1) - 1 = k
      BY <1>1
    <3>2. text[k + 1] = text[k] \o fields[k + 1] \o Sep
      BY <1>6, <3>1
    <3>3. text[k + 1] \in Text
      BY <1>2, <2>2, <3>1, <3>2
    <3> QED
      BY <3>1, <3>3
  <2>3. 0..Len(fields) \subseteq T
    <3> HIDE DEF T
    <3> QED
      BY <1>1, <2>1, <2>2, Induction
  <2> QED
    BY <1>4, <2>3
<1> QED
  BY <1>5, <1>6, <1>7, <1>8 DEF IsTerminated

LEMMA TerminatedAppend ==
  ASSUME NEW fields \in Seq(Text), NEW n \in Text
  PROVE  /\ Terminated(fields) \in Text
         /\ Terminated(Append(fields, n)) = Terminated(fields) \o n \o Sep
<1>1. PICK f : IsTerminated(fields, f) /\ Terminated(fields) = f[Len(fields)]
  BY TerminatedIs
<1>2. PICK more : more = Append(fields, n)
  OBVIOUS
<1>3. /\ more \in Seq(Text)
      /\ Len(more) = Len(fields) + 1
      /\ \A i \in 1..Len(fields) : more[i] = fields[i]
      /\ more[Len(fields) + 1] = n
      /\ Len(fields) \in Nat
  BY <1>2, AppendProperties, LenProperties
<1>4. PICK g : IsTerminated(more, g) /\ Terminated(more) = g[Len(more)]
  BY <1>3, TerminatedIs
<1> DEFINE T == {k \in 0..Len(fields) : f[k] = g[k]}
<1>5. 0 \in T
  BY <1>1, <1>3, <1>4 DEF IsTerminated
<1>6. ASSUME NEW k \in 0..(Len(fields) - 1), k \in T PROVE k + 1 \in T
  <2>1. k + 1 \in 1..Len(fields) /\ k + 1 \in 1..Len(more) /\ (k + 1) - 1 = k
    BY <1>3
  <2>2. f[k + 1] = f[k] \o fields[k + 1] \o Sep
    BY <1>1, <2>1 DEF IsTerminated
  <2>3. g[k + 1] = g[k] \o more[k + 1] \o Sep
    BY <1>4, <2>1 DEF IsTerminated
  <2>4. f[k] = g[k] /\ fields[k + 1] = more[k + 1]
    BY <1>3, <1>6, <2>1
  <2>5. f[k + 1] = g[k + 1]
    BY <2>2, <2>3, <2>4
  <2>6. k + 1 \in 0..Len(fields)
    BY <1>3
  <2> QED
    BY <2>5, <2>6
<1>7. 0..Len(fields) \subseteq T
  <2> HIDE DEF T
  <2> QED
    BY <1>3, <1>5, <1>6, Induction
<1>8. f[Len(fields)] = g[Len(fields)] /\ f[Len(fields)] \in Text
  BY <1>1, <1>3, <1>7 DEF IsTerminated
<1>9. Len(more) \in 1..Len(more) /\ Len(more) - 1 = Len(fields)
  BY <1>3
<1>10. g[Len(more)] = g[Len(fields)] \o more[Len(more)] \o Sep
  BY <1>4, <1>9 DEF IsTerminated
<1> QED
  BY <1>1, <1>2, <1>3, <1>4, <1>8, <1>10

\* A field that is a token again.
IsField(n) == Whole(n) /\ ~EndsWithBar(n)

LEMMA ScanTerminated ==
  ASSUME NEW fields \in Seq(Text), \A i \in 1..Len(fields) : IsField(fields[i])
  PROVE  Scan(Terminated(fields)) = [done |-> fields, last |-> << >>]
<1>1. PICK f : IsTerminated(fields, f) /\ Terminated(fields) = f[Len(fields)]
  BY TerminatedIs
<1>2. Len(fields) \in Nat
  BY LenProperties
<1> DEFINE T == {k \in 0..Len(fields) :
                   Scan(f[k]) = [done |-> SubSeq(fields, 1, k), last |-> << >>]}
<1>3. 0 \in T
  <2>1. PICK d : d = SubSeq(fields, 1, 0)
    OBVIOUS
  <2>2. d = << >>
    BY <2>1, SubSeqEmpty
  <2>3. Scan(f[0]) = [done |-> d, last |-> << >>]
    BY <1>1, <2>2, ScanEmpty DEF IsTerminated, NothingScanned
  <2> QED
    BY <1>2, <2>1, <2>3
<1>4. ASSUME NEW k \in 0..(Len(fields) - 1), k \in T PROVE k + 1 \in T
  <2>1. k + 1 \in 1..Len(fields) /\ (k + 1) - 1 = k /\ k \in 0..Len(fields)
    BY <1>2
  <2>2. PICK n, d, t : n = fields[k + 1] /\ d = SubSeq(fields, 1, k) /\ t = f[k]
    OBVIOUS
  <2>3. n \in Text /\ Whole(n) /\ ~EndsWithBar(n)
    BY <2>1, <2>2, ElementOfSeq DEF IsField
  <2>4. t \in Text /\ f[k + 1] = t \o n \o Sep
    BY <1>1, <2>1, <2>2 DEF IsTerminated
  <2>5. Scan(t) = [done |-> d, last |-> << >>]
    BY <1>4, <2>2
  <2>6. PICK tn : tn = t \o n
    OBVIOUS
  <2>7. tn \in Text /\ Scan(tn) = [done |-> d, last |-> n]
    BY <2>3, <2>4, <2>5, <2>6, ScanWhole
  <2>8. Scan(tn \o Sep) = [done |-> Append(d, n), last |-> << >>]
    BY <2>3, <2>7, ScanSep
  <2>9. SubSeq(fields, 1, k + 1) = Append(d, n)
    BY <2>2, PrefixGrows
  <2>10. f[k + 1] = tn \o Sep
    BY <2>4, <2>6
  <2>11. Scan(f[k + 1]) = [done |-> SubSeq(fields, 1, k + 1), last |-> << >>]
    BY <2>8, <2>9, <2>10
  <2>12. k + 1 \in 0..Len(fields)
    BY <2>1
  <2> QED
    BY <2>11, <2>12
<1>5. 0..Len(fields) \subseteq T
  <2> HIDE DEF T
  <2> QED
    BY <1>2, <1>3, <1>4, Induction
<1>6. Len(fields) \in T
  <2>1. Len(fields) \in 0..Len(fields)
    BY <1>2
  <2> HIDE DEF T
  <2> QED
    BY <1>5, <2>1
<1>7. SubSeq(fields, 1, Len(fields)) = fields
  BY SubSeqFull
<1> QED
  BY <1>1, <1>6, <1>7

\* The tokens of fields with separators between them are the fields.
LEMMA TokensOfFields ==
  ASSUME NEW fields \in Seq(Text), \A i \in 1..Len(fields) : IsField(fields[i]),
         NEW n \in Text, IsField(n)
  PROVE  /\ Terminated(fields) \o n \in Text
         /\ Tokenize(Terminated(fields) \o n) = Append(fields, n)
<1>1. PICK t : t = Terminated(fields)
  OBVIOUS
<1>2. t \in Text /\ Scan(t) = [done |-> fields, last |-> << >>]
  BY <1>1, ScanTerminated, TerminatedAppend
<1>3. t \o n \in Text /\ Scan(t \o n) = [done |-> fields, last |-> n]
  BY <1>2, ScanWhole DEF IsField
<1> QED
  BY <1>1, <1>3 DEF Tokenize

LEMMA FrontAndLast ==
  ASSUME NEW S, NEW s \in Seq(S), s # << >>
  PROVE  /\ Front(s) \in Seq(S)
         /\ Last(s) \in S
         /\ s = Append(Front(s), Last(s))
         /\ \A i \in 1..Len(Front(s)) : i \in 1..Len(s) /\ Front(s)[i] = s[i]
         /\ Last(s) = s[Len(s)] /\ Len(s) \in 1..Len(s)
<1>1. PICK f, l : f = Front(s) /\ l = Last(s)
  OBVIOUS
<1>2. /\ f \in Seq(S) /\ Len(f) = Len(s) - 1
      /\ \A i \in 1..(Len(s) - 1) : f[i] = s[i]
  BY <1>1, FrontIs
<1>3. Len(s) \in Nat \ {0}
  BY EmptySeq
<1>4. Len(s) \in 1..Len(s)
  BY <1>3
<1>5. l = s[Len(s)] /\ l \in S
  BY <1>1, <1>4, ElementOfSeq DEF Last
<1>6. PICK more : more = Append(f, l)
  OBVIOUS
<1>7. /\ more \in Seq(S) /\ Len(more) = Len(f) + 1
      /\ \A i \in 1..Len(f) : more[i] = f[i]
      /\ more[Len(f) + 1] = l
  BY <1>2, <1>5, <1>6, AppendProperties
<1>8. ASSUME NEW i \in 1..Len(s) PROVE s[i] = more[i]
  <2>1. i \in 1..Len(f) \/ i = Len(s)
    BY <1>2, <1>3
  <2> QED
    BY <1>2, <1>3, <1>5, <1>7, <2>1
<1>9. Len(s) = Len(more)
  BY <1>2, <1>3, <1>7
<1>10. s = more
  BY <1>7, <1>8, <1>9, SeqEqual
<1>11. \A i \in 1..Len(f) : i \in 1..Len(s) /\ f[i] = s[i]
  BY <1>2, <1>3
<1> QED
  BY <1>1, <1>2, <1>4, <1>5, <1>6, <1>10, <1>11

-----------------------------------------------------------------------------
(* Lists of names and of numbers. *)

LEMMA SerializeListIs ==
  ASSUME NEW names \in Seq(Text), names # << >>, Last(names) # << >>
  PROVE  SerializeList(names) = Terminated(Front(names)) \o Last(names)
<1>1. PICK t, l : t = Terminated(Front(names)) /\ l = Last(names)
  OBVIOUS
<1>2. Front(names) \in Seq(Text) /\ l \in Text /\ names = Append(Front(names), l)
  BY <1>1, FrontAndLast
<1>3. t \in Text /\ Terminated(names) = t \o l \o Sep
  <2>1. PICK f : f = Front(names)
    OBVIOUS
  <2>2. Terminated(f) \in Text /\ Terminated(Append(f, l)) = Terminated(f) \o l \o Sep
    BY <1>2, <2>1, TerminatedAppend
  <2> QED
    BY <1>1, <1>2, <2>1, <2>2
<1>4. PICK tl : tl = t \o l
  OBVIOUS
<1>5. tl \in Text /\ Len(tl) = Len(t) + Len(l)
  BY <1>2, <1>3, <1>4, ConcatProperties DEF Text
<1>6. Len(t) \in Nat /\ Len(l) \in Nat \ {0}
  BY <1>1, <1>2, <1>3, EmptySeq, LenProperties DEF Text
<1>7. PICK all : all = tl \o Sep
  OBVIOUS
<1>8. all \in Text /\ Len(all) = Len(tl) + 2
  BY <1>5, <1>7, SepIs, ConcatProperties DEF Text
<1>9. PICK n : n = Len(tl)
  OBVIOUS
<1>10. n \in Nat /\ n \in 1..n /\ 1 \in 1..n /\ Len(all) - 2 = n /\ Len(all) > 2
  BY <1>5, <1>6, <1>8, <1>9
<1>11. SubSeq(tl \o Sep, 1, n) = SubSeq(tl, 1, n)
  BY <1>5, <1>9, <1>10, SepIs, SubSeqOfConcat1 DEF Text
<1>12. SubSeq(tl, 1, n) = tl
  BY <1>5, <1>9, SubSeqFull DEF Text
<1>13. SerializeList(names) = SubSeq(all, 1, n)
  BY <1>3, <1>4, <1>7, <1>10 DEF SerializeList
<1> QED
  BY <1>1, <1>4, <1>7, <1>11, <1>12, <1>13

LEMMA TerminatedEmpty == Terminated(<< >>) = << >>
<1>1. PICK e : e = << >>
  OBVIOUS
<1>2. e \in Seq(Text) /\ Len(e) = 0
  BY <1>1, EmptySeq
<1>3. PICK f : IsTerminated(e, f) /\ Terminated(e) = f[Len(e)]
  BY <1>2, TerminatedIs
<1>4. f[0] = e
  BY <1>1, <1>3 DEF IsTerminated
<1> QED
  BY <1>1, <1>2, <1>3, <1>4

LEMMA SerializeListIsText ==
  ASSUME NEW names \in Seq(Text), \A i \in 1..Len(names) : names[i] # << >>
  PROVE  SerializeList(names) \in Text
<1>1. CASE names = << >>
  <2>1. PICK e : e = << >>
    OBVIOUS
  <2>2. e \in Text /\ Len(e) = 0
    BY <2>1, EmptySeq DEF Text
  <2>3. Terminated(names) = e
    BY <1>1, <2>1, TerminatedEmpty
  <2> QED
    BY <2>2, <2>3 DEF SerializeList
<1>2. CASE names # << >>
  <2>1. PICK f, l : f = Front(names) /\ l = Last(names)
    OBVIOUS
  <2>2. f \in Seq(Text) /\ l \in Text /\ l # << >>
    BY <1>2, <2>1, FrontAndLast
  <2>3. PICK t \in Text : t = Terminated(f)
    BY <2>2, TerminatedAppend
  <2>4. t \o l \in Text
    BY <2>2, <2>3, ConcatProperties DEF Text
  <2> QED
    BY <1>2, <2>1, <2>2, <2>3, <2>4, SerializeListIs
<1> QED
  BY <1>1, <1>2

\* The tokens of a list of names that are fields are the names.
LEMMA ListReadBack ==
  ASSUME NEW names \in Seq(Text), names # << >>,
         \A i \in 1..Len(names) : names[i] # << >> /\ IsField(names[i])
  PROVE  Tokenize(SerializeList(names)) = names
<1>1. PICK f, l : f = Front(names) /\ l = Last(names)
  OBVIOUS
<1>2. /\ f \in Seq(Text) /\ l \in Text /\ names = Append(f, l)
      /\ \A i \in 1..Len(f) : i \in 1..Len(names) /\ f[i] = names[i]
      /\ l = names[Len(names)] /\ Len(names) \in 1..Len(names)
  BY <1>1, FrontAndLast
<1>3. \A i \in 1..Len(f) : IsField(f[i])
  BY <1>2
<1>4. IsField(l) /\ l # << >>
  BY <1>2
<1>5. Tokenize(Terminated(f) \o l) = Append(f, l)
  BY <1>2, <1>3, <1>4, TokensOfFields
<1> QED
  BY <1>1, <1>2, <1>4, <1>5, SerializeListIs

LEMMA IntegersAre ==
  /\ Indexes \subseteq Integer /\ NoIndex \in Integer /\ 0..4 \subseteq Integer
  /\ Exception \notin Integer
  /\ \A i \in Integer : Numeral[i] \in Symbols /\ Numeral[i] # Bar
<1>1. Exception \notin Integer
  BY IndexesAssumption DEF Exception, Integer, NoIndex
<1> QED
  BY <1>1, NumeralAssumption DEF Integer, Symbols

LEMMA StoiOfNumeral ==
  ASSUME NEW text \in Text, text # << >>, NEW i \in Integer, Head(text) = Numeral[i]
  PROVE  Stoi(text) = i
<1>1. Stoi(text) = CHOOSE j \in Integer : Head(text) = Numeral[j]
  BY DEF Stoi
<1>2. \A j \in Integer : Head(text) = Numeral[j] => j = i
  BY NumeralAssumption
<1> QED
  BY <1>1, <1>2

LEMMA StoiOfOther ==
  ASSUME NEW text, text = << >> \/ Head(text) = Bar
  PROVE  Stoi(text) = Exception
BY NumeralAssumption DEF Stoi

LEMMA StoiType ==
  ASSUME NEW text
  PROVE  Stoi(text) \in Integer \union {Exception}
BY DEF Stoi

LEMMA NumeralIsField ==
  ASSUME NEW i \in Integer
  PROVE  /\ <<Numeral[i]>> \in Text
         /\ IsField(<<Numeral[i]>>)
         /\ Stoi(<<Numeral[i]>>) = i
<1>1. PICK c : c = Numeral[i]
  OBVIOUS
<1>2. c \in Symbols /\ c # Bar
  BY <1>1, IntegersAre
<1>3. PICK s : s = <<c>>
  OBVIOUS
<1>4. Len(s) = 1 /\ s[1] = c /\ Head(s) = c /\ s # << >>
  BY <1>3
<1>5. s \in Text
  BY <1>2, <1>3 DEF Text
<1>6. IsField(s)
  BY <1>2, <1>4 DEF IsField, Whole, EndsWithBar, Last
<1>7. Stoi(s) = i
  BY <1>1, <1>4, <1>5, StoiOfNumeral
<1> QED
  BY <1>1, <1>3, <1>5, <1>6, <1>7

LEMMA TokensOfEmpty == Tokenize(<< >>) = << << >> >>
<1>1. PICK e : e = << >>
  OBVIOUS
<1>2. Tokenize(e) = Append(e, e)
  <2>1. Scan(e) = [done |-> e, last |-> e]
    BY <1>1, ScanEmpty DEF NothingScanned
  <2> QED
    BY <2>1 DEF Tokenize
<1>3. Append(<< >>, e) = <<e>>
  OBVIOUS
<1> QED
  BY <1>1, <1>2, <1>3

LEMMA NoAvail == ParseAvail(<< >>) = << >>
<1>1. PICK e : e = << >>
  OBVIOUS
<1>2. PICK tokens : tokens = Tokenize(e)
  OBVIOUS
<1>3. tokens = <<e>>
  BY <1>1, <1>2, TokensOfEmpty
<1>4. DOMAIN tokens = {1} /\ tokens[1] = e
  BY <1>3
<1>5. Stoi(e) = Exception
  BY <1>1, StoiOfOther
<1>6. Exception \in ToSet([t \in DOMAIN tokens |-> Stoi(tokens[t])])
  BY <1>4, <1>5 DEF ToSet
<1> QED
  BY <1>1, <1>2, <1>6 DEF ParseAvail

\* A list of indexes is read back as it is.
LEMMA AvailReadBack ==
  ASSUME NEW avail \in Seq(Indexes)
  PROVE  SerializeAvail(avail) \in Text /\ ParseAvail(SerializeAvail(avail)) = avail
<1>1. CASE avail = << >>
  <2>1. SerializeAvail(avail) = << >>
    BY <1>1 DEF SerializeAvail
  <2>2. << >> \in Text
    BY EmptySeq DEF Text
  <2> QED
    BY <1>1, <2>1, <2>2, NoAvail
<1>2. CASE avail # << >>
  <2>1. /\ Len(avail) \in Nat \ {0}
        /\ DOMAIN avail = 1..Len(avail)
        /\ \A i \in 1..Len(avail) : avail[i] \in Integer
    BY <1>2, EmptySeq, LenProperties, ElementOfSeq, IntegersAre
  <2>2. PICK numerals : numerals = [i \in DOMAIN avail |-> <<Numeral[avail[i]]>>]
    OBVIOUS
  <2>3. \A i \in 1..Len(avail) :
          /\ numerals[i] \in Text
          /\ IsField(numerals[i])
          /\ Stoi(numerals[i]) = avail[i]
    BY <2>1, <2>2, NumeralIsField
  <2>4. PICK n \in Nat : n = Len(avail)
    BY <2>1
  <2>5. numerals \in [1..n -> Text]
    BY <2>1, <2>2, <2>3, <2>4
  <2>6. numerals \in Seq(Text)
    BY <2>4, <2>5, SeqDef
  <2>7. Len(numerals) = n
    BY <2>4, <2>5, <2>6, LenProperties
  <2>8. numerals # << >>
    BY <2>1, <2>4, <2>7, EmptySeq
  <2>9. PICK f, l : f = Front(numerals) /\ l = Last(numerals)
    OBVIOUS
  <2>10. /\ f \in Seq(Text) /\ l \in Text /\ numerals = Append(f, l)
         /\ \A i \in 1..Len(f) : i \in 1..n /\ f[i] = numerals[i]
         /\ l = numerals[n] /\ n \in 1..n
    BY <2>6, <2>7, <2>8, <2>9, FrontAndLast
  <2>11. IsField(l) /\ \A i \in 1..Len(f) : IsField(f[i])
    BY <2>3, <2>4, <2>10
  <2>12. PICK text : text = Terminated(f) \o l
    OBVIOUS
  <2>13. SerializeAvail(avail) = text
    BY <1>2, <2>2, <2>9, <2>12 DEF SerializeAvail
  <2>14. text \in Text /\ Tokenize(text) = numerals
    BY <2>10, <2>11, <2>12, TokensOfFields
  <2>15. PICK read : read = [t \in DOMAIN numerals |-> Stoi(numerals[t])]
    OBVIOUS
  <2>16. read = avail
    <3>1. DOMAIN read = DOMAIN avail
      BY <2>2, <2>15
    <3>2. \A i \in DOMAIN avail : read[i] = avail[i]
      BY <2>1, <2>3, <2>15, <3>1
    <3>3. avail = [i \in DOMAIN avail |-> avail[i]]
      BY <2>1, LenProperties
    <3> QED
      BY <2>15, <3>1, <3>2, <3>3
  <2>17. Exception \notin ToSet(read)
    BY <2>1, <2>16, IntegersAre DEF ToSet
  <2>18. ParseAvail(text) = read
    BY <2>14, <2>15, <2>17 DEF ParseAvail
  <2> QED
    BY <2>13, <2>14, <2>16, <2>18
<1> QED
  BY <1>1, <1>2

-----------------------------------------------------------------------------
(* Requests. *)

LEMMA PrefixIs ==
  /\ Prefix \in Text
  /\ Len(Prefix) = 3
  /\ Scan(Prefix) = [done |-> << <<"bp2p">> >>, last |-> << >>]
<1>1. PICK b : b = "bp2p"
  OBVIOUS
<1>2. b \in Symbols /\ b # Bar
  BY <1>1 DEF Symbols, Bar
<1>3. PICK w : w = <<b>>
  OBVIOUS
<1>4. w \in Text /\ Len(w) = 1 /\ w[1] = b /\ ~EndsWithBar(w) /\ Whole(w)
  <2>1. Len(w) = 1 /\ w[1] = b
    BY <1>3
  <2>2. w \in Text
    BY <1>2, <1>3 DEF Text
  <2> QED
    BY <1>2, <2>1, <2>2 DEF EndsWithBar, Last, Whole
<1>5. Prefix = w \o Sep
  BY <1>1, <1>3 DEF Prefix
<1>6. Prefix \in Text /\ Len(Prefix) = 3
  BY <1>4, <1>5, SepIs, ConcatProperties DEF Text
<1>7. Scan(w) = [done |-> << >>, last |-> w]
  <2>1. PICK e : e = << >>
    OBVIOUS
  <2>2. e \in Text /\ Scan(e) = [done |-> << >>, last |-> << >>] /\ e \o w = w
    BY <1>4, <2>1, EmptySeq, ScanEmpty, ConcatEmptySeq DEF NothingScanned, Text
  <2>3. Scan(e \o w) = [done |-> << >>, last |-> w]
    BY <1>4, <2>2, ScanWhole
  <2> QED
    BY <2>2, <2>3
<1>8. Scan(w \o Sep) = [done |-> Append(<< >>, w), last |-> << >>]
  BY <1>4, <1>7, ScanSep
<1>9. Append(<< >>, w) = <<w>>
  OBVIOUS
<1> QED
  BY <1>1, <1>3, <1>5, <1>6, <1>8, <1>9

\* The number of a kind.
LEMMA KindsAre ==
  ASSUME NEW k \in Kinds
  PROVE  TypeOf[k] \in Integer /\ KindOf(TypeOf[k]) = k
<1>1. TypeOf[k] \in 0..4
  BY DEF Kinds, TypeOf
<1>2. \A j \in Kinds : TypeOf[j] = TypeOf[k] => j = k
  BY DEF Kinds, TypeOf
<1>3. KindOf(TypeOf[k]) = CHOOSE j \in Kinds : TypeOf[j] = TypeOf[k]
  BY DEF KindOf
<1> QED
  BY <1>1, <1>2, <1>3, IntegersAre

\* The fields of a request behind its kind.
NameField(k, n) == IF k = "list" THEN << >> ELSE Sep \o n
IndexField(k, i) == IF k = "chunk" THEN Sep \o <<Numeral[i]>> ELSE << >>

LEMMA TextsAssociate ==
  ASSUME NEW a \in Text, NEW b \in Text, NEW c \in Text
  PROVE  (a \o b) \o c = a \o (b \o c)
BY ConcatAssociative DEF Text

LEMMA RequestIs ==
  ASSUME NEW k \in Kinds, NEW n \in Text, NEW i \in Indexes \union {NoIndex}
  PROVE  LET num == <<Numeral[TypeOf[k]]>>
         IN  /\ RequestText(k, n, i) \in Text
             /\ num \in Text
             /\ NameField(k, n) \in Text
             /\ IndexField(k, i) \in Text
             /\ RequestText(k, n, i) =
                  Prefix \o num \o NameField(k, n) \o IndexField(k, i)
             /\ RequestText(k, n, i) =
                  Prefix \o (num \o (NameField(k, n) \o IndexField(k, i)))
<1>1. PICK num, a, b, p :
        /\ num = <<Numeral[TypeOf[k]]>>
        /\ a = NameField(k, n)
        /\ b = IndexField(k, i)
        /\ p = Prefix
  OBVIOUS
<1>2. num \in Text
  BY <1>1, KindsAre, NumeralIsField
<1>3. a \in Text
  BY <1>1, SepIs, EmptySeq, ConcatProperties DEF NameField, Text
<1>4. b \in Text
  <2>1. i \in Integer
    BY IntegersAre
  <2>2. PICK m : m = <<Numeral[i]>>
    OBVIOUS
  <2>3. m \in Text
    BY <2>1, <2>2, NumeralIsField
  <2>4. Sep \o m \in Text
    BY <2>3, SepIs, ConcatProperties DEF Text
  <2> QED
    BY <1>1, <2>2, <2>4, EmptySeq DEF IndexField, Text
<1>5. p \in Text
  BY <1>1, PrefixIs
<1>6. RequestText(k, n, i) = p \o num \o a \o b
  BY <1>1 DEF RequestText, NameField, IndexField
<1>7. PICK pn, ab, pna, nab :
        pn = p \o num /\ ab = a \o b /\ pna = pn \o a /\ nab = num \o ab
  OBVIOUS
<1>8. pn \in Text /\ ab \in Text
  BY <1>2, <1>3, <1>4, <1>5, <1>7, ConcatProperties DEF Text
<1>9. pna \in Text /\ nab \in Text
  BY <1>2, <1>3, <1>7, <1>8, ConcatProperties DEF Text
<1>10. pna \o b \in Text
  BY <1>4, <1>9, ConcatProperties DEF Text
<1>11. (pn \o a) \o b = pn \o (a \o b)
  BY <1>3, <1>4, <1>8, TextsAssociate
<1>12. (p \o num) \o ab = p \o (num \o ab)
  BY <1>2, <1>3, <1>8, TextsAssociate
<1>13. RequestText(k, n, i) = pna \o b
  BY <1>6, <1>7
<1>14. RequestText(k, n, i) = p \o nab
  BY <1>7, <1>11, <1>12, <1>13
<1> QED
  BY <1>1, <1>2, <1>3, <1>4, <1>6, <1>7, <1>10, <1>13, <1>14

\* The kind of a request is read back, but that of a list, which ends with it.
LEMMA KindReadBack ==
  ASSUME NEW k \in Kinds, NEW n \in Text, NEW i \in Indexes \union {NoIndex}
  PROVE  KindsRead(RequestText(k, n, i)) \subseteq
           {k} \union IF k = "list" THEN {"bad"} ELSE {}
<1>1. PICK num, ab, p, text :
        /\ num = <<Numeral[TypeOf[k]]>>
        /\ ab = NameField(k, n) \o IndexField(k, i)
        /\ p = Prefix
        /\ text = RequestText(k, n, i)
  OBVIOUS
<1>2. /\ num \in Text /\ p \in Text /\ text \in Text
      /\ Len(p) = 3
      /\ text = p \o (num \o ab)
      /\ Len(num) = 1 /\ num[1] = Numeral[TypeOf[k]]
  BY <1>1, RequestIs, PrefixIs
<1>3. ab \in Text
  BY <1>1, RequestIs, ConcatProperties DEF Text
<1>4. PICK r : r = num \o ab
  OBVIOUS
<1>5. /\ r \in Text
      /\ Len(r) = 1 + Len(ab)
      /\ Len(ab) \in Nat
      /\ r[1] = Numeral[TypeOf[k]]
  <2>1. Len(ab) \in Nat
    BY <1>3, LenProperties DEF Text
  <2>2. 1 \in 1..(Len(num) + Len(ab)) /\ 1 <= Len(num)
    BY <1>2, <2>1
  <2>3. /\ r \in Text
        /\ Len(r) = Len(num) + Len(ab)
        /\ \A j \in 1..(Len(num) + Len(ab)) :
             r[j] = IF j <= Len(num) THEN num[j] ELSE ab[j - Len(num)]
    BY <1>2, <1>3, <1>4, ConcatProperties DEF Text
  <2>4. r[1] = num[1]
    BY <2>2, <2>3
  <2> QED
    BY <1>2, <2>1, <2>3, <2>4
<1>6. text = p \o r /\ Len(text) = 3 + Len(r)
  <2>1. text = p \o r
    BY <1>2, <1>4
  <2>2. Len(p \o r) = Len(p) + Len(r)
    BY <1>2, <1>5, ConcatProperties DEF Text
  <2> QED
    BY <1>2, <2>1, <2>2
<1>7. PICK m : m = Len(text)
  OBVIOUS
<1>8. m = 3 + Len(r) /\ Len(r) \in Nat \ {0}
  BY <1>5, <1>6, <1>7
<1>9. SubSeq(text, 4, m) = r
  <2>1. 4 \in Len(p) + 1..Len(p) + Len(r) /\ m \in Len(p) + 1..Len(p) + Len(r)
    BY <1>2, <1>8
  <2>2. SubSeq(p \o r, 4, m) = SubSeq(r, 4 - Len(p), m - Len(p))
    BY <1>2, <1>5, <2>1, SubSeqOfConcat2 DEF Text
  <2>3. SubSeq(r, 1, Len(r)) = r
    BY <1>5, SubSeqFull DEF Text
  <2>4. 4 - Len(p) = 1 /\ m - Len(p) = Len(r)
    BY <1>2, <1>8
  <2> QED
    BY <1>6, <2>2, <2>3, <2>4
<1>10. r # << >> /\ Head(r) = Numeral[TypeOf[k]]
  <2>1. r # << >>
    BY <1>8, EmptySeq
  <2> QED
    BY <1>5, <2>1
<1>11. KindOf(Stoi(r)) = k
  BY <1>5, <1>10, KindsAre, StoiOfNumeral
<1>12. Len(text) > Len(Prefix) /\ IsPrefix(Prefix, text)
  <2>1. 1 \in 1..Len(p) /\ Len(p) \in 1..Len(p) /\ 3 <= Len(text)
    BY <1>2, <1>6, <1>8
  <2>2. SubSeq(p \o r, 1, Len(p)) = SubSeq(p, 1, Len(p))
    BY <1>2, <1>5, <2>1, SubSeqOfConcat1 DEF Text
  <2>3. Len(p) <= Len(text) /\ Len(text) > Len(p)
    BY <1>2, <1>6, <1>8
  <2> QED
    BY <1>1, <1>6, <2>2, <2>3 DEF IsPrefix
<1>13. KindsRead(text) = {k} \union IF Len(r) = 1 THEN {"bad"} ELSE {}
  <2>1. SubSeq(text, Len(Prefix) + 1, Len(text)) = r
    BY <1>1, <1>2, <1>7, <1>9
  <2>2. ~(Len(text) <= Len(Prefix) \/ ~IsPrefix(Prefix, text))
    BY <1>1, <1>2, <1>6, <1>8, <1>12
  <2>3. PICK x : x = SubSeq(text, Len(Prefix) + 1, Len(text))
    OBVIOUS
  <2>4. KindsRead(text) = {KindOf(Stoi(x))} \union IF Len(x) = 1 THEN {"bad"} ELSE {}
    BY <2>2, <2>3 DEF KindsRead
  <2> QED
    BY <1>11, <2>1, <2>3, <2>4
<1>14. ASSUME k # "list" PROVE Len(r) # 1
  <2>1. PICK a, b : a = NameField(k, n) /\ b = IndexField(k, i)
    OBVIOUS
  <2>2. a \in Text /\ b \in Text
    BY <2>1, RequestIs
  <2>3. Len(ab) = Len(a) + Len(b) /\ Len(a) \in Nat /\ Len(b) \in Nat
    BY <1>1, <2>1, <2>2, ConcatProperties, LenProperties DEF Text
  <2>4. Len(a) = 2 + Len(n) /\ Len(n) \in Nat
    BY <1>14, <2>1, SepIs, ConcatProperties, LenProperties DEF NameField, Text
  <2> QED
    BY <1>5, <2>3, <2>4
<1> QED
  BY <1>1, <1>13, <1>14

\* The fields before the name.
LEMMA BeforeName ==
  ASSUME NEW k \in Kinds \ {"list"}
  PROVE  \E q \in Text, d \in Seq(Text) :
           /\ Len(d) = 2
           /\ Scan(q) = [done |-> d, last |-> << >>]
           /\ \A n \in Text : Prefix \o <<Numeral[TypeOf[k]]>> \o NameField(k, n) = q \o n
<1>1. PICK w, num, p :
        w = << <<"bp2p">> >> /\ num = <<Numeral[TypeOf[k]]>> /\ p = Prefix
  OBVIOUS
<1>2. num \in Text /\ Whole(num) /\ ~EndsWithBar(num)
  BY <1>1, KindsAre, NumeralIsField DEF IsField
<1>3. p \in Text /\ Scan(p) = [done |-> w, last |-> << >>] /\ Len(w) = 1 /\ w \in Seq(Text)
  <2>1. p \in Text /\ Scan(p) = [done |-> w, last |-> << >>]
    BY <1>1, PrefixIs
  <2>2. Len(w) = 1
    BY <1>1
  <2>3. w \in Seq(Text)
    BY <2>1, ScanType DEF Scans
  <2> QED
    BY <2>1, <2>2, <2>3
<1>4. PICK pn : pn = p \o num
  OBVIOUS
<1>5. pn \in Text /\ Scan(pn) = [done |-> w, last |-> num]
  BY <1>2, <1>3, <1>4, ScanWhole
<1>6. PICK ps, d : ps = pn \o Sep /\ d = Append(w, num)
  OBVIOUS
<1>7. ps \in Text /\ Scan(ps) = [done |-> d, last |-> << >>]
  BY <1>2, <1>5, <1>6, ScanSep
<1>8. d \in Seq(Text) /\ Len(d) = 2
  <2>1. d \in Seq(Text) /\ Len(d) = Len(w) + 1
    BY <1>2, <1>3, <1>6, AppendProperties
  <2> QED
    BY <1>3, <2>1
<1>9. ASSUME NEW n \in Text
      PROVE  Prefix \o <<Numeral[TypeOf[k]]>> \o NameField(k, n) = ps \o n
  <2>1. (pn \o Sep) \o n = pn \o (Sep \o n)
    BY <1>5, SepIs, ConcatAssociative DEF Text
  <2>2. NameField(k, n) = Sep \o n
    BY DEF NameField
  <2> QED
    BY <1>1, <1>4, <1>6, <2>1, <2>2
<1> QED
  BY <1>7, <1>8, <1>9

\* And the name, when it is a token.
LEMMA ScanOfName ==
  ASSUME NEW k \in Kinds \ {"list"}, NEW n \in Text, Whole(n)
  PROVE  LET text == Prefix \o <<Numeral[TypeOf[k]]>> \o NameField(k, n)
         IN  /\ text \in Text
             /\ \E d \in Seq(Text) : Len(d) = 2 /\ Scan(text) = [done |-> d, last |-> n]
<1>1. PICK q \in Text, d \in Seq(Text) :
        /\ Len(d) = 2
        /\ Scan(q) = [done |-> d, last |-> << >>]
        /\ Prefix \o <<Numeral[TypeOf[k]]>> \o NameField(k, n) = q \o n
  BY BeforeName
<1>2. q \o n \in Text /\ Scan(q \o n) = [done |-> d, last |-> n]
  BY <1>1, ScanWhole
<1> QED
  BY <1>1, <1>2

\* The tokens behind the kind and their number.
LEMMA ThirdToken ==
  ASSUME NEW text \in Text, NEW d, NEW n, Len(d) = 2,
         Scan(text) = [done |-> d, last |-> n]
  PROVE  Len(Tokenize(text)) = 3 /\ Tokenize(text)[3] = n
<1>1. PICK tokens : tokens = Tokenize(text)
  OBVIOUS
<1>2. Len(tokens) = Len(d) + 1 /\ tokens[Len(d) + 1] = n
  <2>1. Scan(text).done = d /\ Scan(text).last = n
    OBVIOUS
  <2> QED
    BY <1>1, <2>1, TokensAre
<1>3. Len(d) + 1 = 3
  OBVIOUS
<1> QED
  BY <1>1, <1>2, <1>3

LEMMA FourthToken ==
  ASSUME NEW text \in Text, NEW d \in Seq(Text), NEW n \in Text, NEW l, Len(d) = 2,
         Scan(text) = [done |-> Append(d, n), last |-> l]
  PROVE  /\ Len(Tokenize(text)) = 4
         /\ Tokenize(text)[3] = n
         /\ Tokenize(text)[4] = l
<1>1. PICK e : e = Append(d, n)
  OBVIOUS
<1>2. Len(e) = Len(d) + 1 /\ e[Len(d) + 1] = n
  BY <1>1, AppendProperties
<1>3. Scan(text).done = e /\ Scan(text).last = l
  BY <1>1
<1>4. PICK tokens : tokens = Tokenize(text)
  OBVIOUS
<1>5. /\ Len(tokens) = Len(e) + 1
      /\ \A i \in 1..Len(e) : tokens[i] = e[i]
      /\ tokens[Len(e) + 1] = l
  BY <1>3, <1>4, TokensAre
<1>6. Len(d) + 1 = 3
  OBVIOUS
<1>7. Len(e) = 3 /\ e[3] = n
  BY <1>2, <1>6
<1>8. Len(e) + 1 = 4 /\ 3 \in 1..Len(e)
  BY <1>7
<1> QED
  BY <1>4, <1>5, <1>7, <1>8

\* Where a name has two bars.
Cuts(n) == {c \in 1..(Len(n) - 1) : n[c] = Bar /\ n[c + 1] = Bar}

LEMMA WholeIsHeard ==
  ASSUME NEW n, Whole(n)
  PROVE  Heard(n) = n
BY DEF Heard, Whole, Sep

\* A name with two bars is what is heard of it, the two bars, and a rest; and
\* what is heard has no two bars, nor one at its end.
LEMMA HeardIs ==
  ASSUME NEW n \in Text, ~Whole(n)
  PROVE  \E h \in Text, r \in Text :
           h = Heard(n) /\ Whole(h) /\ ~EndsWithBar(h) /\ n = (h \o Sep) \o r
<1>1. Len(n) \in Nat
  BY LenProperties DEF Text
<1>2. Cuts(n) \subseteq Nat /\ Cuts(n) # {}
  <2>1. PICK e \in 1..(Len(n) - 1) : n[e] = Bar /\ n[e + 1] = Bar
    BY DEF Whole
  <2>2. e \in Cuts(n)
    BY <2>1 DEF Cuts
  <2>3. 1..(Len(n) - 1) \subseteq Nat
    BY <1>1
  <2>4. Cuts(n) \subseteq 1..(Len(n) - 1)
    BY DEF Cuts
  <2> QED
    BY <2>2, <2>3, <2>4
<1>3. \E c \in Cuts(n) : \A d \in Cuts(n) : c <= d
  BY <1>2, LeastOf
<1>4. PICK c \in Cuts(n) :
        /\ \A d \in Cuts(n) : c <= d
        /\ c = CHOOSE e \in Cuts(n) : \A d \in Cuts(n) : e <= d
  BY <1>3
<1>5. Cuts(n) = {e \in 1..(Len(n) - 1) : <<n[e], n[e + 1]>> = Sep}
  BY DEF Cuts, Sep
<1>6. Heard(n) = SubSeq(n, 1, c - 1)
  BY <1>2, <1>4, <1>5 DEF Heard
<1>7. /\ c \in 1..(Len(n) - 1) /\ c \in Int /\ c - 1 \in 0..Len(n) /\ c + 1 \in c..Len(n)
      /\ n[c] = Bar /\ n[c + 1] = Bar
  BY <1>1 DEF Cuts
<1>8. PICK h, m, s, r : /\ h = SubSeq(n, 1, c - 1)
                        /\ m = SubSeq(n, c, Len(n))
                        /\ s = SubSeq(n, c, c + 1)
                        /\ r = SubSeq(n, c + 2, Len(n))
  OBVIOUS
<1>9. /\ h \in Text /\ Len(h) = c - 1
      /\ \A i \in 1..(c - 1) : h[i] = n[i]
  <2>1. \A i \in 1..(c - 1) : i \in 1..Len(n)
    BY <1>7
  <2>2. \A i \in 1..(c - 1) : n[i] \in Symbols
    BY <2>1, ElementOfSeq DEF Text
  <2>3. /\ SubSeq(n, 1, c - 1) \in Seq(Symbols)
        /\ Len(SubSeq(n, 1, c - 1)) = IF 1 <= c - 1 THEN (c - 1) - 1 + 1 ELSE 0
        /\ \A i \in 1..((c - 1) - 1 + 1) : SubSeq(n, 1, c - 1)[i] = n[1 + i - 1]
    <3>1. 1 \in Int /\ c - 1 \in Int
      BY <1>7
    <3> QED
      BY <2>2, <3>1, SubSeqProperties
  <2> QED
    BY <1>7, <1>8, <2>3 DEF Text
<1>10. s = Sep
  <2>1. \A i \in c..(c + 1) : n[i] \in Symbols
    BY <1>7, SepIs
  <2>2. /\ SubSeq(n, c, c + 1) \in Seq(Symbols)
        /\ Len(SubSeq(n, c, c + 1)) = IF c <= c + 1 THEN (c + 1) - c + 1 ELSE 0
        /\ \A i \in 1..((c + 1) - c + 1) : SubSeq(n, c, c + 1)[i] = n[c + i - 1]
    <3>1. c + 1 \in Int
      BY <1>7
    <3> QED
      BY <1>7, <2>1, <3>1, SubSeqProperties
  <2>3. s \in Seq(Symbols) /\ Len(s) = 2 /\ s[1] = n[c] /\ s[2] = n[c + 1]
    <3>1. c <= c + 1 /\ (c + 1) - c + 1 = 2 /\ c + 1 - 1 = c /\ c + 2 - 1 = c + 1
      BY <1>7
    <3>2. /\ s \in Seq(Symbols) /\ Len(s) = 2
          /\ \A i \in 1..2 : s[i] = n[c + i - 1]
      BY <1>8, <2>2, <3>1
    <3>3. s[1] = n[c + 1 - 1] /\ s[2] = n[c + 2 - 1]
      BY <3>2
    <3> QED
      BY <3>1, <3>2, <3>3
  <2>4. PICK b : b = Sep
    OBVIOUS
  <2>5. b \in Seq(Symbols) /\ Len(b) = 2 /\ b[1] = Bar /\ b[2] = Bar
    BY <2>4, SepIs DEF Text
  <2>6. \A i \in 1..Len(s) : s[i] = b[i]
    <3>1. \A i \in 1..2 : i = 1 \/ i = 2
      OBVIOUS
    <3> QED
      BY <1>7, <2>3, <2>5, <3>1
  <2> QED
    BY <2>3, <2>4, <2>5, <2>6, SeqEqual
<1>11. r \in Text
  <2>1. \A i \in (c + 2)..Len(n) : i \in 1..Len(n)
    BY <1>1, <1>7
  <2>2. \A i \in (c + 2)..Len(n) : n[i] \in Symbols
    BY <2>1, ElementOfSeq DEF Text
  <2>3. c + 2 \in Int /\ Len(n) \in Int
    BY <1>1, <1>7
  <2> QED
    BY <1>8, <2>2, <2>3, SubSeqProperties DEF Text
<1>12. n = (h \o Sep) \o r
  <2>1. h \o m = SubSeq(n, 1, Len(n))
    <3>1. 1 \in 1..(Len(n) + 1) /\ c - 1 \in (1 - 1)..Len(n) /\ Len(n) \in (c - 1)..Len(n)
      BY <1>1, <1>7
    <3>2. SubSeq(n, 1, c - 1) \o SubSeq(n, (c - 1) + 1, Len(n)) = SubSeq(n, 1, Len(n))
      BY <3>1, ConcatAdjacentSubSeq DEF Text
    <3>3. (c - 1) + 1 = c
      BY <1>7
    <3> QED
      BY <1>8, <3>2, <3>3
  <2>2. s \o r = m
    <3>1. c \in 1..(Len(n) + 1) /\ c + 1 \in (c - 1)..Len(n) /\ Len(n) \in (c + 1)..Len(n)
      BY <1>1, <1>7
    <3>2. SubSeq(n, c, c + 1) \o SubSeq(n, (c + 1) + 1, Len(n)) = SubSeq(n, c, Len(n))
      BY <3>1, ConcatAdjacentSubSeq DEF Text
    <3>3. (c + 1) + 1 = c + 2
      BY <1>7
    <3> QED
      BY <1>8, <3>2, <3>3
  <2>3. SubSeq(n, 1, Len(n)) = n
    BY SubSeqFull DEF Text
  <2>4. (h \o Sep) \o r = h \o (Sep \o r)
    BY <1>9, <1>11, SepIs, TextsAssociate
  <2> QED
    BY <1>10, <2>1, <2>2, <2>3, <2>4
<1>13. ASSUME NEW i \in 1..(c - 1), n[i] = Bar, n[i + 1] = Bar PROVE FALSE
  <2>1. i \in Cuts(n) /\ i < c
    BY <1>1, <1>7, <1>13 DEF Cuts
  <2> QED
    BY <1>2, <1>4, <2>1
<1>14. Whole(h)
  <2> SUFFICES ASSUME NEW i \in 1..(Len(h) - 1), h[i] = Bar, h[i + 1] = Bar
               PROVE  FALSE
    BY DEF Whole
  <2>1. i \in 1..(c - 1) /\ i + 1 \in 1..(c - 1)
    BY <1>7, <1>9
  <2> QED
    BY <1>9, <1>13, <2>1
<1>15. ~EndsWithBar(h)
  <2> SUFFICES ASSUME EndsWithBar(h) PROVE FALSE
    OBVIOUS
  <2>1. c - 1 \in 1..(c - 1) /\ (c - 1) + 1 = c
    <3>1. Len(h) # 0
      BY <1>9, EmptySeq DEF EndsWithBar, Text
    <3> QED
      BY <1>7, <1>9, <3>1
  <2>2. n[c - 1] = Bar
    BY <1>9, <2>1 DEF EndsWithBar, Last
  <2> QED
    BY <1>7, <1>13, <2>1, <2>2
<1> QED
  BY <1>6, <1>8, <1>9, <1>11, <1>12, <1>14, <1>15

\* What is read of the name of a torrent.
LEMMA NameReadBack ==
  ASSUME NEW k \in {"file", "avail"}, NEW n \in Text,
         NEW i \in Indexes \union {NoIndex}
  PROVE  ReadName(RequestText(k, n, i)) = Heard(n)
<1>1. k \in Kinds \ {"list"} /\ k # "chunk"
  BY DEF Kinds
<1>2. PICK q \in Text, d \in Seq(Text) :
        /\ Len(d) = 2
        /\ Scan(q) = [done |-> d, last |-> << >>]
        /\ Prefix \o <<Numeral[TypeOf[k]]>> \o NameField(k, n) = q \o n
  BY <1>1, BeforeName
<1>3. PICK text \in Text : text = q \o n
  <2>1. q \o n \in Text
    BY ConcatProperties DEF Text
  <2> QED
    BY <2>1
<1>4. RequestText(k, n, i) = text
  <2>1. text \o << >> = text
    BY <1>3, ConcatEmptySeq DEF Text
  <2>2. RequestText(k, n, i) = text \o IndexField(k, i)
    <3>1. RequestText(k, n, i) =
            Prefix \o <<Numeral[TypeOf[k]]>> \o NameField(k, n) \o IndexField(k, i)
      BY <1>1, RequestIs
    <3> QED
      BY <1>2, <1>3, <3>1
  <2>3. IndexField(k, i) = << >>
    BY <1>1 DEF IndexField
  <2> QED
    BY <2>1, <2>2, <2>3
<1>5. CASE Whole(n)
  <2>1. Scan(text) = [done |-> d, last |-> n]
    BY <1>2, <1>3, <1>5, ScanWhole
  <2>2. Len(Tokenize(text)) = 3 /\ Tokenize(text)[3] = n
    BY <1>2, <2>1, ThirdToken
  <2>3. Heard(n) = n
    BY <1>5, WholeIsHeard
  <2> QED
    BY <1>4, <2>2, <2>3 DEF ReadName
<1>6. CASE ~Whole(n)
  <2>1. PICK h \in Text, r \in Text :
          h = Heard(n) /\ Whole(h) /\ ~EndsWithBar(h) /\ n = (h \o Sep) \o r
    BY <1>6, HeardIs
  <2>2. PICK qh : qh = q \o h
    OBVIOUS
  <2>3. qh \in Text /\ Scan(qh) = [done |-> d, last |-> h]
    <3>1. Whole(h) /\ Scan(q) = [done |-> d, last |-> << >>]
      BY <1>2, <2>1
    <3> QED
      BY <2>2, <3>1, ScanWhole
  <2>4. PICK qs, e : qs = qh \o Sep /\ e = Append(d, h)
    OBVIOUS
  <2>5. qs \in Text /\ Scan(qs) = [done |-> e, last |-> << >>]
    BY <2>1, <2>3, <2>4, ScanSep
  <2>6. Len(e) = 3 /\ e[3] = h
    <3>1. Len(e) = Len(d) + 1 /\ e[Len(d) + 1] = h
      BY <2>1, <2>4, AppendProperties
    <3> QED
      BY <1>2, <3>1
  <2>7. text = qs \o r
    <3>1. PICK hs \in Text : hs = h \o Sep
      <4>1. PICK b \in Text : b = Sep
        BY SepIs
      <4>2. h \o b \in Text
        BY ConcatProperties DEF Text
      <4> QED
        BY <4>1, <4>2
    <3>2. q \o (hs \o r) = (q \o hs) \o r
      BY TextsAssociate, SMTT(20)
    <3>3. q \o (h \o Sep) = (q \o h) \o Sep
      <4>1. PICK b \in Text : b = Sep
        BY SepIs
      <4>2. (q \o h) \o b = q \o (h \o b)
        BY TextsAssociate, SMTT(20)
      <4> QED
        BY <4>1, <4>2
    <3> QED
      BY <1>3, <2>1, <2>2, <2>4, <3>1, <3>2, <3>3
  <2>8. PICK t : t = Scan(text)
    OBVIOUS
  <2>9. Keeps(Scan(qs), t)
    BY <2>1, <2>5, <2>7, <2>8, DoneStays
  <2>10. t.done \in Seq(Text) /\ Len(t.done) >= 3 /\ t.done[3] = h
    <3>1. t.done \in Seq(Text)
      BY <2>8, TokensAre
    <3>2. Scan(qs).done = e
      BY <2>5
    <3>3. 3 \in 1..Len(e)
      BY <2>6
    <3>4. Len(t.done) \in Nat
      BY <3>1, LenProperties
    <3> QED
      BY <2>6, <2>9, <3>1, <3>2, <3>3, <3>4 DEF Keeps
  <2>11. Len(Tokenize(text)) > 2 /\ Tokenize(text)[3] = h
    <3>1. Len(t.done) \in Nat
      BY <2>10, LenProperties
    <3>2. /\ Len(Tokenize(text)) = Len(t.done) + 1
          /\ \A j \in 1..Len(t.done) : Tokenize(text)[j] = t.done[j]
      BY <2>8, TokensAre
    <3>3. 3 \in 1..Len(t.done)
      BY <2>10, <3>1
    <3> QED
      BY <2>10, <3>1, <3>2, <3>3
  <2> QED
    BY <1>4, <2>1, <2>11 DEF ReadName
<1> QED
  BY <1>5, <1>6

\* The name and the index of a chunk are read back, but a name that ends with a
\* bar loses it, and the index.
LEMMA ChunkReadBack ==
  ASSUME NEW n \in Text, Whole(n), NEW i \in Indexes \union {NoIndex}
  PROVE  LET text == RequestText("chunk", n, i)
         IN  IF EndsWithBar(n) THEN ReadName(text) = Front(n) /\ ReadIndex(text) = NoIndex
                               ELSE ReadName(text) = n /\ ReadIndex(text) = i
<1>1. "chunk" \in Kinds \ {"list"} /\ i \in Integer
  BY IntegersAre DEF Kinds
<1>2. PICK m, named :
        /\ m = <<Numeral[i]>>
        /\ named = Prefix \o <<Numeral[TypeOf["chunk"]]>> \o NameField("chunk", n)
  OBVIOUS
<1>3. m \in Text /\ IsField(m) /\ Stoi(m) = i
  BY <1>1, <1>2, NumeralIsField
<1>4. /\ named \in Text
      /\ \E d \in Seq(Text) : Len(d) = 2 /\ Scan(named) = [done |-> d, last |-> n]
  BY <1>1, <1>2, ScanOfName
<1>5. PICK d \in Seq(Text) : Len(d) = 2 /\ Scan(named) = [done |-> d, last |-> n]
  BY <1>4
<1>6. PICK ns : ns = named \o Sep
  OBVIOUS
<1>7. RequestText("chunk", n, i) = ns \o m
  <2>1. RequestText("chunk", n, i) = named \o IndexField("chunk", i)
    BY <1>1, <1>2, RequestIs
  <2>2. IndexField("chunk", i) = Sep \o m
    BY <1>2 DEF IndexField
  <2>3. (named \o Sep) \o m = named \o (Sep \o m)
    BY <1>3, <1>4, SepIs, TextsAssociate
  <2> QED
    BY <1>6, <2>1, <2>2, <2>3
<1>8. CASE EndsWithBar(n)
  <2>1. PICK f : f = Front(n)
    OBVIOUS
  <2>2. /\ ns \in Text
        /\ Scan(ns) = [done |-> Append(d, f), last |-> <<Bar>>]
        /\ f \in Text
    BY <1>4, <1>5, <1>6, <1>8, <2>1, ScanSepLate, FrontIs DEF EndsWithBar, Text
  <2>3. PICK c, b : c = Numeral[i] /\ b = <<Bar>>
    OBVIOUS
  <2>4. c \in Symbols /\ c # Bar /\ m = <<c>>
    BY <1>1, <1>2, <2>3, IntegersAre
  <2>5. ns \o m = Append(ns, c) /\ Append(ns, c) \in Text
    BY <2>2, <2>4, AppendIsConcat, AppendProperties DEF Text
  <2>6. Scan(Append(ns, c)) = Scanned([done |-> Append(d, f), last |-> b], c)
    BY <2>2, <2>3, <2>4, ScanAppend
  <2>7. Scanned([done |-> Append(d, f), last |-> b], c) =
          [done |-> Append(d, f), last |-> Append(b, c)]
    BY <2>4, ScannedMore
  <2>8. PICK l : l = Append(b, c)
    OBVIOUS
  <2>9. Head(l) = Bar
    <3>1. b \in Seq(Symbols) /\ b # << >> /\ Head(b) = Bar
      BY <2>3, SepIs DEF Text
    <3> QED
      BY <2>8, <3>1, HeadTailAppend
  <2>10. Stoi(l) = Exception
    BY <2>9, StoiOfOther
  <2>11. Len(Tokenize(ns \o m)) = 4 /\ Tokenize(ns \o m)[4] = l /\ Tokenize(ns \o m)[3] = f
    <3>1. PICK text : text = ns \o m
      OBVIOUS
    <3>2. text \in Text /\ Scan(text) = [done |-> Append(d, f), last |-> l]
      BY <2>5, <2>6, <2>7, <2>8, <3>1
    <3>3. Len(Tokenize(text)) = 4 /\ Tokenize(text)[4] = l /\ Tokenize(text)[3] = f
      BY <1>5, <2>2, <3>2, FourthToken, SMTT(20)
    <3> QED
      BY <3>1, <3>3
  <2>12. ReadIndex(ns \o m) = NoIndex /\ ReadName(ns \o m) = f
    BY <2>10, <2>11 DEF ReadIndex, ReadName
  <2> QED
    BY <1>7, <1>8, <2>1, <2>12
<1>9. CASE ~EndsWithBar(n)
  <2>1. PICK e : e = Append(d, n)
    OBVIOUS
  <2>2. ns \in Text /\ Scan(ns) = [done |-> e, last |-> << >>]
    BY <1>4, <1>5, <1>6, <1>9, <2>1, ScanSep
  <2>3. ns \o m \in Text /\ Scan(ns \o m) = [done |-> e, last |-> m]
    BY <1>3, <2>2, ScanWhole DEF IsField
  <2>4. PICK text \in Text : text = ns \o m
    BY <2>3
  <2>5. /\ Len(Tokenize(text)) = 4
        /\ Tokenize(text)[3] = n
        /\ Tokenize(text)[4] = m
    <3>1. Scan(text) = [done |-> Append(d, n), last |-> m]
      BY <2>1, <2>3, <2>4
    <3> QED
      BY <1>5, <3>1, FourthToken
  <2>6. i # Exception
    BY <1>1, IntegersAre
  <2>7. ReadName(text) = n /\ ReadIndex(text) = i
    BY <1>3, <2>5, <2>6 DEF ReadName, ReadIndex
  <2> QED
    BY <1>7, <1>9, <2>4, <2>7
<1> QED
  BY <1>8, <1>9

\* What is read of any text.
LEMMA WhatIsRead ==
  ASSUME NEW text \in Text
  PROVE  ReadName(text) \in Text /\ ReadIndex(text) \in Integer
<1>1. PICK tokens : tokens = Tokenize(text)
  OBVIOUS
<1>2. tokens \in Seq(Text)
  BY <1>1, TokensAre
<1>3. Len(tokens) \in Nat
  BY <1>2, LenProperties
<1>4. ReadName(text) \in Text
  <2>1. << >> \in Text
    BY EmptySeq DEF Text
  <2>2. ASSUME Len(tokens) > 2 PROVE tokens[3] \in Text
    <3>1. 3 \in 1..Len(tokens)
      BY <1>3, <2>2
    <3> QED
      BY <1>2, <3>1, ElementOfSeq
  <2> QED
    BY <1>1, <2>1, <2>2 DEF ReadName
<1>5. ReadIndex(text) \in Integer
  BY <1>1, StoiType, IntegersAre DEF ReadIndex
<1> QED
  BY <1>4, <1>5

-----------------------------------------------------------------------------
(* The invariant. *)

LibraryIsFinite == IsFiniteSet(DOMAIN library)

NamesAreWhole == \A n \in known : Whole(n)

\* Chunks are asked for by a name that is known.
AskedByKnownName == kind = "chunk" => name \in known

RequestFits == pc = "sent" => message = RequestText(kind, name, index)

\* What the peer reads of a request.
ReadingFits ==
  pc \in {"served", "answered"} =>
    /\ handler \in {kind} \union IF kind = "list" THEN {"bad"} ELSE {}
    /\ kind \in {"file", "avail"} => asked.name = Heard(name)
    /\ kind = "chunk" =>
         IF EndsWithBar(name) THEN asked.name = Front(name) /\ asked.index = NoIndex
                              ELSE asked.name = name /\ asked.index = index

\* What it answers to what it has read.
AnswerIsOwn ==
  pc = "answered" =>
    /\ kind = "list" /\ handler = "list" =>
         \E names \in SetToSeqs(DOMAIN library) : message = SerializeList(names)
    /\ kind # "list" /\ asked.name \notin DOMAIN library => message = << >>
    /\ kind # "list" /\ asked.name \in DOMAIN library => message \in Answers

WireInv ==
  /\ TypeOK
  /\ LibraryIsFinite
  /\ NamesAreWhole
  /\ AskedByKnownName
  /\ RequestFits
  /\ ReadingFits
  /\ AnswerIsOwn
  /\ ListArrives
  /\ AnswerFits
  /\ RequestIsAnswered

LEMMA IndexesInOrder == SetToSeq(Indexes) \in Seq(Indexes)
<1>1. Cardinality(Indexes) \in Nat /\ ExistsBijection(1..Cardinality(Indexes), Indexes)
  BY IndexesAssumption, FS_CardinalityType
<1>2. PICK n \in Nat : n = Cardinality(Indexes)
  BY <1>1
<1>3. \E f \in [1..n -> Indexes] : IsInjective(f)
  BY <1>1, <1>2 DEF ExistsBijection, Bijection, Injection
<1>4. SetToSeq(Indexes) \in [1..n -> Indexes]
  BY <1>2, <1>3 DEF SetToSeq
<1> QED
  BY <1>4, SeqDef

\* A list of a finite set has every element.
LEMMA ListsOfSet ==
  ASSUME NEW S, IsFiniteSet(S), NEW s \in SetToSeqs(S)
  PROVE  s \in Seq(S) /\ ToSet(s) = S
<1>1. PICK n \in Nat : n = Cardinality(S)
  BY FS_CardinalityType
<1>2. s \in [1..n -> S] /\ \A i, j \in 1..n : i # j => s[i] # s[j]
  BY <1>1 DEF SetToSeqs
<1>3. s \in Injection(1..n, S)
  BY <1>2 DEF Injection, IsInjective
<1>4. IsFiniteSet(1..n) /\ Cardinality(1..n) = n
  <2>1. 1 \in Int /\ n \in Int
    OBVIOUS
  <2>2. IsFiniteSet(1..n) /\ Cardinality(1..n) = IF 1 > n THEN 0 ELSE n - 1 + 1
    BY <2>1, FS_Interval
  <2> QED
    BY <2>2
<1>5. s \in Surjection(1..n, S)
  BY <1>1, <1>3, <1>4, FS_Injection
<1>6. \A x \in S : \E i \in 1..n : s[i] = x
  BY <1>5 DEF Surjection
<1>7. s \in Seq(S) /\ DOMAIN s = 1..n
  BY <1>2, SeqDef
<1>8. ToSet(s) = S
  BY <1>2, <1>6, <1>7 DEF ToSet
<1> QED
  BY <1>7, <1>8

\* A list that is there twice has the same elements.
LEMMA TwiceTheSame ==
  ASSUME NEW S, NEW s \in Seq(S)
  PROVE  s \o s \in Seq(S) /\ ToSet(s \o s) = ToSet(s)
<1>1. /\ s \o s \in Seq(S) /\ Len(s \o s) = Len(s) + Len(s)
      /\ \A i \in 1..(Len(s) + Len(s)) :
           (s \o s)[i] = IF i <= Len(s) THEN s[i] ELSE s[i - Len(s)]
  BY ConcatProperties
<1>2. Len(s) \in Nat /\ DOMAIN s = 1..Len(s) /\ DOMAIN (s \o s) = 1..Len(s \o s)
  BY <1>1, LenProperties
<1>3. ASSUME NEW x \in ToSet(s \o s) PROVE x \in ToSet(s)
  <2>1. PICK i \in 1..(Len(s) + Len(s)) : x = (s \o s)[i]
    BY <1>1, <1>2 DEF ToSet
  <2>2. \E j \in 1..Len(s) : x = s[j]
    <3>1. CASE i <= Len(s)
      BY <1>1, <1>2, <2>1, <3>1
    <3>2. CASE i > Len(s)
      <4>1. i - Len(s) \in 1..Len(s) /\ ~(i <= Len(s))
        BY <1>2, <3>2
      <4> QED
        BY <1>1, <2>1, <4>1
    <3> QED
      BY <1>2, <3>1, <3>2
  <2> QED
    BY <1>2, <2>2 DEF ToSet
<1>4. ASSUME NEW x \in ToSet(s) PROVE x \in ToSet(s \o s)
  <2>1. PICK i \in 1..Len(s) : x = s[i]
    BY <1>2 DEF ToSet
  <2>2. i \in 1..(Len(s) + Len(s)) /\ i <= Len(s)
    BY <1>2
  <2>3. x = (s \o s)[i]
    BY <1>1, <2>1, <2>2
  <2> QED
    BY <1>1, <1>2, <2>2, <2>3 DEF ToSet
<1> QED
  BY <1>1, <1>3, <1>4

LEMMA TypesOfTexts ==
  /\ << >> \in Text
  /\ \A n \in Text : File(n) \in Text
  /\ \A n \in Text, i \in Indexes \union {NoIndex} : Data(n, i) \in Text
<1>1. << >> \in Text
  BY EmptySeq DEF Text
<1>2. ASSUME NEW c \in Symbols PROVE <<c>> \in Text
  BY DEF Text
<1>3. "torrent" \in Symbols /\ "data" \in Symbols
  BY DEF Symbols
<1>4. ASSUME NEW n \in Text PROVE File(n) \in Text
  <2>1. PICK w \in Text : w = <<"torrent">>
    BY <1>2, <1>3
  <2>2. w \o n \in Text
    BY ConcatProperties DEF Text
  <2> QED
    BY <2>1, <2>2 DEF File
<1>5. ASSUME NEW n \in Text, NEW i \in Indexes \union {NoIndex} PROVE Data(n, i) \in Text
  <2>1. PICK w \in Text : w = <<"data">>
    BY <1>2, <1>3
  <2>2. i \in Integer
    BY IntegersAre
  <2>3. PICK m \in Text : m = <<Numeral[i]>>
    BY <2>2, NumeralIsField
  <2>4. PICK wn \in Text : wn = w \o n
    BY ConcatProperties DEF Text
  <2>5. wn \o m \in Text
    BY ConcatProperties DEF Text
  <2> QED
    BY <2>1, <2>3, <2>4, <2>5 DEF Data
<1> QED
  BY <1>1, <1>4, <1>5

LEMMA InitInv == Init => WireInv
<1> SUFFICES ASSUME Init PROVE WireInv
  OBVIOUS
<1>1. PICK S \in SUBSET Names :
        /\ IsFiniteSet(S)
        /\ library \in [S -> [opens : BOOLEAN, chunks : {<< >>, SetToSeq(Indexes)}]]
  BY DEF Init
<1>2. << >> \in Seq(Indexes) /\ << >> \in Text
  BY EmptySeq DEF Text
<1>3. /\ DOMAIN library = S
      /\ \A n \in DOMAIN library : library[n] \in [opens : BOOLEAN, chunks : Seq(Indexes)]
  BY <1>1, <1>2, IndexesInOrder
<1>4. TypeOK
  <2>1. asked \in [name : Text, index : Indexes \union {NoIndex}]
    BY <1>2 DEF Init
  <2>2. kind \in Kinds /\ kind # "avail"
    BY DEF Init, Kinds
  <2>3. result \in IF kind = "avail" THEN Seq(Indexes) ELSE Text
    BY <1>2, <2>2 DEF Init
  <2> QED
    BY <1>2, <1>3, <2>1, <2>2, <2>3 DEF Init, TypeOK
<1>5. LibraryIsFinite
  BY <1>1, <1>3 DEF LibraryIsFinite
<1>6. NamesAreWhole /\ AskedByKnownName /\ RequestFits /\ ReadingFits /\ AnswerIsOwn
  BY DEF Init, NamesAreWhole, AskedByKnownName, RequestFits, ReadingFits, AnswerIsOwn
<1>7. ListArrives /\ AnswerFits /\ RequestIsAnswered
  BY DEF Init, ListArrives, AnswerFits, RequestIsAnswered
<1> QED
  BY <1>4, <1>5, <1>6, <1>7 DEF WireInv

LEMMA AskKeepsInv ==
  ASSUME WireInv,
         NEW k \in Kinds, NEW n \in known \union Names \union {<< >>},
         NEW i \in Indexes \union {NoIndex}, Ask(k, n, i)
  PROVE  WireInv'
<1> USE DEF Ask, asking, serving
<1>1. TypeOK
  BY DEF WireInv
<1>2. n \in Text
  BY <1>1, NamesAssumption, TypesOfTexts DEF TypeOK
<1>3. pc' = "sent" /\ kind' = k /\ name' = n /\ index' = i /\ known' = known
  OBVIOUS
<1>4. TypeOK'
  <2>1. message' \in Text
    BY <1>2, RequestIs
  <2>2. << >> \in Text /\ << >> \in Seq(Indexes)
    BY EmptySeq DEF Text
  <2>3. result' \in IF kind' = "avail" THEN Seq(Indexes) ELSE Text
    BY <2>2
  <2> QED
    BY <1>1, <1>2, <2>1, <2>3 DEF TypeOK
<1>5. LibraryIsFinite' /\ NamesAreWhole'
  BY DEF WireInv, LibraryIsFinite, NamesAreWhole
<1>6. AskedByKnownName'
  BY DEF AskedByKnownName, Kinds
<1>7. RequestFits'
  BY DEF RequestFits
<1>8. ReadingFits' /\ AnswerIsOwn'
  BY <1>3 DEF ReadingFits, AnswerIsOwn
<1>9. ListArrives' /\ AnswerFits' /\ RequestIsAnswered'
  BY <1>3 DEF ListArrives, AnswerFits, RequestIsAnswered
<1> QED
  BY <1>4, <1>5, <1>6, <1>7, <1>8, <1>9 DEF WireInv

LEMMA CreateKeepsInv ==
  ASSUME WireInv, Create
  PROVE  WireInv'
<1> USE DEF asking
<1>1. TypeOK /\ message = RequestText(kind, name, index) /\ (kind = "chunk" => name \in known)
  BY DEF WireInv, RequestFits, AskedByKnownName, Create
<1>2. /\ kind \in Kinds /\ name \in Text /\ index \in Indexes \union {NoIndex}
      /\ message \in Text
  BY <1>1 DEF TypeOK
<1>3. /\ pc' = "served"
      /\ UNCHANGED <<library, known, kind, name, index, message, result>>
      /\ handler' \in KindsRead(message)
      /\ asked' = [name |-> IF handler' \in {"list", "bad"} THEN << >> ELSE ReadName(message),
                   index |-> IF handler' = "chunk" THEN ReadIndex(message) ELSE NoIndex]
  BY DEF Create
<1>4. handler' \in {kind} \union IF kind = "list" THEN {"bad"} ELSE {}
  BY <1>1, <1>2, <1>3, KindReadBack
<1>5. kind = "chunk" => Whole(name)
  BY <1>1 DEF WireInv, NamesAreWhole
<1>6. kind = "chunk" =>
        IF EndsWithBar(name)
          THEN ReadName(message) = Front(name) /\ ReadIndex(message) = NoIndex
          ELSE ReadName(message) = name /\ ReadIndex(message) = index
  BY <1>1, <1>2, <1>5, ChunkReadBack
<1>7. kind \in {"file", "avail"} => ReadName(message) = Heard(name)
  BY <1>1, <1>2, NameReadBack
<1>8. TypeOK'
  <2>1. asked'.name \in Text
    BY <1>2, <1>3, WhatIsRead, TypesOfTexts
  <2>2. asked'.index \in Indexes \union {NoIndex}
    <3>1. CASE handler' = "chunk"
      <4>1. kind = "chunk"
        BY <1>4, <3>1
      <4> QED
        BY <1>2, <1>3, <1>6, <4>1
    <3>2. CASE handler' # "chunk"
      BY <1>3, <3>2
    <3> QED
      BY <3>1, <3>2
  <2>3. asked' = [name |-> asked'.name, index |-> asked'.index]
    BY <1>3
  <2>4. asked' \in [name : Text, index : Indexes \union {NoIndex}]
    BY <2>1, <2>2, <2>3
  <2>5. handler' \in Kinds \union {"bad"}
    BY <1>2, <1>4
  <2> QED
    BY <1>1, <1>3, <2>4, <2>5 DEF TypeOK
<1>9. LibraryIsFinite' /\ NamesAreWhole' /\ AskedByKnownName'
  BY <1>3 DEF WireInv, LibraryIsFinite, NamesAreWhole, AskedByKnownName
<1>10. RequestFits' /\ AnswerIsOwn'
  BY <1>3 DEF RequestFits, AnswerIsOwn
<1>11. ReadingFits'
  <2>1. ASSUME kind \in {"file", "avail"} PROVE asked'.name = Heard(name)
    <3>1. handler' = kind /\ handler' \notin {"list", "bad"}
      BY <1>4, <2>1
    <3> QED
      BY <1>3, <1>7, <2>1, <3>1
  <2>2. ASSUME kind = "chunk"
        PROVE  IF EndsWithBar(name)
                 THEN asked'.name = Front(name) /\ asked'.index = NoIndex
                 ELSE asked'.name = name /\ asked'.index = index
    <3>1. handler' = "chunk"
      BY <1>4, <2>2
    <3> QED
      BY <1>3, <1>6, <2>2, <3>1
  <2> QED
    BY <1>3, <1>4, <2>1, <2>2 DEF ReadingFits
<1>12. ListArrives' /\ AnswerFits' /\ RequestIsAnswered'
  BY <1>3 DEF ListArrives, AnswerFits, RequestIsAnswered
<1> QED
  BY <1>8, <1>9, <1>10, <1>11, <1>12 DEF WireInv

LEMMA OpenedChunksAre ==
  ASSUME TypeOK, NEW n \in DOMAIN library
  PROVE  /\ OpenedChunks(n) \in Seq(Indexes)
         /\ ToSet(OpenedChunks(n)) = ToSet(library[n].chunks)
<1>1. library[n].chunks \in Seq(Indexes)
  BY DEF TypeOK
<1> QED
  BY <1>1, TwiceTheSame DEF OpenedChunks

LEMMA ProcessRequestKeepsInv ==
  ASSUME WireInv, ProcessRequest
  PROVE  WireInv'
<1> USE DEF asking, serving
<1>1. TypeOK /\ IsFiniteSet(DOMAIN library)
  BY DEF WireInv, LibraryIsFinite
<1>2. /\ handler \in {kind} \union IF kind = "list" THEN {"bad"} ELSE {}
      /\ kind \in Kinds
  BY <1>1 DEF WireInv, ReadingFits, ProcessRequest, TypeOK
<1>3. message' \in
        IF handler = "list" THEN {SerializeList(names) : names \in SetToSeqs(DOMAIN library)}
        ELSE IF handler = "bad" \/ asked.name \notin DOMAIN library THEN {<< >>}
        ELSE Answers
  BY DEF ProcessRequest
<1>4. /\ pc = "served" /\ pc' = "answered"
      /\ UNCHANGED <<library, known, kind, name, index, handler, asked, result>>
  BY DEF ProcessRequest
<1>5. ASSUME kind = "list" PROVE TypeOK' /\ AnswerIsOwn'
  <2>1. handler \in {"list", "bad"}
    BY <1>2, <1>5
  <2>2. CASE handler = "list"
    <3>1. PICK names \in SetToSeqs(DOMAIN library) : message' = SerializeList(names)
      BY <1>3, <2>2
    <3>2. names \in Seq(DOMAIN library)
      BY <1>1, ListsOfSet
    <3>3. \A i \in 1..Len(names) : names[i] \in Text /\ names[i] # << >>
      BY <1>1, <3>2, ElementOfSeq, NamesAssumption DEF TypeOK
    <3>4. names \in Seq(Text)
      BY <1>1, <3>2, SeqMonotonic, NamesAssumption DEF TypeOK
    <3>5. message' \in Text
      BY <3>1, <3>3, <3>4, SerializeListIsText
    <3>6. TypeOK' /\ AnswerIsOwn'
      BY <1>1, <1>4, <1>5, <3>1, <3>5 DEF TypeOK, AnswerIsOwn
    <3> QED
      BY <3>6
  <2>3. CASE handler = "bad"
    <3>1. message' = << >>
      BY <1>3, <2>3
    <3>2. TypeOK' /\ AnswerIsOwn'
      BY <1>1, <1>4, <1>5, <2>3, <3>1, TypesOfTexts DEF TypeOK, AnswerIsOwn
    <3> QED
      BY <3>2
  <2> QED
    BY <2>1, <2>2, <2>3
<1>6. ASSUME kind # "list" PROVE TypeOK' /\ AnswerIsOwn'
  <2>1. handler = kind /\ handler \notin {"list", "bad"} /\ handler \in {"file", "avail", "chunk"}
    BY <1>2, <1>6 DEF Kinds
  <2>2. asked.name \notin DOMAIN library => message' = << >>
    BY <1>3, <2>1
  <2>3. asked.name \in DOMAIN library => message' \in Answers
    BY <1>3, <2>1
  <2>4. asked.name \in Text /\ asked.index \in Indexes \union {NoIndex}
    BY <1>1 DEF TypeOK
  <2>5. asked.name \in DOMAIN library => SerializeAvail(OpenedChunks(asked.name)) \in Text
    BY <1>1, OpenedChunksAre, AvailReadBack
  <2>6. message' \in Text
    <3>1. CASE asked.name \in DOMAIN library
      <4>1. ReadFrom(asked.name, asked.index) \subseteq Text
        BY <2>4, TypesOfTexts DEF ReadFrom
      <4>2. Answers \subseteq Text
        BY <2>1, <2>4, <2>5, <3>1, <4>1, TypesOfTexts DEF Answers
      <4> QED
        BY <2>3, <3>1, <4>2
    <3> QED
      BY <2>2, <3>1, TypesOfTexts
  <2>7. TypeOK'
    BY <1>1, <1>4, <2>6 DEF TypeOK
  <2>8. Answers' = Answers
    BY <1>4 DEF Answers, ReadFrom, OpenedChunks
  <2>9. AnswerIsOwn'
    BY <1>4, <1>6, <2>2, <2>3, <2>8 DEF AnswerIsOwn
  <2> QED
    BY <2>7, <2>9
<1>7. LibraryIsFinite' /\ NamesAreWhole' /\ AskedByKnownName'
  BY <1>4 DEF WireInv, LibraryIsFinite, NamesAreWhole, AskedByKnownName
<1>8. RequestFits' /\ ReadingFits'
  BY <1>4 DEF WireInv, RequestFits, ReadingFits
<1>9. ListArrives' /\ AnswerFits' /\ RequestIsAnswered'
  BY <1>4 DEF ListArrives, AnswerFits, RequestIsAnswered
<1>10. TypeOK' /\ AnswerIsOwn'
  BY <1>5, <1>6
<1> QED
  BY <1>7, <1>8, <1>9, <1>10 DEF WireInv

\* A plain name is a field.
LEMMA PlainIsField ==
  ASSUME NEW n \in Names, Plain(n)
  PROVE  IsField(n)
<1>1. n[Len(n)] # Bar /\ \A c \in 1..(Len(n) - 1) : ~(n[c] = Bar /\ n[c + 1] = Bar)
  BY DEF Plain, Sep
<1> QED
  BY <1>1 DEF IsField, Whole, EndsWithBar, Last

LEMMA ProcessResponseKeepsInv ==
  ASSUME WireInv, ProcessResponse
  PROVE  WireInv'
<1> USE DEF asking, serving
<1>1. TypeOK /\ IsFiniteSet(DOMAIN library) /\ NamesAreWhole /\ AskedByKnownName
  BY DEF WireInv, LibraryIsFinite
<1>2. /\ pc = "answered" /\ pc' = "done"
      /\ UNCHANGED <<library, kind, name, index, handler, asked>>
      /\ known' = IF kind = "list" THEN ToSet(Tokenize(message)) ELSE known
      /\ result' = CASE kind = "list" -> << >>
                     [] kind = "avail" -> ParseAvail(message)
                     [] OTHER -> message
      /\ message' = << >>
  BY DEF ProcessResponse
<1>3. /\ handler \in {kind} \union IF kind = "list" THEN {"bad"} ELSE {}
      /\ kind \in {"file", "avail"} => asked.name = Heard(name)
      /\ kind = "chunk" =>
           IF EndsWithBar(name) THEN asked.name = Front(name) /\ asked.index = NoIndex
                                ELSE asked.name = name /\ asked.index = index
  BY <1>2 DEF WireInv, ReadingFits
<1>4. /\ kind = "list" /\ handler = "list" =>
           \E names \in SetToSeqs(DOMAIN library) : message = SerializeList(names)
      /\ kind # "list" /\ asked.name \notin DOMAIN library => message = << >>
      /\ kind # "list" /\ asked.name \in DOMAIN library => message \in Answers
  BY <1>2 DEF WireInv, AnswerIsOwn
<1>5. kind \in Kinds /\ message \in Text
  BY <1>1 DEF TypeOK
<1>6. known' \subseteq Text /\ NamesAreWhole'
  <2>1. CASE kind = "list"
    <3>1. \A n \in known' : n \in Text /\ Whole(n)
      BY <1>2, <1>5, <2>1, TokensAreWhole
    <3> QED
      BY <3>1 DEF NamesAreWhole
  <2>2. CASE kind # "list"
    BY <1>1, <1>2, <2>2 DEF TypeOK, NamesAreWhole
  <2> QED
    BY <2>1, <2>2
<1>7. ASSUME kind = "file"
      PROVE  /\ result' \in Text
             /\ result' \in {<< >>, File(Heard(name))}
             /\ Heard(name) \in DOMAIN library /\ library[Heard(name)].opens =>
                  result' = File(Heard(name))
  <2>1. result' = message
    BY <1>2, <1>7
  <2>2. handler = "file" /\ asked.name = Heard(name)
    BY <1>3, <1>7
  <2>3. Answers = IF library[Heard(name)].opens THEN {File(Heard(name))} ELSE {<< >>}
    BY <2>2 DEF Answers
  <2> QED
    BY <1>4, <1>5, <1>7, <2>1, <2>2, <2>3
<1>8. ASSUME kind = "avail"
      PROVE  /\ result' \in Seq(Indexes)
             /\ result' # << >> =>
                  /\ Heard(name) \in DOMAIN library
                  /\ ToSet(result') = ToSet(library[Heard(name)].chunks)
             /\ Heard(name) \in DOMAIN library /\ library[Heard(name)].opens =>
                  ToSet(result') = ToSet(library[Heard(name)].chunks)
  <2>1. result' = ParseAvail(message)
    BY <1>2, <1>8
  <2>2. handler = "avail" /\ asked.name = Heard(name)
    BY <1>3, <1>8
  <2>3. Answers = IF library[Heard(name)].opens THEN {SerializeAvail(OpenedChunks(Heard(name)))}
                                                ELSE {<< >>}
    BY <2>2 DEF Answers
  <2>4. << >> \in Seq(Indexes)
    BY EmptySeq
  <2>5. CASE Heard(name) \in DOMAIN library /\ library[Heard(name)].opens
    <3>1. message = SerializeAvail(OpenedChunks(Heard(name)))
      BY <1>4, <1>8, <2>2, <2>3, <2>5
    <3>2. /\ OpenedChunks(Heard(name)) \in Seq(Indexes)
          /\ ToSet(OpenedChunks(Heard(name))) = ToSet(library[Heard(name)].chunks)
      BY <1>1, <2>5, OpenedChunksAre
    <3>3. ParseAvail(message) = OpenedChunks(Heard(name))
      BY <3>1, <3>2, AvailReadBack
    <3> QED
      BY <2>1, <2>5, <3>2, <3>3
  <2>6. CASE ~(Heard(name) \in DOMAIN library /\ library[Heard(name)].opens)
    <3>1. message = << >>
      BY <1>4, <1>8, <2>2, <2>3, <2>6
    <3>2. result' = << >>
      BY <2>1, <3>1, NoAvail
    <3> QED
      BY <2>4, <2>6, <3>2
  <2> QED
    BY <2>5, <2>6
<1>9. ASSUME kind = "chunk"
      PROVE  /\ result' \in Text
             /\ EndsWithBar(name) => result' \in {<< >>, Data(Front(name), NoIndex)}
             /\ ~EndsWithBar(name) => result' \in {<< >>, Data(name, index)}
             /\ /\ name \in DOMAIN library /\ library[name].opens
                /\ ~EndsWithBar(name) /\ index # NoIndex
                => result' = Data(name, index)
  <2>1. result' = message /\ handler = "chunk"
    BY <1>2, <1>3, <1>9
  <2>2. Answers = IF library[asked.name].opens THEN ReadFrom(asked.name, asked.index)
                                               ELSE {<< >>}
    BY <2>1 DEF Answers
  <2>3. message \in {<< >>, Data(asked.name, asked.index)}
    BY <1>4, <1>9, <2>2 DEF ReadFrom
  <2>4. ASSUME name \in DOMAIN library, library[name].opens, ~EndsWithBar(name), index # NoIndex
        PROVE  message = Data(name, index)
    <3>1. asked.name = name /\ asked.index = index
      BY <1>3, <1>9, <2>4
    <3> QED
      BY <1>4, <1>9, <2>2, <2>4, <3>1 DEF ReadFrom
  <2> QED
    BY <1>3, <1>5, <1>9, <2>1, <2>3, <2>4
<1>10. TypeOK'
  <2>1. result' \in IF kind' = "avail" THEN Seq(Indexes) ELSE Text
    <3>1. kind = "list" => result' = << >>
      BY <1>2
    <3>2. kind \in {"list", "file", "avail", "chunk"}
      BY <1>5 DEF Kinds
    <3> QED
      BY <1>2, <1>7, <1>8, <1>9, <3>1, <3>2, TypesOfTexts
  <2> QED
    BY <1>1, <1>2, <1>6, <2>1, TypesOfTexts DEF TypeOK
<1>11. LibraryIsFinite' /\ AskedByKnownName'
  <2>1. AskedByKnownName'
    BY <1>1, <1>2 DEF AskedByKnownName
  <2>2. LibraryIsFinite'
    BY <1>1, <1>2 DEF LibraryIsFinite
  <2> QED
    BY <2>1, <2>2
<1>12. RequestFits' /\ ReadingFits' /\ AnswerIsOwn'
  BY <1>2 DEF RequestFits, ReadingFits, AnswerIsOwn
<1>13. ListArrives'
  <2> SUFFICES ASSUME kind = "list", handler = "list", library # << >>,
                      \A n \in DOMAIN library : Plain(n)
               PROVE  known' = DOMAIN library
    BY <1>2 DEF ListArrives
  <2>1. PICK names \in SetToSeqs(DOMAIN library) : message = SerializeList(names)
    BY <1>4
  <2>2. names \in Seq(DOMAIN library) /\ ToSet(names) = DOMAIN library
    BY <1>1, ListsOfSet
  <2>3. DOMAIN library \subseteq Names
    BY <1>1 DEF TypeOK
  <2>4. \A i \in 1..Len(names) : names[i] # << >> /\ IsField(names[i])
    BY <2>2, <2>3, ElementOfSeq, PlainIsField, NamesAssumption
  <2>5. names \in Seq(Text)
    BY <2>2, <2>3, SeqMonotonic, NamesAssumption
  <2>6. names # << >>
    <3> SUFFICES ASSUME names = << >> PROVE FALSE
      OBVIOUS
    <3>1. Len(names) = 0 /\ DOMAIN names = 1..Len(names)
      BY <2>2, EmptySeq, LenProperties
    <3>2. DOMAIN library = {}
      BY <2>2, <3>1 DEF ToSet
    <3> QED
      BY <3>2
  <2>7. Tokenize(message) = names
    BY <2>1, <2>4, <2>5, <2>6, ListReadBack
  <2> QED
    BY <1>2, <2>2, <2>7
<1>14. AnswerFits'
  <2> SUFFICES
        /\ kind = "file" => result' \in {<< >>, File(Heard(name))}
        /\ kind = "avail" /\ result' # << >> =>
             /\ Heard(name) \in DOMAIN library
             /\ ToSet(result') = ToSet(library[Heard(name)].chunks)
        /\ kind = "chunk" =>
             \/ result' \in {<< >>, Data(name, index)}
             \/ Last(name) = Bar /\ result' = Data(Front(name), NoIndex)
    <3>1. Heard(name)' = Heard(name)
      BY <1>2 DEF Heard
    <3> QED
      BY <1>2, <3>1 DEF AnswerFits
  <2> QED
    BY <1>7, <1>8, <1>9 DEF EndsWithBar
<1>15. RequestIsAnswered'
  <2> SUFFICES ASSUME name \in DOMAIN library, library[name].opens, Plain(name)
               PROVE  /\ kind = "file" => result' = File(name)
                      /\ kind = "avail" => ToSet(result') = ToSet(library[name].chunks)
                      /\ kind = "chunk" /\ index # NoIndex => result' = Data(name, index)
    BY <1>2 DEF RequestIsAnswered
  <2>1. Whole(name) /\ ~EndsWithBar(name)
    BY <1>1, PlainIsField DEF TypeOK, IsField
  <2>2. Heard(name) = name
    BY <2>1, WholeIsHeard
  <2> QED
    BY <1>7, <1>8, <1>9, <2>1, <2>2
<1> QED
  BY <1>6, <1>10, <1>11, <1>12, <1>13, <1>14, <1>15 DEF WireInv

LEMMA StutterKeepsInv ==
  ASSUME WireInv, UNCHANGED vars
  PROVE  WireInv'
<1>1. /\ library' = library /\ known' = known /\ pc' = pc
      /\ kind' = kind /\ name' = name /\ index' = index
      /\ message' = message /\ handler' = handler /\ asked' = asked
      /\ result' = result
  BY DEF vars, asking, serving
<1>2. TypeOK'
  BY <1>1 DEF WireInv, TypeOK
<1>3. LibraryIsFinite' /\ NamesAreWhole' /\ AskedByKnownName'
  BY <1>1 DEF WireInv, LibraryIsFinite, NamesAreWhole, AskedByKnownName
<1>4. RequestFits' /\ ReadingFits'
  BY <1>1 DEF WireInv, RequestFits, ReadingFits
<1>5. AnswerIsOwn'
  <2>1. Answers' = Answers
    BY <1>1 DEF Answers, ReadFrom, OpenedChunks
  <2> QED
    BY <1>1, <2>1 DEF WireInv, AnswerIsOwn
<1>6. ListArrives' /\ AnswerFits' /\ RequestIsAnswered'
  BY <1>1 DEF WireInv, ListArrives, AnswerFits, RequestIsAnswered
<1> QED
  BY <1>2, <1>3, <1>4, <1>5, <1>6 DEF WireInv

LEMMA StepInv == WireInv /\ [Next]_vars => WireInv'
BY AskKeepsInv, CreateKeepsInv, ProcessRequestKeepsInv, ProcessResponseKeepsInv,
   StutterKeepsInv DEF Next

LEMMA InvAlways == Spec => []WireInv
BY InitInv, StepInv, PTL DEF Spec

-----------------------------------------------------------------------------
(* The properties. *)

\* What each side holds of the exchange keeps its type: a request is a text, for
\* any name, and the chunks that are parsed are indexes of chunks
\* (torrentAvailReq.cpp, processResponse).
THEOREM WireTypeOKTheorem == Spec => []TypeOK
<1>1. WireInv => TypeOK
  BY DEF WireInv
<1> QED
  BY <1>1, InvAlways, PTL

\* If all names of a peer are plain, all of them arrive and no other does, for
\* any characters of names and in any order in which the peer lists them
\* (torrentListReq.cpp, serializeTorrentList and parseTorrentList).
THEOREM ListArrivesTheorem == Spec => []ListArrives
<1>1. WireInv => ListArrives
  BY DEF WireInv
<1> QED
  BY <1>1, InvAlways, PTL

\* An answer about a torrent is about the one that the name asked for has before
\* its first two bars, for any names, told or typed, with bars anywhere, and
\* however the list of them was cut; but for a chunk by a name that ends with a
\* bar, which may come from the offset of -1 of the torrent whose name lacks the
\* bar (torrentFileReq.cpp, torrentAvailReq.cpp, chunkReq.cpp).
THEOREM AnswerFitsTheorem == Spec => []AnswerFits
<1>1. WireInv => AnswerFits
  BY DEF WireInv
<1> QED
  BY <1>1, InvAlways, PTL

\* A request by a plain name gets what it asks for, if the peer has the torrent
\* and can open it (node.cpp, processRequest).
THEOREM RequestIsAnsweredTheorem == Spec => []RequestIsAnswered
<1>1. WireInv => RequestIsAnswered
  BY DEF WireInv
<1> QED
  BY <1>1, InvAlways, PTL
=============================================================================
