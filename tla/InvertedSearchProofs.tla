------------------------ MODULE InvertedSearchProofs ------------------------
(***************************************************************************)
(* The windowed MaxScore search is exact: skipping terms, postings and     *)
(* documents by their bounds loses no result.                              *)
(*                                                                         *)
(* The invariant says where a query stands.  Its scorers add up to the     *)
(* score of every document (QueryInv); each is past all documents dealt    *)
(* with and, if essential, at none before those that are not (Reached);    *)
(* those not essential are together below the threshold (BoundInv); a slot *)
(* waiting to be evaluated has what the essential ones add (EvaluateInv);  *)
(* and the heap has a top k of the documents dealt with (Top).             *)
(***************************************************************************)
EXTENDS ExactSearch, DataTheorems

(* The scratch is clean ... *)
CleanInv ==
  /\ DOMAIN scores = Slots
  /\ ScratchClean

Postings == [doc : Docs, value : Nat]

(* What a scorer adds to document d. *)
At(sc, d)     == {j \in DOMAIN sc.list : sc.list[j].doc = d}
AddsOf(sc, d) ==
  IF At(sc, d) = {} THEN 0 ELSE sc.weight * sc.list[CHOOSE j \in At(sc, d) : TRUE].value
Adds(s, d)    == AddsOf(scorers[s], d)

(* What the scorers in X add to it together. *)
AddedBy(X, d) == SumOf([s \in X |-> Adds(s, d)])

(* A scorer's postings ascend, none adds more than its bound, and what the  *)
(* scorers add to a document makes its score.                               *)
IsScorer(s) ==
  /\ s.list \in Seq(Postings) /\ s.weight \in Nat /\ s.bound \in Nat
  /\ Len(s.list) <= Len(rows)
  /\ \A i, j \in DOMAIN s.list : i < j => s.list[i].doc < s.list[j].doc
  /\ \A j \in DOMAIN s.list : s.weight * s.list[j].value <= s.bound

QueryInv ==
  /\ rows \in Corpora
  /\ lists = [t \in 0 .. Dim - 1 |-> ListOf(rows, t)]
  /\ query \in Seq([term : Nat, weight : Nat])
  /\ k \in Ks \union {1}
  /\ DOMAIN scorers = 1 .. Len(scorers) /\ Len(scorers) \in Nat
  /\ \A s \in Scorers : IsScorer(scorers[s])
  /\ \A d \in Docs : Score(d) = AddedBy(Scorers, d)

PlaceInv ==
  /\ pos \in [Scorers -> Nat]
  /\ \A s \in Scorers : pos[s] \in 1 .. Len(scorers[s].list) + 1
  /\ first \in 0 .. Len(scorers)
  /\ base \in Nat
  /\ bits \subseteq Slots
  /\ scores \in [Slots -> Nat]

(* The scorers that are not essential cannot lift a document into the heap. *)
BoundInv == InQuery => \A i \in 1 .. first : Full /\ Prefix(i) < Threshold

(* The documents of D that match: f gives them a score, sel accepts them.   *)
Matching(D, f, sel) == {d \in D \intersect DOMAIN f : d \in sel /\ f[d] > 0}

ScoreOf     == [d \in Docs |-> Score(d)]
Top(h, D)   == IsTop(h, ScoreOf, k, Matching(D, ScoreOf, selected))

Behind(s, d) == \A j \in 1 .. pos[s] - 1 : scorers[s].list[j].doc < d
Ahead(s, d)  == \A j \in pos[s] .. Len(scorers[s].list) : d <= scorers[s].list[j].doc

(* All documents below d are dealt with, and no other. *)
Reached(d) ==
  /\ \A s \in Scorers : Behind(s, d)
  /\ \A s \in Essential : Ahead(s, d)

Upto(d) == {e \in Docs : e < d}

IsWindow(d) == \E w \in Nat : d = w * WindowSize

PartitionInv ==
  pc = "partition" =>
    \E d \in Nat : /\ IsWindow(d)
                   /\ Reached(d)
                   /\ Top(heap, Upto(d))
                   /\ heap # EmptyBag => d = base + WindowSize

ScoreInv ==
  pc = "score" => IsWindow(base) /\ Reached(base) /\ Top(heap, Upto(base))

Waiting == {base + slot : slot \in bits}

EvaluateInv ==
  pc = "evaluate" =>
    /\ IsWindow(base)
    /\ Reached(base + WindowSize)
    /\ \A slot \in bits :
         /\ base + slot \in Docs
         /\ scores[slot] = AddedBy(Essential, base + slot)
         /\ \A s \in 1 .. first : Behind(s, base + slot)
    /\ Top(heap, Upto(base + WindowSize) \ Waiting)

ResultInv ==
  /\ pc = "drain" => Top(heap, Docs)
  /\ pc = "idle" => result = heap /\ Top(result, Docs)
  /\ pc # "idle" => result = EmptyBag

IInv ==
  /\ pc \in {"idle", "partition", "score", "evaluate", "drain"}
  /\ CleanInv /\ QueryInv /\ PlaceInv /\ BoundInv
  /\ PartitionInv /\ ScoreInv /\ EvaluateInv /\ ResultInv
-----------------------------------------------------------------------------
(* The postings of a term are those of the corpus, by ascending document.   *)
IsListOf(L, c, t) ==
  /\ Len(c) \in Nat
  /\ L \in Seq([doc : 0 .. Len(c) - 1, value : Nat])
  /\ Len(L) <= Len(c)
  /\ \A i, j \in DOMAIN L : i < j => L[i].doc < L[j].doc
  /\ \A j \in DOMAIN L : t \in DOMAIN c[L[j].doc + 1] /\ L[j].value = c[L[j].doc + 1][t]
  /\ \A d \in 0 .. Len(c) - 1 : t \in DOMAIN c[d + 1] => \E j \in DOMAIN L : L[j].doc = d

LEMMA ListFacts ==
  ASSUME NEW c, IsCorpus(c), NEW t
  PROVE  IsListOf(ListOf(c, t), c, t)
<1> DEFINE S == {d \in 0 .. Len(c) - 1 : t \in DOMAIN c[d + 1]}
           a == Ascending(S)
           n == Cardinality(S)
           L == [j \in DOMAIN a |-> [doc |-> a[j], value |-> c[a[j] + 1][t]]]
<1>1. Len(c) \in Nat /\ \A i \in 1 .. Len(c) : IsRow(c[i])
  BY DEF IsCorpus
<1>2. S \subseteq 0 .. Len(c)
  BY <1>1
<1>3. n \in Nat /\ a \in [1 .. n -> S] /\ Ascends(a)
  <2> HIDE DEF S
  <2> QED
    BY <1>1, <1>2, AscendingAscends
<1>4. \A d \in S : \E j \in DOMAIN a : a[j] = d
  <2> HIDE DEF S
  <2> QED
    BY <1>1, <1>2, AscendingHasAll
<1>5. n <= Len(c)
  <2>1. IsFiniteSet(0 .. Len(c) - 1) /\ Cardinality(0 .. Len(c) - 1) = Len(c)
    <3> DEFINE m == Len(c) - 1
    <3>1. m \in Int /\ m >= -1 /\ Len(c) = m + 1
      BY <1>1
    <3> HIDE DEF m
    <3>2. IsFiniteSet(0 .. m) /\ Cardinality(0 .. m) = IF 0 > m THEN 0 ELSE m - 0 + 1
      BY <3>1, FS_Interval
    <3>3. Cardinality(0 .. m) = Len(c)
      BY <3>1, <3>2
    <3> QED
      BY <3>2, <3>3 DEF m
  <2>2. S \in SUBSET (0 .. Len(c) - 1)
    OBVIOUS
  <2> HIDE DEF S
  <2> QED
    BY <2>1, <2>2, FS_Subset
<1>6. ListOf(c, t) = L
  BY DEF ListOf
<1>7. \A j \in 1 .. n : /\ a[j] \in 0 .. Len(c) - 1 /\ t \in DOMAIN c[a[j] + 1]
                        /\ c[a[j] + 1][t] \in Nat
  <2> SUFFICES ASSUME NEW j \in 1 .. n
               PROVE  /\ a[j] \in 0 .. Len(c) - 1 /\ t \in DOMAIN c[a[j] + 1]
                      /\ c[a[j] + 1][t] \in Nat
    OBVIOUS
  <2>1. a[j] \in S
    <3> HIDE DEF S, a
    <3> QED
      BY <1>3
  <2>2. a[j] \in 0 .. Len(c) - 1 /\ t \in DOMAIN c[a[j] + 1]
    BY <2>1
  <2>3. a[j] + 1 \in 1 .. Len(c)
    BY <1>1, <2>2
  <2>4. IsRow(c[a[j] + 1])
    BY <1>1, <2>3
  <2> HIDE DEF a
  <2> QED
    BY <2>2, <2>4 DEF IsRow
<1> HIDE DEF a
<1>8. DOMAIN a = 1 .. n /\ DOMAIN L = 1 .. n
  BY <1>3
<1>9. \A j \in 1 .. n : L[j].doc = a[j] /\ L[j].value = c[a[j] + 1][t]
                        /\ L[j] \in [doc : 0 .. Len(c) - 1, value : Nat]
  BY <1>7, <1>8
<1> HIDE DEF n
<1>10. L \in Seq([doc : 0 .. Len(c) - 1, value : Nat]) /\ Len(L) = n
  <2> DEFINE X == [doc : 0 .. Len(c) - 1, value : Nat]
  <2>1. L \in [1 .. n -> X]
    BY <1>8, <1>9
  <2>2. n \in Nat
    BY <1>3
  <2> HIDE DEF L, X
  <2>3. L \in Seq(X) /\ Len(L) = n
    BY <2>1, <2>2, FunctionIsSequence
  <2> QED
    BY <2>3 DEF X
<1>11. \A i, j \in DOMAIN L : i < j => L[i].doc < L[j].doc
  BY <1>3, <1>8, <1>9 DEF Ascends
<1>12. \A j \in DOMAIN L : /\ t \in DOMAIN c[L[j].doc + 1]
                           /\ L[j].value = c[L[j].doc + 1][t]
  BY <1>7, <1>8, <1>9
<1>13. \A d \in 0 .. Len(c) - 1 : t \in DOMAIN c[d + 1] => \E j \in DOMAIN L : L[j].doc = d
  BY <1>4, <1>8, <1>9
<1> HIDE DEF L
<1> QED
  BY <1>1, <1>5, <1>6, <1>10, <1>11, <1>12, <1>13 DEF IsListOf

LEMMA MaxValueBounds ==
  ASSUME NEW D, NEW list \in Seq([doc : D, value : Nat])
  PROVE  MaxValue(list) \in Nat /\ \A j \in DOMAIN list : list[j].value <= MaxValue(list)
<1> DEFINE V == {list[j].value : j \in 1 .. Len(list)}
           f == [j \in 1 .. Len(list) |-> list[j].value]
           W == {0} \union V
<1>1. Len(list) \in Nat /\ DOMAIN list = 1 .. Len(list)
  OBVIOUS
<1>2. \A j \in 1 .. Len(list) : list[j].value \in Nat
  <2> SUFFICES ASSUME NEW j \in 1 .. Len(list)
               PROVE  list[j].value \in Nat
    OBVIOUS
  <2>1. list[j] \in [doc : D, value : Nat]
    BY <1>1, SequenceElement
  <2> QED
    BY <2>1
<1>3. f \in Surjection(1 .. Len(list), V)
  BY DEF Surjection
<1>4. IsFiniteSet(1 .. Len(list))
  BY <1>1, FS_Interval
<1>5. IsFiniteSet(V)
  <2> HIDE DEF f, V
  <2> QED
    BY <1>3, <1>4, FS_Surjection
<1>6. W \subseteq Nat /\ W # {} /\ \A j \in DOMAIN list : list[j].value \in W
  BY <1>1, <1>2
<1>7. IsFiniteSet(W)
  <2>1. W = V \union {0}
    OBVIOUS
  <2> HIDE DEF V, W
  <2> QED
    BY <1>5, <2>1, FS_AddElement
<1>8. MaxValue(list) = Max(W)
  BY DEF MaxValue
<1> HIDE DEF W
<1>9. \E m \in W : \A x \in W : x <= m
  BY <1>6, <1>7, FiniteGreatest
<1>10. Max(W) \in W /\ \A x \in W : x <= Max(W)
  <2>1. \E m \in W : \A x \in W : m >= x
    BY <1>6, <1>9
  <2>2. Max(W) \in W /\ \A x \in W : Max(W) >= x
    BY <2>1 DEF Max
  <2> QED
    BY <1>6, <2>2
<1> QED
  BY <1>6, <1>8, <1>10

(* What a query's scorer stands for: the term's postings, if the index has  *)
(* the term.                                                                *)
LEMMA ScorerFacts ==
  ASSUME IsCorpus(rows), lists = [t \in 0 .. Dim - 1 |-> ListOf(rows, t)],
         NEW q \in [term : Nat, weight : Nat]
  PROVE  /\ IsScorer(ScorerOf(q))
         /\ ScorerOf(q).weight = q.weight
         /\ \A j \in DOMAIN ScorerOf(q).list :
              LET d == ScorerOf(q).list[j].doc
              IN  q.term \in DOMAIN rows[d + 1] /\ ScorerOf(q).list[j].value = rows[d + 1][q.term]
         /\ \A d \in Docs : q.term \in DOMAIN rows[d + 1] =>
              \E j \in DOMAIN ScorerOf(q).list : ScorerOf(q).list[j].doc = d
<1>1. CASE q.term < Dim
  <2> DEFINE L == ListOf(rows, q.term)
  <2>1. q.term \in 0 .. Dim - 1 /\ lists[q.term] = L
    BY <1>1, DimAssumption
  <2>2. ScorerOf(q) = [list |-> L, weight |-> q.weight, bound |-> q.weight * MaxValue(L)]
    BY <1>1, <2>1 DEF ScorerOf
  <2>3. /\ L \in Seq(Postings)
        /\ Len(L) <= Len(rows)
        /\ \A i, j \in DOMAIN L : i < j => L[i].doc < L[j].doc
        /\ \A j \in DOMAIN L : /\ q.term \in DOMAIN rows[L[j].doc + 1]
                               /\ L[j].value = rows[L[j].doc + 1][q.term]
        /\ \A d \in Docs : q.term \in DOMAIN rows[d + 1] => \E j \in DOMAIN L : L[j].doc = d
    <3>1. IsListOf(L, rows, q.term)
      BY ListFacts
    <3> HIDE DEF L
    <3> QED
      BY <3>1 DEF IsListOf, Postings, Docs
  <2> HIDE DEF L
  <2>4. MaxValue(L) \in Nat /\ \A j \in DOMAIN L : L[j].value <= MaxValue(L)
    BY <2>3, MaxValueBounds DEF Postings
  <2>5. \A j \in DOMAIN L : L[j].value \in Nat
    <3> SUFFICES ASSUME NEW j \in DOMAIN L
                 PROVE  L[j].value \in Nat
      OBVIOUS
    <3>1. L[j] \in Postings
      BY <2>3, SequenceElement
    <3> QED
      BY <3>1 DEF Postings
  <2>6. \A j \in DOMAIN L : q.weight * L[j].value <= q.weight * MaxValue(L)
    <3> SUFFICES ASSUME NEW j \in DOMAIN L
                 PROVE  q.weight * L[j].value <= q.weight * MaxValue(L)
      OBVIOUS
    <3> DEFINE v == L[j].value
               m == MaxValue(L)
               w == q.weight
    <3>1. v \in Nat /\ m \in Nat /\ w \in Nat /\ v <= m
      BY <2>4, <2>5
    <3> HIDE DEF v, m, w
    <3>2. w * v <= w * m
      BY <3>1
    <3> QED
      BY <3>2 DEF v, m, w
  <2>7. q.weight \in Nat /\ q.weight * MaxValue(L) \in Nat
    BY <2>4
  <2>8. IsScorer(ScorerOf(q))
    BY <2>2, <2>3, <2>6, <2>7 DEF IsScorer
  <2> QED
    BY <2>2, <2>3, <2>8
<1>2. CASE ~(q.term < Dim)
  <2>1. ScorerOf(q) = [list |-> <<>>, weight |-> q.weight, bound |-> 0]
    BY <1>2 DEF ScorerOf
  <2>2. Len(rows) \in Nat /\ \A i \in 1 .. Len(rows) : IsRow(rows[i])
    BY DEF IsCorpus
  <2>3. \A d \in Docs : q.term \notin DOMAIN rows[d + 1]
    <3> SUFFICES ASSUME NEW d \in Docs
                 PROVE  q.term \notin DOMAIN rows[d + 1]
      OBVIOUS
    <3>1. d + 1 \in 1 .. Len(rows)
      BY <2>2 DEF Docs
    <3>2. DOMAIN rows[d + 1] \subseteq 0 .. Dim - 1
      BY <2>2, <3>1 DEF IsRow
    <3> QED
      BY <1>2, <3>2, DimAssumption
  <2>4. <<>> \in Seq(Postings) /\ Len(<<>>) = 0 /\ DOMAIN <<>> = {}
    OBVIOUS
  <2>5. IsScorer(ScorerOf(q))
    <3>1. q.weight \in Nat
      OBVIOUS
    <3> QED
      BY <2>1, <2>2, <2>4, <3>1 DEF IsScorer
  <2> QED
    BY <2>1, <2>3, <2>4, <2>5
<1> QED
  BY <1>1, <1>2

(* A scorer adds to a document what its one posting of it is worth.         *)
LEMMA AddsFacts ==
  ASSUME NEW sc, IsScorer(sc)
  PROVE  /\ \A j \in DOMAIN sc.list : AddsOf(sc, sc.list[j].doc) = sc.weight * sc.list[j].value
         /\ \A d : (\A j \in DOMAIN sc.list : sc.list[j].doc # d) => AddsOf(sc, d) = 0
         /\ \A d : AddsOf(sc, d) \in Nat /\ AddsOf(sc, d) <= sc.bound
<1>1. \A j \in DOMAIN sc.list : sc.list[j].doc \in Int /\ sc.list[j].value \in Nat
  <2> SUFFICES ASSUME NEW j \in DOMAIN sc.list
               PROVE  sc.list[j].doc \in Int /\ sc.list[j].value \in Nat
    OBVIOUS
  <2>1. sc.list \in Seq(Postings)
    BY DEF IsScorer
  <2>2. sc.list[j] \in Postings
    BY <2>1, SequenceElement
  <2> QED
    BY <2>2 DEF Postings, Docs
<1>2. \A i, j \in DOMAIN sc.list : sc.list[i].doc = sc.list[j].doc => i = j
  <2> SUFFICES ASSUME NEW i \in DOMAIN sc.list, NEW j \in DOMAIN sc.list,
                      sc.list[i].doc = sc.list[j].doc
               PROVE  i = j
    OBVIOUS
  <2>1. sc.list \in Seq(Postings)
    BY DEF IsScorer
  <2>2. i \in Int /\ j \in Int
    BY <2>1
  <2>3. ~(i < j) /\ ~(j < i)
    BY <1>1 DEF IsScorer
  <2> QED
    BY <2>2, <2>3
<1>3. ASSUME NEW j \in DOMAIN sc.list
      PROVE  AddsOf(sc, sc.list[j].doc) = sc.weight * sc.list[j].value
  <2>1. At(sc, sc.list[j].doc) = {j}
    BY <1>2 DEF At
  <2> QED
    BY <2>1 DEF AddsOf
<1>4. ASSUME NEW d, \A j \in DOMAIN sc.list : sc.list[j].doc # d
      PROVE  AddsOf(sc, d) = 0
  <2>1. At(sc, d) = {}
    BY <1>4 DEF At
  <2> QED
    BY <2>1 DEF AddsOf
<1>5. ASSUME NEW d
      PROVE  AddsOf(sc, d) \in Nat /\ AddsOf(sc, d) <= sc.bound
  <2>1. sc.weight \in Nat /\ sc.bound \in Nat
    BY DEF IsScorer
  <2>2. CASE \A j \in DOMAIN sc.list : sc.list[j].doc # d
    BY <1>4, <2>1, <2>2
  <2>3. CASE \E j \in DOMAIN sc.list : sc.list[j].doc = d
    <3>1. PICK j \in DOMAIN sc.list : sc.list[j].doc = d
      BY <2>3
    <3>2. AddsOf(sc, d) = sc.weight * sc.list[j].value
      BY <1>3, <3>1
    <3>3. sc.weight * sc.list[j].value <= sc.bound
      BY DEF IsScorer
    <3> QED
      BY <1>1, <2>1, <3>2, <3>3
  <2> QED
    BY <2>2, <2>3
<1> QED
  BY <1>3, <1>4, <1>5

(* The scorers of a query, in whatever order, make up the score of every    *)
(* document.                                                                *)
LEMMA ScorersMakeScore ==
  ASSUME IsCorpus(rows), lists = [t \in 0 .. Dim - 1 |-> ListOf(rows, t)],
         NEW q \in Seq([term : Nat, weight : Nat]), NEW ss \in SortedScorers(q)
  PROVE  /\ Len(ss) \in Nat /\ DOMAIN ss = 1 .. Len(ss) /\ Len(ss) = Len(q)
         /\ \A s \in 1 .. Len(ss) : IsScorer(ss[s])
         /\ \A d \in Docs :
              SumOf([i \in DOMAIN q |->
                       IF q[i].term \in DOMAIN rows[d + 1]
                         THEN q[i].weight * rows[d + 1][q[i].term] ELSE 0])
                = SumOf([s \in 1 .. Len(ss) |-> AddsOf(ss[s], d)])
<1> DEFINE n == Len(q)
<1>1. PICK p \in Bijection(DOMAIN q, DOMAIN q) : ss = [i \in DOMAIN q |-> ScorerOf(q[p[i]])]
  BY DEF SortedScorers
<1>2. n \in Nat /\ DOMAIN q = 1 .. n
  OBVIOUS
<1>3. p \in [1 .. n -> 1 .. n]
  BY <1>1, <1>2 DEF Bijection, Injection
<1>4. Len(ss) = n /\ DOMAIN ss = 1 .. n
  <2> HIDE DEF n
  <2>1. ss = [i \in 1 .. n |-> ScorerOf(q[p[i]])]
    BY <1>1, <1>2
  <2> QED
    BY <1>2, <2>1
<1>5. \A i \in 1 .. n : q[i] \in [term : Nat, weight : Nat]
  BY <1>2, SequenceElement
<1>6. \A i \in 1 .. n : p[i] \in 1 .. n /\ ss[i] = ScorerOf(q[p[i]])
  BY <1>1, <1>2, <1>3
<1>7. \A i \in 1 .. n : IsScorer(ss[i])
  BY <1>5, <1>6, ScorerFacts
<1>8. ASSUME NEW d \in Docs
      PROVE  SumOf([i \in DOMAIN q |->
                      IF q[i].term \in DOMAIN rows[d + 1]
                        THEN q[i].weight * rows[d + 1][q[i].term] ELSE 0])
               = SumOf([s \in 1 .. Len(ss) |-> AddsOf(ss[s], d)])
  <2> DEFINE g == [i \in 1 .. n |->
                     IF q[i].term \in DOMAIN rows[d + 1]
                       THEN q[i].weight * rows[d + 1][q[i].term] ELSE 0]
  <2>1. \A i \in 1 .. n : g[i] \in Nat
    <3> SUFFICES ASSUME NEW i \in 1 .. n
                 PROVE  g[i] \in Nat
      OBVIOUS
    <3>1. Len(rows) \in Nat /\ \A j \in 1 .. Len(rows) : IsRow(rows[j])
      BY DEF IsCorpus
    <3>2. d + 1 \in 1 .. Len(rows)
      BY <3>1 DEF Docs
    <3>3. IsRow(rows[d + 1])
      BY <3>1, <3>2
    <3>4. q[i].weight \in Nat
      BY <1>5
    <3>5. CASE q[i].term \in DOMAIN rows[d + 1]
      <4>1. rows[d + 1][q[i].term] \in Nat
        BY <3>3, <3>5 DEF IsRow
      <4> QED
        BY <3>4, <3>5, <4>1
    <3>6. CASE q[i].term \notin DOMAIN rows[d + 1]
      BY <3>6
    <3> QED
      BY <3>5, <3>6
  <2>2. \A i \in 1 .. n : AddsOf(ss[i], d) = g[p[i]]
    <3> SUFFICES ASSUME NEW i \in 1 .. n
                 PROVE  AddsOf(ss[i], d) = g[p[i]]
      OBVIOUS
    <3> DEFINE e == q[p[i]]
    <3>1. e \in [term : Nat, weight : Nat] /\ ss[i] = ScorerOf(e)
      BY <1>5, <1>6
    <3>2. g[p[i]] = IF e.term \in DOMAIN rows[d + 1]
                      THEN e.weight * rows[d + 1][e.term] ELSE 0
      BY <1>6
    <3> HIDE DEF e, g
    <3>3. /\ IsScorer(ss[i])
          /\ ss[i].weight = e.weight
          /\ \A j \in DOMAIN ss[i].list :
               e.term \in DOMAIN rows[ss[i].list[j].doc + 1]
               /\ ss[i].list[j].value = rows[ss[i].list[j].doc + 1][e.term]
          /\ e.term \in DOMAIN rows[d + 1] =>
               \E j \in DOMAIN ss[i].list : ss[i].list[j].doc = d
      BY <3>1, ScorerFacts
    <3>4. CASE e.term \in DOMAIN rows[d + 1]
      <4>1. PICK j \in DOMAIN ss[i].list : ss[i].list[j].doc = d
        BY <3>3, <3>4
      <4>2. AddsOf(ss[i], d) = ss[i].weight * ss[i].list[j].value
        BY <3>3, <4>1, AddsFacts
      <4>3. ss[i].list[j].value = rows[d + 1][e.term]
        BY <3>3, <4>1
      <4> QED
        BY <3>2, <3>3, <3>4, <4>2, <4>3
    <3>5. CASE e.term \notin DOMAIN rows[d + 1]
      <4>1. \A j \in DOMAIN ss[i].list : ss[i].list[j].doc # d
        BY <3>3, <3>5
      <4>2. AddsOf(ss[i], d) = 0
        BY <3>3, <4>1, AddsFacts
      <4> QED
        BY <3>2, <3>5, <4>2
    <3> QED
      BY <3>4, <3>5
  <2>3. [s \in 1 .. Len(ss) |-> AddsOf(ss[s], d)] = [s \in 1 .. n |-> g[p[s]]]
    <3> HIDE DEF g, n
    <3> QED
      BY <1>4, <2>2
  <2>4. g \in [1 .. n -> Nat]
    BY <2>1
  <2>5. p \in Bijection(1 .. n, 1 .. n)
    BY <1>1, <1>2
  <2>6. IsFiniteSet(1 .. n)
    BY <1>2, FS_Interval
  <2>7. SumOf([s \in 1 .. n |-> g[p[s]]]) = SumOf(g)
    <3> DEFINE f == [s \in 1 .. n |-> g[p[s]]]
    <3>1. f \in [1 .. n -> Nat] /\ \A s \in 1 .. n : f[s] = g[p[s]]
      BY <1>3, <2>1
    <3> HIDE DEF f, g, n
    <3>2. Renames(f, 1 .. n, p, g, 1 .. n)
      BY <2>4, <2>5, <3>1 DEF Renames
    <3>3. SumOf(f) = SumOf(g)
      BY <2>6, <3>2, SumMapped
    <3> QED
      BY <3>3 DEF f
  <2>8. [i \in DOMAIN q |-> IF q[i].term \in DOMAIN rows[d + 1]
                              THEN q[i].weight * rows[d + 1][q[i].term] ELSE 0] = g
    BY <1>2
  <2> HIDE DEF g
  <2> QED
    BY <2>3, <2>7, <2>8
<1> QED
  BY <1>2, <1>4, <1>7, <1>8
-----------------------------------------------------------------------------
(* Scores in parts. *)

LEMMA AddedTogether ==
  ASSUME QueryInv, NEW X \in SUBSET Scorers, NEW Y \in SUBSET Scorers, X \intersect Y = {}, NEW d
  PROVE  /\ AddedBy(X, d) \in Nat
         /\ AddedBy(Y, d) \in Nat
         /\ AddedBy(X \union Y, d) = AddedBy(X, d) + AddedBy(Y, d)
<1> DEFINE Z == X \union Y
           f == [s \in Z |-> Adds(s, d)]
           fX == [s \in X |-> Adds(s, d)]
           fY == [s \in Y |-> Adds(s, d)]
<1>1. \A s \in Scorers : Adds(s, d) \in Nat
  BY AddsFacts DEF QueryInv, Adds
<1>2. IsFiniteSet(Scorers)
  <2>1. Len(scorers) \in Int
    BY DEF QueryInv
  <2> QED
    BY <2>1, FS_Interval DEF Scorers
<1>3. IsFiniteSet(Z) /\ IsFiniteSet(X) /\ IsFiniteSet(Y)
  <2>1. Z \in SUBSET Scorers
    OBVIOUS
  <2> HIDE DEF Z
  <2> QED
    BY <1>2, <2>1, FS_Subset
<1>4. f \in [Z -> Nat] /\ fX \in [X -> Nat] /\ fY \in [Y -> Nat]
  BY <1>1
<1>5. (\A s \in X : fX[s] = f[s]) /\ (\A s \in Y : fY[s] = f[s])
  OBVIOUS
<1>6. X \union Y = Z
  OBVIOUS
<1> HIDE DEF f, fX, fY, Z
<1>7. SumOf(f) = SumOf(fX) + SumOf(fY)
  BY <1>3, <1>4, <1>5, <1>6, SumSplit
<1>8. SumOf(fX) \in Nat /\ SumOf(fY) \in Nat
  BY <1>3, <1>4, SumType
<1> QED
  BY <1>7, <1>8 DEF AddedBy, f, fX, fY, Z

(* The first m scorers add no more than their prefix of the bounds.         *)
LEMMA PrefixBounds ==
  ASSUME QueryInv, NEW m \in 0 .. Len(scorers), NEW d
  PROVE  /\ Prefix(m) \in Nat
         /\ AddedBy(1 .. m, d) \in Nat
         /\ AddedBy(1 .. m, d) <= Prefix(m)
<1> DEFINE X == 1 .. m
           f == [s \in X |-> Adds(s, d)]
           g == [s \in X |-> scorers[s].bound]
<1>1. Len(scorers) \in Nat /\ m \in Nat /\ X \subseteq Scorers
  BY DEF QueryInv, Scorers
<1>2. \A s \in X : Adds(s, d) \in Nat /\ scorers[s].bound \in Nat /\ Adds(s, d) <= scorers[s].bound
  <2>1. \A s \in X : IsScorer(scorers[s])
    BY <1>1 DEF QueryInv
  <2> QED
    BY <2>1, AddsFacts DEF Adds, IsScorer
<1>3. IsFiniteSet(X)
  BY <1>1, FS_Interval
<1>4. f \in [X -> Nat] /\ g \in [X -> Nat] /\ \A s \in X : f[s] <= g[s]
  BY <1>2
<1> HIDE DEF f, g, X
<1>5. SumOf(f) <= SumOf(g) /\ SumOf(f) \in Nat /\ SumOf(g) \in Nat
  BY <1>3, <1>4, SumAtMost, SumType
<1> QED
  BY <1>5 DEF AddedBy, Prefix, f, g, X

LEMMA NoPrefix ==
  Prefix(0) = 0
<1> DEFINE f == [i \in 1 .. 0 |-> scorers[i].bound]
<1>1. 1 .. 0 = {}
  OBVIOUS
<1>2. DOMAIN f = {} /\ f \in [{} -> Nat]
  BY <1>1
<1> HIDE DEF f
<1>3. SumOf(f) = 0
  BY <1>2, SumOfNone
<1> QED
  BY <1>3 DEF Prefix, f

(* A score is at most what the essential scorers and those from m on add,   *)
(* and what bounds the others; it is all of them if there are no others.    *)
LEMMA ScoreParts ==
  ASSUME QueryInv, first \in 0 .. Len(scorers), NEW d \in Docs, NEW m \in 1 .. first + 1
  PROVE  /\ AddedBy(Essential, d) \in Nat
         /\ AddedBy(m .. first, d) \in Nat
         /\ Prefix(m - 1) \in Nat
         /\ Score(d) \in Nat
         /\ Score(d) <= AddedBy(Essential, d) + AddedBy(m .. first, d) + Prefix(m - 1)
         /\ m = 1 => Score(d) = AddedBy(Essential, d) + AddedBy(1 .. first, d)
<1> DEFINE X == 1 .. m - 1
           Y == m .. first
           Z == 1 .. first
<1>1. Len(scorers) \in Nat /\ first \in Nat /\ m \in Nat /\ m >= 1 /\ first <= Len(scorers)
      /\ m <= first + 1
  BY DEF QueryInv
<1>2. X \in SUBSET Scorers /\ Y \in SUBSET Scorers /\ X \intersect Y = {} /\ X \union Y = Z
  BY <1>1 DEF Scorers
<1>3. Essential \in SUBSET Scorers /\ Z \in SUBSET Scorers /\ Essential \intersect Z = {}
      /\ Essential \union Z = Scorers
  BY <1>1 DEF Scorers, Essential
<1>4. m - 1 \in 0 .. Len(scorers)
  BY <1>1
<1>5. m = 1 => Y = Z
  OBVIOUS
<1>6. Score(d) = AddedBy(Scorers, d)
  BY DEF QueryInv
<1>7. AddedBy(X, d) <= Prefix(m - 1) /\ Prefix(m - 1) \in Nat /\ AddedBy(X, d) \in Nat
  BY <1>4, PrefixBounds
<1> HIDE DEF X, Y, Z
<1>8. /\ AddedBy(Essential, d) \in Nat /\ AddedBy(Z, d) \in Nat
      /\ AddedBy(Scorers, d) = AddedBy(Essential, d) + AddedBy(Z, d)
  <2>1. AddedBy(Essential \union Z, d) = AddedBy(Essential, d) + AddedBy(Z, d)
    BY <1>3, AddedTogether
  <2>2. AddedBy(Essential, d) \in Nat /\ AddedBy(Z, d) \in Nat
    BY <1>3, AddedTogether
  <2> QED
    BY <1>3, <2>1, <2>2
<1>9. /\ AddedBy(Y, d) \in Nat /\ AddedBy(Z, d) = AddedBy(X, d) + AddedBy(Y, d)
  <2>1. AddedBy(X \union Y, d) = AddedBy(X, d) + AddedBy(Y, d)
    BY <1>2, AddedTogether
  <2>2. AddedBy(Y, d) \in Nat
    BY <1>2, AddedTogether
  <2> QED
    BY <1>2, <2>1, <2>2
<1>10. Score(d) <= AddedBy(Essential, d) + AddedBy(Y, d) + Prefix(m - 1)
  BY <1>6, <1>7, <1>8, <1>9
<1>11. Score(d) \in Nat /\ (m = 1 => Score(d) = AddedBy(Essential, d) + AddedBy(Z, d))
  BY <1>6, <1>8
<1> QED
  BY <1>7, <1>8, <1>9, <1>10, <1>11 DEF Y, Z
-----------------------------------------------------------------------------
(* Moving scorers on. *)

LEMMA ListTypes ==
  ASSUME NEW sc, IsScorer(sc)
  PROVE  /\ Len(sc.list) \in Nat /\ DOMAIN sc.list = 1 .. Len(sc.list)
         /\ \A j \in 1 .. Len(sc.list) : sc.list[j].doc \in Docs /\ sc.list[j].value \in Nat
<1>1. sc.list \in Seq(Postings)
  BY DEF IsScorer
<1>2. Len(sc.list) \in Nat /\ DOMAIN sc.list = 1 .. Len(sc.list)
  BY <1>1
<1>3. \A j \in 1 .. Len(sc.list) : sc.list[j] \in Postings
  BY <1>1, <1>2, SequenceElement
<1> QED
  BY <1>2, <1>3 DEF Postings

(* Where a scorer is after moving past the documents below d.               *)
IsMoved(s, d, j) ==
  /\ j \in pos[s] .. Len(scorers[s].list) + 1
  /\ \A i \in pos[s] .. j - 1 : scorers[s].list[i].doc < d
  /\ \A i \in j .. Len(scorers[s].list) : d <= scorers[s].list[i].doc

LEMMA BelowMoves ==
  ASSUME NEW s, IsScorer(scorers[s]), pos[s] \in 1 .. Len(scorers[s].list) + 1, NEW d \in Int
  PROVE  IsMoved(s, d, AdvanceTo(s, d)) /\ Below(s, d) = pos[s] .. AdvanceTo(s, d) - 1
<1> DEFINE L == scorers[s].list
           n == Len(L)
           p == pos[s]
           B == Below(s, d)
           T == {i \in p .. n : d <= L[i].doc}
<1>1. n \in Nat /\ p \in Nat /\ p >= 1 /\ p <= n + 1 /\ DOMAIN L = 1 .. n
  BY ListTypes
<1>2. \A i \in p .. n : L[i].doc \in Int
  <2>1. \A i \in 1 .. n : L[i].doc \in Int
    BY ListTypes DEF Docs
  <2> QED
    BY <1>1, <2>1
<1>3. \A i, j \in p .. n : i < j => L[i].doc < L[j].doc
  <2>1. \A i, j \in 1 .. n : i < j => L[i].doc < L[j].doc
    BY <1>1 DEF IsScorer
  <2> QED
    BY <1>1, <2>1
<1>4. B = {i \in p .. n : L[i].doc < d}
  BY DEF Below
<1> HIDE DEF L, n, p, B
<1>5. ASSUME NEW j \in p .. n + 1, \A i \in p .. j - 1 : L[i].doc < d,
             \A i \in j .. n : d <= L[i].doc
      PROVE  B = p .. j - 1 /\ p + Cardinality(B) = j
  <2>1. j \in Nat /\ p <= j /\ j <= n + 1
    BY <1>1
  <2>2. \A i \in p .. n : i \in p .. j - 1 \/ i \in j .. n
    BY <1>1, <2>1
  <2>3. \A i \in p .. j - 1 : i \in p .. n
    BY <1>1, <2>1
  <2>4. \A i \in p .. n : L[i].doc < d <=> i \in p .. j - 1
    <3> SUFFICES ASSUME NEW i \in p .. n
                 PROVE  L[i].doc < d <=> i \in p .. j - 1
      OBVIOUS
    <3>1. CASE i \in p .. j - 1
      BY <1>5, <3>1
    <3>2. CASE i \in j .. n
      <4>1. d <= L[i].doc /\ L[i].doc \in Int
        BY <1>2, <1>5, <3>2
      <4>2. ~(i \in p .. j - 1)
        BY <1>1, <2>1, <3>2
      <4> QED
        BY <4>1, <4>2
    <3> QED
      BY <2>2, <3>1, <3>2
  <2>5. B = p .. j - 1
    BY <1>4, <2>3, <2>4
  <2>6. Cardinality(p .. j - 1) = j - p
    <3>1. p \in Int /\ j - 1 \in Int
      BY <1>1, <2>1
    <3>2. Cardinality(p .. j - 1) = IF p > j - 1 THEN 0 ELSE (j - 1) - p + 1
      BY <3>1, FS_Interval
    <3> QED
      BY <1>1, <2>1, <3>2
  <2> QED
    BY <1>1, <2>1, <2>5, <2>6
<1>6. \E j \in p .. n + 1 : (\A i \in p .. j - 1 : L[i].doc < d) /\ (\A i \in j .. n : d <= L[i].doc)
  <2>1. CASE T = {}
    <3>1. n + 1 \in p .. n + 1
      BY <1>1
    <3>2. \A i \in p .. n : L[i].doc < d
      BY <1>2, <2>1
    <3>3. (n + 1) - 1 = n /\ (n + 1) .. n = {}
      BY <1>1
    <3> QED
      BY <3>1, <3>2, <3>3
  <2>2. CASE T # {}
    <3>1. T \subseteq Nat
      BY <1>1
    <3>2. PICK j \in T : \A i \in T : j <= i
      <4> HIDE DEF T
      <4> QED
        BY <2>2, <3>1, LeastNatural
    <3>3. j \in p .. n /\ j \in Nat /\ d <= L[j].doc
      BY <1>1
    <3>4. j \in p .. n + 1
      BY <1>1, <3>3
    <3>5. \A i \in p .. j - 1 : L[i].doc < d
      <4> SUFFICES ASSUME NEW i \in p .. j - 1
                   PROVE  L[i].doc < d
        OBVIOUS
      <4>1. i \in p .. n /\ ~(j <= i)
        BY <1>1, <3>3
      <4>2. i \notin T
        BY <3>2, <4>1
      <4> QED
        BY <1>2, <4>1, <4>2
    <3>6. \A i \in j .. n : d <= L[i].doc
      <4> SUFFICES ASSUME NEW i \in j .. n
                   PROVE  d <= L[i].doc
        OBVIOUS
      <4>1. i \in p .. n /\ (i = j \/ j < i)
        BY <1>1, <3>3
      <4>2. L[i].doc \in Int /\ L[j].doc \in Int
        BY <1>2, <3>3, <4>1
      <4> QED
        BY <1>3, <3>3, <4>1, <4>2
    <3> QED
      BY <3>4, <3>5, <3>6
  <2> QED
    BY <2>1, <2>2
<1> HIDE DEF T
<1>7. PICK j \in p .. n + 1 : (\A i \in p .. j - 1 : L[i].doc < d) /\ (\A i \in j .. n : d <= L[i].doc)
  BY <1>6
<1>8. B = p .. j - 1 /\ p + Cardinality(B) = j
  BY <1>5, <1>7
<1>9. IsMoved(s, d, j)
  BY <1>7 DEF IsMoved, L, n, p
<1>10. AdvanceTo(s, d) = j /\ Below(s, d) = pos[s] .. j - 1
  BY <1>8 DEF AdvanceTo, B, p
<1> QED
  BY <1>9, <1>10

(* Looked up from no further on, a document gets what it should.            *)
LEMMA ContributionIsExact ==
  ASSUME NEW s, IsScorer(scorers[s]), pos[s] \in 1 .. Len(scorers[s].list) + 1, NEW d \in Int,
         Behind(s, d)
  PROVE  Contribution(s, d) = Adds(s, d)
<1> DEFINE L == scorers[s].list
           n == Len(L)
           j == AdvanceTo(s, d)
<1>1. n \in Nat /\ DOMAIN L = 1 .. n /\ \A i \in 1 .. n : L[i].doc \in Int
  BY ListTypes DEF Docs
<1>2. IsMoved(s, d, j)
  BY BelowMoves
<1>3. pos[s] \in Nat /\ pos[s] >= 1
  OBVIOUS
<1>4. /\ \A i \in 1 .. pos[s] - 1 : L[i].doc < d
      /\ \A i \in pos[s] .. j - 1 : L[i].doc < d
      /\ \A i \in j .. n : d <= L[i].doc
      /\ j \in pos[s] .. n + 1
  BY <1>2 DEF IsMoved, Behind
<1>5. Contribution(s, d) = IF j <= n /\ L[j].doc = d THEN scorers[s].weight * L[j].value ELSE 0
  BY DEF Contribution
<1>6. \A i \in 1 .. n : i < j => L[i].doc < d
  <2> SUFFICES ASSUME NEW i \in 1 .. n, i < j
               PROVE  L[i].doc < d
    OBVIOUS
  <2>1. i \in 1 .. pos[s] - 1 \/ i \in pos[s] .. j - 1
    BY <1>1, <1>3, <1>4
  <2> QED
    BY <1>4, <2>1
<1>7. \A i, e \in 1 .. n : i < e => L[i].doc < L[e].doc
  BY <1>1 DEF IsScorer
<1> HIDE DEF n, L, j
<1>8. CASE j <= n /\ L[j].doc = d
  <2>1. j \in 1 .. n
    BY <1>1, <1>3, <1>4, <1>8
  <2>2. AddsOf(scorers[s], d) = scorers[s].weight * L[j].value
    BY <1>1, <1>8, <2>1, AddsFacts DEF L
  <2> QED
    BY <1>5, <1>8, <2>2 DEF Adds
<1>9. CASE ~(j <= n /\ L[j].doc = d)
  <2>1. \A i \in 1 .. n : L[i].doc # d
    <3> SUFFICES ASSUME NEW i \in 1 .. n, L[i].doc = d
                 PROVE  FALSE
      OBVIOUS
    <3>1. ~(i < j)
      BY <1>1, <1>6
    <3>2. j \in Nat /\ j <= i /\ j <= n /\ j \in 1 .. n /\ j \in j .. n
      BY <1>1, <1>3, <1>4, <3>1
    <3>3. d <= L[j].doc /\ L[j].doc # d /\ L[j].doc \in Int
      BY <1>1, <1>4, <1>9, <3>2
    <3>4. j < i => L[j].doc < L[i].doc
      BY <1>7, <3>2
    <3>5. j = i \/ j < i
      BY <1>1, <3>2
    <3> QED
      BY <3>3, <3>4, <3>5
  <2>2. AddsOf(scorers[s], d) = 0
    BY <1>1, <2>1, AddsFacts DEF L
  <2> QED
    BY <1>5, <1>9, <2>2 DEF Adds
<1> QED
  BY <1>8, <1>9

(* A document passed over has no posting left.                              *)
LEMMA PassedAddsNothing ==
  ASSUME NEW s, IsScorer(scorers[s]), pos[s] \in 1 .. Len(scorers[s].list) + 1,
         NEW a \in Int, NEW b \in Int, NEW d \in Int, Behind(s, a), Ahead(s, b), a <= d, d < b
  PROVE  Adds(s, d) = 0
<1> DEFINE L == scorers[s].list
           n == Len(L)
<1>1. n \in Nat /\ DOMAIN L = 1 .. n /\ \A i \in 1 .. n : L[i].doc \in Int
  BY ListTypes DEF Docs
<1>2. /\ pos[s] \in Nat
      /\ \A i \in 1 .. pos[s] - 1 : L[i].doc < a
      /\ \A i \in pos[s] .. n : b <= L[i].doc
  BY DEF Behind, Ahead
<1> HIDE DEF L, n
<1>3. \A i \in 1 .. n : L[i].doc # d
  <2> SUFFICES ASSUME NEW i \in 1 .. n
               PROVE  L[i].doc # d
    OBVIOUS
  <2>1. i \in 1 .. pos[s] - 1 \/ i \in pos[s] .. n
    BY <1>1, <1>2
  <2>2. L[i].doc < a \/ b <= L[i].doc
    BY <1>2, <2>1
  <2> QED
    BY <1>1, <2>2
<1>4. AddsOf(scorers[s], d) = 0
  BY <1>1, <1>3, AddsFacts DEF L
<1> QED
  BY <1>4 DEF Adds
-----------------------------------------------------------------------------
(* What stays as long as the query does. *)

LEMMA ScoresAreNaturals ==
  ASSUME QueryInv
  PROVE  /\ ScoreOf \in [Docs -> Nat] /\ DOMAIN ScoreOf = Docs
         /\ \A d \in Docs : ScoreOf[d] = Score(d)
<1>1. ASSUME NEW d \in Docs
      PROVE  Score(d) \in Nat
  <2>1. AddedBy(Scorers, d) \in Nat
    <3> DEFINE X == {}
    <3>1. Scorers \in SUBSET Scorers /\ X \in SUBSET Scorers /\ Scorers \intersect X = {}
      OBVIOUS
    <3> HIDE DEF X
    <3> QED
      BY <3>1, AddedTogether
  <2> QED
    BY <2>1 DEF QueryInv
<1> QED
  BY <1>1 DEF ScoreOf

LEMMA KsArePositive ==
  ASSUME QueryInv
  PROVE  k \in Nat \ {0}
  BY KsAssumption DEF QueryInv

SameQuery == UNCHANGED <<rows, lists, query, k, selected, scorers>>

LEMMA QueryKept ==
  ASSUME QueryInv, SameQuery
  PROVE  /\ QueryInv'
         /\ ScoreOf' = ScoreOf /\ Docs' = Docs /\ Scorers' = Scorers
         /\ \A s, d : Adds(s, d)' = Adds(s, d)
         /\ \A X, d : AddedBy(X, d)' = AddedBy(X, d)
         /\ \A i : Prefix(i)' = Prefix(i)
         /\ \A s : IsScorer(scorers[s])' <=> IsScorer(scorers[s])
<1>1. /\ rows' = rows /\ lists' = lists /\ query' = query /\ k' = k
      /\ selected' = selected /\ scorers' = scorers
  BY DEF SameQuery
<1>2. Docs' = Docs /\ Scorers' = Scorers
  BY <1>1 DEF Docs, Scorers
<1>3. \A d : Score(d)' = Score(d)
  BY <1>1 DEF Score
<1>4. \A s, d : Adds(s, d)' = Adds(s, d)
  BY <1>1 DEF Adds
<1>5. \A X, d : AddedBy(X, d)' = AddedBy(X, d)
  BY <1>1 DEF AddedBy, Adds
<1>6. \A i : Prefix(i)' = Prefix(i)
  BY <1>1 DEF Prefix
<1>7. \A s : IsScorer(scorers[s])' <=> IsScorer(scorers[s])
  BY <1>1, <1>2 DEF IsScorer, Postings
<1>8. ScoreOf' = ScoreOf
  BY <1>2, <1>3 DEF ScoreOf
<1>9. QueryInv'
  <2>1. \A d \in Docs' : Score(d)' = AddedBy(Scorers, d)'
    <3> SUFFICES ASSUME NEW d \in Docs'
                 PROVE  Score(d)' = AddedBy(Scorers, d)'
      OBVIOUS
    <3>1. Score(d) = AddedBy(Scorers, d)
      BY <1>2 DEF QueryInv
    <3>2. AddedBy(Scorers, d)' = AddedBy(Scorers, d)
      BY <1>1, <1>2 DEF AddedBy, Adds
    <3> QED
      BY <1>3, <3>1, <3>2
  <2>2. \A s \in Scorers' : IsScorer(scorers[s])'
    BY <1>2, <1>7 DEF QueryInv
  <2> QED
    BY <1>1, <2>1, <2>2 DEF QueryInv
<1> QED
  BY <1>2, <1>4, <1>5, <1>6, <1>7, <1>8, <1>9

(* A query with no terms matches nothing. *)
LEMMA EmptyQuery ==
  ASSUME QueryInv, Len(scorers) = 0
  PROVE  Top(EmptyBag, Docs)
<1>1. \A d \in Docs : Score(d) = 0
  <2> SUFFICES ASSUME NEW d \in Docs
               PROVE  Score(d) = 0
    OBVIOUS
  <2> DEFINE f == [s \in Scorers |-> Adds(s, d)]
  <2>1. Scorers = {}
    BY DEF Scorers
  <2>2. DOMAIN f = {} /\ f \in [{} -> Nat]
    BY <2>1
  <2> HIDE DEF f
  <2>3. SumOf(f) = 0
    BY <2>2, SumOfNone
  <2> QED
    BY <2>3 DEF QueryInv, AddedBy, f
<1>2. Matching(Docs, ScoreOf, selected) = {}
  BY <1>1 DEF Matching, ScoreOf
<1> QED
  BY <1>2, NoneIsTop, KsArePositive DEF Top
-----------------------------------------------------------------------------
LEMMA InvInit == Init => IInv
<1> SUFFICES ASSUME Init
             PROVE  IInv
  OBVIOUS
<1>1. /\ rows \in Corpora /\ pc = "idle" /\ query = <<>> /\ k = 1 /\ scorers = <<>>
      /\ lists = [t \in 0 .. Dim - 1 |-> ListOf(rows, t)]
      /\ pos = <<>> /\ first = 0 /\ base = 0 /\ bits = {}
      /\ scores = [slot \in Slots |-> 0] /\ heap = EmptyBag /\ result = EmptyBag
  BY DEF Init
<1>2. Len(scorers) = 0 /\ Scorers = {} /\ DOMAIN scorers = {} /\ DOMAIN query = {}
  BY <1>1 DEF Scorers
<1>3. QueryInv
  <2>1. ASSUME NEW d \in Docs
        PROVE  Score(d) = AddedBy(Scorers, d)
    <3> DEFINE f == [i \in DOMAIN query |->
                       IF query[i].term \in DOMAIN rows[d + 1]
                         THEN query[i].weight * rows[d + 1][query[i].term] ELSE 0]
               g == [s \in Scorers |-> Adds(s, d)]
    <3>1. DOMAIN f = {} /\ f \in [{} -> Nat] /\ DOMAIN g = {} /\ g \in [{} -> Nat]
      BY <1>2
    <3>2. Score(d) = SumOf(f) /\ AddedBy(Scorers, d) = SumOf(g)
      BY DEF Score, AddedBy
    <3> HIDE DEF f, g
    <3> QED
      BY <3>1, <3>2, SumOfNone
  <2>2. query \in Seq([term : Nat, weight : Nat])
    BY <1>1
  <2> QED
    BY <1>1, <1>2, <2>1, <2>2 DEF QueryInv
<1>4. PlaceInv
  BY <1>1, <1>2 DEF PlaceInv, Slots
<1>5. CleanInv
  BY <1>1 DEF CleanInv, ScratchClean
<1>6. BoundInv /\ PartitionInv /\ ScoreInv /\ EvaluateInv
  BY <1>1 DEF BoundInv, InQuery, PartitionInv, ScoreInv, EvaluateInv
<1>7. ResultInv
  BY <1>1, <1>2, <1>3, EmptyQuery DEF ResultInv
<1> QED
  BY <1>1, <1>3, <1>4, <1>5, <1>6, <1>7 DEF IInv

LEMMA QueryStartsInv ==
  ASSUME IInv, NEW q \in Queries, NEW n \in Ks, NEW sel \in Selectors, StartQuery(q, n, sel)
  PROVE  IInv'
<1>1. /\ rows' = rows /\ lists' = lists /\ base' = base /\ bits' = bits /\ scores' = scores
      /\ query' = q /\ k' = n /\ selected' = sel
      /\ scorers' \in SortedScorers(q)
      /\ pos' = [s \in 1 .. Len(q) |-> 1]
      /\ first' = 0 /\ heap' = EmptyBag /\ result' = EmptyBag
      /\ pc = "idle" /\ pc' = IF q = <<>> THEN "idle" ELSE "partition"
  BY DEF StartQuery
<1>2. QueryInv /\ PlaceInv /\ CleanInv
  BY DEF IInv
<1>3. IsCorpus(rows)
  BY <1>2, CorporaAssumption DEF QueryInv
<1>4. q \in Seq([term : Nat, weight : Nat])
  BY QueriesAssumption
<1> DEFINE ss == scorers'
<1>5. /\ Len(ss) \in Nat /\ DOMAIN ss = 1 .. Len(ss) /\ Len(ss) = Len(q)
      /\ \A s \in 1 .. Len(ss) : IsScorer(ss[s])
      /\ \A d \in Docs :
           SumOf([i \in DOMAIN q |->
                    IF q[i].term \in DOMAIN rows[d + 1]
                      THEN q[i].weight * rows[d + 1][q[i].term] ELSE 0])
             = SumOf([s \in 1 .. Len(ss) |-> AddsOf(ss[s], d)])
  <2>1. lists = [t \in 0 .. Dim - 1 |-> ListOf(rows, t)] /\ ss \in SortedScorers(q)
    BY <1>1, <1>2 DEF QueryInv
  <2> HIDE DEF ss
  <2> QED
    BY <1>3, <1>4, <2>1, ScorersMakeScore
<1>6. Docs' = Docs /\ Scorers' = 1 .. Len(ss) /\ Slots' = Slots
  BY <1>1 DEF Docs, Scorers, Slots
<1>7. QueryInv'
  <2>1. \A d \in Docs' : Score(d)' = AddedBy(Scorers, d)'
    <3> SUFFICES ASSUME NEW d \in Docs'
                 PROVE  Score(d)' = AddedBy(Scorers, d)'
      OBVIOUS
    <3>1. Score(d)' = SumOf([i \in DOMAIN q |->
                    IF q[i].term \in DOMAIN rows[d + 1]
                      THEN q[i].weight * rows[d + 1][q[i].term] ELSE 0])
      BY <1>1 DEF Score
    <3>2. AddedBy(Scorers, d)' = SumOf([s \in 1 .. Len(ss) |-> AddsOf(ss[s], d)])
      BY <1>6 DEF AddedBy, Adds
    <3>3. d \in Docs
      BY <1>6
    <3> QED
      BY <1>5, <3>1, <3>2, <3>3
  <2>2. \A s \in Scorers' : IsScorer(scorers[s])'
    <3> SUFFICES ASSUME NEW s \in Scorers'
                 PROVE  IsScorer(scorers[s])'
      OBVIOUS
    <3>1. IsScorer(ss[s])
      BY <1>5, <1>6
    <3> QED
      BY <1>1, <1>6, <3>1 DEF IsScorer, Postings
  <2>3. query' \in Seq([term : Nat, weight : Nat]) /\ k' \in Ks \union {1}
    BY <1>1, <1>4
  <2>4. rows' \in Corpora /\ lists' = [t \in 0 .. Dim - 1 |-> ListOf(rows', t)]
    BY <1>1, <1>2 DEF QueryInv
  <2> QED
    BY <1>5, <2>1, <2>2, <2>3, <2>4 DEF QueryInv
<1>8. \A s \in Scorers' : pos'[s] = 1 /\ Len(ss[s].list) \in Nat
                         /\ \A j \in 1 .. Len(ss[s].list) : ss[s].list[j].doc \in Docs
  <2> SUFFICES ASSUME NEW s \in Scorers'
               PROVE  pos'[s] = 1 /\ Len(ss[s].list) \in Nat
                      /\ \A j \in 1 .. Len(ss[s].list) : ss[s].list[j].doc \in Docs
    OBVIOUS
  <2>1. IsScorer(ss[s])
    BY <1>5, <1>6
  <2>2. Len(ss[s].list) \in Nat /\ \A j \in 1 .. Len(ss[s].list) : ss[s].list[j].doc \in Docs
    <3> HIDE DEF ss
    <3> QED
      BY <2>1, ListTypes
  <2> QED
    BY <1>1, <1>5, <1>6, <2>2
<1>9. PlaceInv'
  <2>1. pos' \in [Scorers' -> Nat]
    BY <1>1, <1>5, <1>6
  <2>2. \A s \in Scorers' : pos'[s] \in 1 .. Len(scorers'[s].list) + 1
    BY <1>8
  <2>3. first' \in 0 .. Len(scorers')
    BY <1>1, <1>5
  <2> QED
    BY <1>1, <1>2, <1>6, <2>1, <2>2, <2>3 DEF PlaceInv
<1>10. CleanInv'
  BY <1>1, <1>2, <1>6 DEF CleanInv, ScratchClean
<1>11. BoundInv'
  BY <1>1 DEF BoundInv
<1>12. CASE q = <<>>
  <2>1. pc' = "idle" /\ Len(ss) = 0
    BY <1>1, <1>5, <1>12
  <2>2. (QueryInv /\ Len(scorers) = 0 => Top(EmptyBag, Docs))'
    <3>1. QueryInv /\ Len(scorers) = 0 => Top(EmptyBag, Docs)
      BY EmptyQuery
    <3> QED
      BY EmptyQuery, PTL
  <2>3. Top(EmptyBag, Docs)'
    BY <1>7, <2>1, <2>2
  <2>4. Top(result, Docs)'
    BY <1>1, <2>3 DEF Top
  <2>5. ResultInv'
    BY <1>1, <2>1, <2>4 DEF ResultInv
  <2>6. PartitionInv' /\ ScoreInv' /\ EvaluateInv'
    BY <2>1 DEF PartitionInv, ScoreInv, EvaluateInv
  <2> QED
    BY <1>7, <1>9, <1>10, <1>11, <2>1, <2>5, <2>6 DEF IInv
<1>13. CASE q # <<>>
  <2>1. pc' = "partition"
    BY <1>1, <1>13
  <2>2. IsWindow(0)
    BY WindowAssumption DEF IsWindow
  <2>3. Reached(0)'
    <3>1. \A s \in Scorers' : Behind(s, 0)'
      BY <1>8 DEF Behind
    <3>2. \A s \in Essential' : s \in Scorers'
      BY <1>1, <1>5 DEF Essential, Scorers
    <3>3. \A s \in Scorers' : Ahead(s, 0)'
      BY <1>8 DEF Ahead, Docs
    <3> QED
      BY <3>1, <3>2, <3>3 DEF Reached
  <2>4. Top(heap, Upto(0))'
    <3>1. Upto(0)' = {}
      BY DEF Upto, Docs
    <3>2. Matching(Upto(0)', ScoreOf', selected') = {}
      BY <3>1 DEF Matching
    <3>3. k' \in Nat \ {0}
      BY <1>1, KsAssumption
    <3>4. IsTop(heap', ScoreOf', k', {})
      BY <1>1, <3>3, NoneIsTop
    <3> QED
      BY <3>2, <3>4 DEF Top
  <2>5. PartitionInv'
    BY <1>1, <2>2, <2>3, <2>4 DEF PartitionInv, IsWindow
  <2>6. ScoreInv' /\ EvaluateInv' /\ ResultInv'
    BY <1>1, <2>1 DEF ScoreInv, EvaluateInv, ResultInv
  <2> QED
    BY <1>7, <1>9, <1>10, <1>11, <2>1, <2>5, <2>6 DEF IInv
<1> QED
  BY <1>12, <1>13
-----------------------------------------------------------------------------
(* Documents left out. *)

(* A document that would not enter the heap can be left out.                *)
LEMMA TopSkips ==
  ASSUME QueryInv, NEW D, NEW E, D \subseteq E, Top(heap, D),
         \A d \in (E \ D) \intersect Docs :
           d \in selected /\ Score(d) > 0 => Full /\ Score(d) <= LeastScore(heap)
  PROVE  Top(heap, E)
<1> DEFINE f == ScoreOf
           A == Matching(D, f, selected)
           B == Matching(E, f, selected)
<1>1. f \in [Docs -> Nat] /\ DOMAIN f = Docs /\ \A d \in Docs : f[d] = Score(d)
  BY ScoresAreNaturals
<1>2. k \in Nat \ {0}
  BY KsArePositive
<1>3. A \in SUBSET Docs /\ B \in SUBSET Docs /\ A \subseteq B
  BY <1>1 DEF Matching
<1>4. \A d \in B \ A : d \in (E \ D) \intersect Docs /\ d \in selected /\ Score(d) > 0
  BY <1>1 DEF Matching
<1>5. \A d \in B \ A : Full /\ f[d] <= LeastScore(heap)
  BY <1>1, <1>4
<1>6. B # A => IsFull(heap, k)
  BY <1>3, <1>5 DEF Full
<1>7. IsTop(heap, f, k, A)
  BY DEF Top
<1> HIDE DEF A, B, f
<1>8. IsTop(heap, f, k, B)
  BY <1>1, <1>2, <1>3, <1>5, <1>6, <1>7, SkippedIsTop
<1> QED
  BY <1>8 DEF Top, B, f

(* What only scorers up to e add to, scores no more than their bounds.      *)
LEMMA UnreachedScore ==
  ASSUME QueryInv, NEW e \in 0 .. Len(scorers), NEW d \in Docs,
         \A s \in e + 1 .. Len(scorers) : Adds(s, d) = 0
  PROVE  Score(d) \in Nat /\ Prefix(e) \in Nat /\ Score(d) <= Prefix(e)
<1> DEFINE X == e + 1 .. Len(scorers)
           Y == 1 .. e
           f == [s \in X |-> Adds(s, d)]
<1>1. Len(scorers) \in Nat /\ e \in Nat /\ e <= Len(scorers)
  BY DEF QueryInv
<1>2. X \in SUBSET Scorers /\ Y \in SUBSET Scorers /\ X \intersect Y = {} /\ X \union Y = Scorers
  BY <1>1 DEF Scorers
<1>3. IsFiniteSet(X)
  BY <1>1, FS_Interval
<1>4. f \in [X -> Nat] /\ \A s \in X : f[s] = 0
  OBVIOUS
<1>5. Score(d) = AddedBy(Scorers, d)
  BY DEF QueryInv
<1>6. AddedBy(Y, d) <= Prefix(e) /\ Prefix(e) \in Nat /\ AddedBy(Y, d) \in Nat
  BY PrefixBounds
<1> HIDE DEF X, Y, f
<1>7. SumOf(f) = 0
  BY <1>3, <1>4, SumOfZeros
<1>8. AddedBy(X, d) = 0
  BY <1>7 DEF AddedBy, f
<1>9. AddedBy(X \union Y, d) = AddedBy(X, d) + AddedBy(Y, d)
  BY <1>2, AddedTogether
<1>10. AddedBy(X \union Y, d) = Score(d)
  BY <1>2, <1>5
<1>11. Score(d) = AddedBy(Y, d)
  BY <1>6, <1>8, <1>9, <1>10
<1> QED
  BY <1>6, <1>11

(* The threshold is 0 until the heap is full.                               *)
LEMMA ThresholdIs ==
  ASSUME QueryInv, NEW D, Top(heap, D)
  PROVE  /\ Threshold \in Nat
         /\ Threshold > 0 => Full
         /\ Full => Threshold = LeastScore(heap)
<1>1. ASSUME Full
      PROVE  LeastScore(heap) \in Nat
  <2>1. IsTop(heap, ScoreOf, k, Matching(D, ScoreOf, selected))
    BY DEF Top
  <2>2. PICK H \in SUBSET Matching(D, ScoreOf, selected) :
          Holds(heap, ScoreOf, H) /\ AreBest(H, ScoreOf, k, Matching(D, ScoreOf, selected))
    BY <2>1 DEF IsTop
  <2>3. IsFiniteSet(H) /\ H \subseteq Docs
    BY <2>2, ScoresAreNaturals DEF AreBest, Matching
  <2>4. Size(heap) = Cardinality(H) /\ Size(heap) = k
    BY <1>1, <2>2, <2>3, HolderSize DEF Full, IsFull
  <2>5. H # {}
    <3>1. Cardinality({}) = 0
      BY FS_EmptySet
    <3> QED
      BY <2>4, <3>1, KsArePositive
  <2>6. ScoreOf \in [Docs -> Nat]
    BY ScoresAreNaturals
  <2> QED
    BY <2>2, <2>3, <2>5, <2>6, LeastIsLeast
<1> QED
  BY <1>1 DEF Threshold

(* With scorers that the threshold rules out, the documents no other scorer *)
(* adds to can be left out.                                                 *)
LEMMA SkipTo ==
  ASSUME QueryInv, NEW e \in 0 .. Len(scorers),
         \A i \in 1 .. e : Full /\ Prefix(i) < Threshold,
         NEW D, NEW E, D \subseteq E, Top(heap, D),
         \A d \in (E \ D) \intersect Docs : \A s \in e + 1 .. Len(scorers) : Adds(s, d) = 0
  PROVE  Top(heap, E)
<1> SUFFICES ASSUME NEW d \in (E \ D) \intersect Docs, Score(d) > 0
             PROVE  Full /\ Score(d) <= LeastScore(heap)
  BY TopSkips
<1>1. Score(d) \in Nat /\ Prefix(e) \in Nat /\ Score(d) <= Prefix(e)
  BY UnreachedScore
<1>2. e # 0
  <2> SUFFICES ASSUME e = 0 PROVE FALSE
    OBVIOUS
  <2>1. Score(d) <= Prefix(0)
    BY <1>1
  <2> QED
    BY <1>1, <2>1, NoPrefix
<1>3. e \in 1 .. e
  BY <1>2
<1>4. Full /\ Prefix(e) < Threshold
  BY <1>3
<1>5. Threshold = LeastScore(heap)
  BY <1>4 DEF Threshold
<1>6. LeastScore(heap) \in Int
  <2>1. Threshold \in Nat
    BY ThresholdIs
  <2> QED
    BY <1>5, <2>1
<1> QED
  BY <1>1, <1>4, <1>5, <1>6
-----------------------------------------------------------------------------
(* Windows. *)

LEMMA WindowOf ==
  ASSUME NEW m \in Nat, NEW w \in Nat, w * WindowSize <= m
  PROVE  LET b == (m \div WindowSize) * WindowSize
         IN  /\ b \in Nat /\ IsWindow(b) /\ b <= m /\ m < b + WindowSize
             /\ w * WindowSize <= b
<1> DEFINE W == WindowSize
           t == m \div W
           r == m % W
<1>1. W \in Nat /\ W > 0
  BY WindowAssumption
<1>2. t \in Nat /\ r \in 0 .. W - 1 /\ m = W * t + r
  BY <1>1
<1> HIDE DEF t, r, W
<1>3. t * W \in Nat /\ W * t = t * W /\ w * W \in Nat
  BY <1>1, <1>2
<1>4. t * W <= m /\ m < t * W + W
  BY <1>1, <1>2, <1>3
<1>5. w <= t
  <2> SUFFICES ASSUME w > t PROVE FALSE
    BY <1>2
  <2>1. PICK x \in Nat : w = t + 1 + x
    <3>1. w - t - 1 \in Nat /\ w = t + 1 + (w - t - 1)
      BY <1>2
    <3> QED
      BY <3>1
  <2>2. w * W = t * W + W + x * W
    BY <1>1, <1>2, <2>1
  <2>3. x * W \in Nat
    BY <1>1
  <2>4. w * W <= m
    BY DEF W
  <2> QED
    BY <1>1, <1>3, <1>4, <2>2, <2>3, <2>4
<1>6. w * W <= t * W
  <2>1. PICK x \in Nat : t = w + x
    <3>1. t - w \in Nat /\ t = w + (t - w)
      BY <1>2, <1>5
    <3> QED
      BY <3>1
  <2>2. t * W = w * W + x * W
    BY <1>1, <2>1
  <2>3. x * W \in Nat
    BY <1>1
  <2> QED
    BY <1>3, <2>2, <2>3
<1>7. IsWindow(t * W)
  BY <1>2 DEF IsWindow, W
<1> QED
  BY <1>3, <1>4, <1>6, <1>7 DEF t, W
-----------------------------------------------------------------------------
(* Partitioning, and opening a window.  NonEssential is the most scorers   *)
(* that the threshold rules out together.                                   *)

LEMMA NonEssentialIs ==
  ASSUME Len(scorers) \in Nat
  PROVE  /\ NonEssential \in 0 .. Len(scorers)
         /\ \A i \in 1 .. NonEssential : Prefix(i) < Threshold
         /\ \A e \in 0 .. Len(scorers) : (\A i \in 1 .. e : Prefix(i) < Threshold) => e <= NonEssential
<1> DEFINE n == Len(scorers)
           P(i) == Prefix(i) < Threshold
           S == {0} \union {s \in 1 .. n : \A i \in 1 .. s : P(i)}
<1>1. S \subseteq 0 .. n /\ S # {}
  BY DEF Scorers
<1>2. NonEssential = Max(S)
  BY DEF NonEssential, Scorers
<1>3. \A s \in S : \A i \in 1 .. s : P(i)
  <2>1. 1 .. 0 = {}
    OBVIOUS
  <2> HIDE DEF P, n
  <2> QED
    BY <2>1
<1>4. \A e \in 0 .. n : (\A i \in 1 .. e : P(i)) => e \in S
  <2> SUFFICES ASSUME NEW e \in 0 .. n, \A i \in 1 .. e : P(i)
               PROVE  e \in S
    OBVIOUS
  <2>1. e = 0 \/ e \in 1 .. n
    OBVIOUS
  <2> HIDE DEF P, n
  <2> QED
    BY <2>1
<1> HIDE DEF S, P
<1>5. \E m \in S : \A x \in S : x <= m
  <2> HIDE DEF n
  <2> QED
    BY <1>1, GreatestNatural DEF n
<1>6. \E m \in S : \A x \in S : m >= x
  BY <1>1, <1>5
<1>7. Max(S) \in S /\ \A x \in S : Max(S) >= x
  BY <1>6 DEF Max
<1>8. Max(S) \in 0 .. n /\ \A i \in 1 .. Max(S) : P(i)
  BY <1>1, <1>3, <1>7
<1>9. ASSUME NEW e \in 0 .. n, \A i \in 1 .. e : P(i)
      PROVE  e <= Max(S)
  <2>1. e \in S
    BY <1>4, <1>9
  <2> QED
    BY <1>7, <1>8, <2>1
<1> QED
  BY <1>2, <1>8, <1>9 DEF P

(* What opening a window does to the partition: the scorers that are not    *)
(* essential stay so.                                                       *)
LEMMA Partitioned ==
  ASSUME IInv, OpenWindow
  PROVE  /\ first' \in 0 .. Len(scorers)
         /\ first' >= first
         /\ \A i \in 1 .. first' : Full /\ Prefix(i) < Threshold
<1>1. Len(scorers) \in Nat /\ first \in 0 .. Len(scorers)
  BY DEF IInv, QueryInv, PlaceInv
<1>2. first' = IF Full THEN NonEssential ELSE first
  BY DEF OpenWindow
<1>3. \A i \in 1 .. first : Full /\ Prefix(i) < Threshold
  BY DEF IInv, BoundInv, InQuery, OpenWindow
<1>4. CASE Full
  <2>1. \A i \in 1 .. first : Prefix(i) < Threshold
    BY <1>3
  <2>2. first <= NonEssential
    BY <1>1, <2>1, NonEssentialIs
  <2>3. NonEssential \in 0 .. Len(scorers) /\ \A i \in 1 .. NonEssential : Prefix(i) < Threshold
    BY <1>1, NonEssentialIs
  <2> QED
    BY <1>1, <1>2, <1>4, <2>2, <2>3
<1>5. CASE ~Full
  BY <1>1, <1>2, <1>3, <1>5
<1> QED
  BY <1>4, <1>5
(* What is behind one document is behind a later one. *)
LEMMA BehindLater ==
  ASSUME NEW s, IsScorer(scorers[s]), pos[s] \in 1 .. Len(scorers[s].list) + 1,
         NEW d \in Int, NEW e \in Int, d <= e, Behind(s, d)
  PROVE  Behind(s, e)
<1> DEFINE L == scorers[s].list
           n == Len(L)
<1>1. n \in Nat /\ \A i \in 1 .. n : L[i].doc \in Int
  BY ListTypes DEF Docs
<1>2. \A i \in 1 .. pos[s] - 1 : i \in 1 .. n /\ L[i].doc < d
  BY <1>1 DEF Behind
<1>3. \A i \in 1 .. pos[s] - 1 : L[i].doc < e
  BY <1>1, <1>2
<1> QED
  BY <1>3 DEF Behind

(* A scorer not exhausted is ahead of all up to the document it is at.      *)
LEMMA AheadOfHere ==
  ASSUME NEW s, IsScorer(scorers[s]), pos[s] \in 1 .. Len(scorers[s].list) + 1,
         NEW d \in Int, ~Exhausted(s) => d <= DocAt(s)
  PROVE  Ahead(s, d)
<1> DEFINE L == scorers[s].list
           n == Len(L)
           p == pos[s]
<1>1. n \in Nat /\ DOMAIN L = 1 .. n /\ \A i \in 1 .. n : L[i].doc \in Int
  BY ListTypes DEF Docs
<1>2. \A i, j \in 1 .. n : i < j => L[i].doc < L[j].doc
  BY <1>1 DEF IsScorer
<1>3. p \in Nat /\ p >= 1
  OBVIOUS
<1>4. p <= n => d <= L[p].doc
  BY <1>1, <1>3 DEF Exhausted, DocAt
<1> HIDE DEF L, n, p
<1>5. ASSUME NEW i \in p .. n
      PROVE  d <= L[i].doc
  <2>1. i \in 1 .. n /\ p \in 1 .. n /\ (i = p \/ p < i)
    BY <1>1, <1>3
  <2>2. L[i].doc \in Int /\ L[p].doc \in Int /\ d <= L[p].doc
    BY <1>1, <1>4, <2>1
  <2> QED
    BY <1>2, <2>1, <2>2
<1> QED
  BY <1>5 DEF Ahead, L, n, p

(* What is known of each scorer. *)
LEMMA WhereScorersAre ==
  ASSUME QueryInv, PlaceInv, NEW s \in Scorers
  PROVE  IsScorer(scorers[s]) /\ pos[s] \in 1 .. Len(scorers[s].list) + 1
  BY DEF QueryInv, PlaceInv

(* The scorers that a window can be opened for, and the least of the        *)
(* documents they are at.                                                   *)
Live == {s \in Scorers : s > first' /\ ~Exhausted(s)}

LEMMA LiveDocs ==
  ASSUME QueryInv, PlaceInv, Live # {}
  PROVE  LET M == {DocAt(s) : s \in Live}
         IN  Min(M) \in Nat /\ (\E s \in Live : Min(M) = DocAt(s))
             /\ \A s \in Live : Min(M) <= DocAt(s)
<1> DEFINE M == {DocAt(s) : s \in Live}
<1>1. \A s \in Live : DocAt(s) \in Nat
  <2> SUFFICES ASSUME NEW s \in Live
               PROVE  DocAt(s) \in Nat
    OBVIOUS
  <2>1. s \in Scorers /\ ~Exhausted(s)
    BY DEF Live
  <2>2. IsScorer(scorers[s]) /\ pos[s] \in 1 .. Len(scorers[s].list) + 1
    BY <2>1, WhereScorersAre
  <2>3. Len(scorers[s].list) \in Nat
        /\ \A j \in 1 .. Len(scorers[s].list) : scorers[s].list[j].doc \in Docs
    BY <2>2, ListTypes
  <2>4. pos[s] \in 1 .. Len(scorers[s].list)
    BY <2>1, <2>2, <2>3 DEF Exhausted
  <2> QED
    BY <2>3, <2>4 DEF DocAt, Docs
<1>2. M \subseteq Nat /\ M # {} /\ \A s \in Live : DocAt(s) \in M
  BY <1>1
<1>3. \A x \in M : \E s \in Live : x = DocAt(s)
  OBVIOUS
<1> HIDE DEF M
<1>4. \E x \in M : \A y \in M : x <= y
  BY <1>2, LeastNatural
<1>5. Min(M) \in M /\ \A y \in M : Min(M) <= y
  BY <1>4 DEF Min
<1>6. Min(M) \in Nat /\ (\E s \in Live : Min(M) = DocAt(s)) /\ \A s \in Live : Min(M) <= DocAt(s)
  BY <1>2, <1>3, <1>5
<1> QED
  BY <1>6 DEF M

(* Arithmetic of the scorers past first and first'. *)
LEMMA PastBoth ==
  ASSUME NEW n \in Nat, NEW f \in Nat, NEW e \in Nat, e <= f
  PROVE  \A s \in f + 1 .. n : s \in 1 .. n /\ s \in e + 1 .. n /\ s > f
  OBVIOUS

(* Which window is opened, and what is skipped on the way. *)
LEMMA WindowOpens ==
  ASSUME IInv, OpenWindow, Live # {}
  PROVE  /\ pc' = "score" /\ base' \in Nat /\ IsWindow(base')
         /\ heap # EmptyBag => base' >= base + WindowSize
         /\ \A s \in Scorers : Behind(s, base')
         /\ \A s \in first' + 1 .. Len(scorers) : Ahead(s, base')
         /\ Top(heap, Upto(base'))
<1> DEFINE m == Min({DocAt(s) : s \in Live})
           b == (m \div WindowSize) * WindowSize
           n == Len(scorers)
<1>1. pc = "partition" /\ QueryInv /\ PlaceInv /\ n \in Nat /\ first \in 0 .. n
  BY DEF IInv, OpenWindow, QueryInv, PlaceInv
<1>2. PICK d \in Nat : /\ IsWindow(d) /\ Reached(d) /\ Top(heap, Upto(d))
                       /\ heap # EmptyBag => d = base + WindowSize
  BY <1>1 DEF IInv, PartitionInv
<1>3. PICK w \in Nat : d = w * WindowSize
  BY <1>2 DEF IsWindow
<1>4. first' \in 0 .. n /\ first' >= first /\ \A i \in 1 .. first' : Full /\ Prefix(i) < Threshold
  BY Partitioned
<1>5. base' = b /\ pc' = "score"
  BY DEF OpenWindow, Live
<1>6. m \in Nat /\ (\E s \in Live : m = DocAt(s)) /\ \A s \in Live : m <= DocAt(s)
  BY <1>1, LiveDocs
<1>7. \A s \in first' + 1 .. n : s \in Scorers /\ s \in Essential /\ s > first'
  <2>1. Scorers = 1 .. n /\ Essential = first + 1 .. n
    BY DEF Scorers, Essential
  <2>2. n \in Nat /\ first \in Nat /\ first' \in Nat /\ first' >= first
    BY <1>1, <1>4
  <2> HIDE DEF n
  <2>3. \A s \in first' + 1 .. n : s \in 1 .. n /\ s \in first + 1 .. n /\ s > first'
    BY <2>2, PastBoth
  <2> QED
    BY <2>1, <2>3
<1>8. \A s \in first' + 1 .. n : ~Exhausted(s) => s \in Live
  BY <1>7 DEF Live
<1>9. d <= m
  <2>1. PICK s \in Live : m = DocAt(s)
    BY <1>6
  <2>2. s \in Essential /\ ~Exhausted(s) /\ s \in Scorers
    BY <1>1, <1>4 DEF Live, Essential, Scorers
  <2>3. Ahead(s, d) /\ pos[s] \in 1 .. Len(scorers[s].list) + 1 /\ Len(scorers[s].list) \in Nat
    BY <1>1, <1>2, <2>2, WhereScorersAre, ListTypes DEF Reached
  <2>4. pos[s] \in pos[s] .. Len(scorers[s].list)
    BY <2>2, <2>3 DEF Exhausted
  <2> QED
    BY <2>1, <2>3, <2>4 DEF Ahead, DocAt
<1> HIDE DEF m, n
<1>10. b \in Nat /\ IsWindow(b) /\ b <= m /\ d <= b
  BY <1>3, <1>6, <1>9, WindowOf
<1> HIDE DEF b
<1>11. ASSUME NEW s \in Scorers
       PROVE  Behind(s, b)
  BY <1>1, <1>2, <1>10, WhereScorersAre, BehindLater DEF Reached
<1>12. ASSUME NEW s \in first' + 1 .. n
       PROVE  Ahead(s, b)
  <2>1. IsScorer(scorers[s]) /\ pos[s] \in 1 .. Len(scorers[s].list) + 1
    BY <1>1, <1>7, WhereScorersAre
  <2>2. ASSUME ~Exhausted(s)
        PROVE  b <= DocAt(s)
    <3>1. s \in Live /\ m <= DocAt(s)
      BY <1>6, <1>8, <2>2
    <3>2. DocAt(s) \in Int
      <4>1. pos[s] \in 1 .. Len(scorers[s].list) /\ Len(scorers[s].list) \in Nat
        BY <2>1, <2>2, ListTypes DEF Exhausted
      <4>2. DocAt(s) \in Docs
        BY <2>1, <4>1, ListTypes DEF DocAt
      <4> QED
        BY <4>2 DEF Docs
    <3> QED
      BY <1>6, <1>10, <3>1, <3>2
  <2> QED
    BY <1>10, <2>1, <2>2, AheadOfHere
<1>13. Top(heap, Upto(b))
  <2> DEFINE D == Upto(d)
             E == Upto(b)
  <2>1. D \subseteq E
    BY <1>2, <1>10 DEF Upto, Docs
  <2>2. ASSUME NEW x \in (E \ D) \intersect Docs, NEW s \in first' + 1 .. Len(scorers)
        PROVE  Adds(s, x) = 0
    <3>1. x \in Int /\ d <= x /\ x < b
      BY <1>2 DEF Upto, Docs
    <3>2. Behind(s, d) /\ Ahead(s, b) /\ IsScorer(scorers[s])
          /\ pos[s] \in 1 .. Len(scorers[s].list) + 1
      BY <1>1, <1>2, <1>7, <1>12, WhereScorersAre DEF Reached, n
    <3> QED
      BY <1>2, <1>10, <3>1, <3>2, PassedAddsNothing
  <2>3. Top(heap, D)
    BY <1>2
  <2> HIDE DEF D, E
  <2>4. Top(heap, E)
    BY <1>1, <1>4, <2>1, <2>2, <2>3, SkipTo DEF n
  <2> QED
    BY <2>4 DEF E
<1>14. heap # EmptyBag => b >= base + WindowSize
  BY <1>2, <1>10
<1> QED
  BY <1>5, <1>10, <1>11, <1>12, <1>13, <1>14 DEF n

(* With nothing left to open a window for, the heap is final. *)
LEMMA NothingLeft ==
  ASSUME IInv, OpenWindow, Live = {}
  PROVE  pc' = "drain" /\ base' = base /\ Top(heap, Docs)
<1> DEFINE n == Len(scorers)
           E == Docs
<1>1. pc = "partition" /\ QueryInv /\ PlaceInv /\ n \in Nat /\ first \in 0 .. n
  BY DEF IInv, OpenWindow, QueryInv, PlaceInv
<1>2. PICK d \in Nat : Reached(d) /\ Top(heap, Upto(d))
  BY <1>1 DEF IInv, PartitionInv
<1>3. first' \in 0 .. n /\ first' >= first /\ \A i \in 1 .. first' : Full /\ Prefix(i) < Threshold
  BY Partitioned
<1>4. base' = base /\ pc' = "drain"
  BY DEF OpenWindow, Live
<1>5. \A s \in first' + 1 .. n : s \in Scorers /\ Exhausted(s)
  <2>1. Scorers = 1 .. n
    BY DEF Scorers
  <2>2. \A s \in first' + 1 .. n : s \in Scorers /\ s > first'
    <3>1. n \in Nat /\ first \in Nat /\ first' \in Nat /\ first' >= first
      BY <1>1, <1>3
    <3> HIDE DEF n
    <3>2. \A s \in first' + 1 .. n : s \in 1 .. n /\ s > first'
      BY <3>1, PastBoth
    <3> QED
      BY <2>1, <3>2
  <2> QED
    BY <2>2 DEF Live
<1> DEFINE D == Upto(d)
<1>6. D \subseteq E
  BY DEF Upto
<1>7. ASSUME NEW x \in (E \ D) \intersect Docs, NEW s \in first' + 1 .. Len(scorers)
      PROVE  Adds(s, x) = 0
  <2>1. x \in Int /\ d <= x /\ x + 1 \in Int /\ x < x + 1
    BY <1>2 DEF Upto, Docs
  <2>2. Behind(s, d) /\ IsScorer(scorers[s]) /\ pos[s] \in 1 .. Len(scorers[s].list) + 1
    BY <1>1, <1>2, <1>5, WhereScorersAre DEF Reached
  <2>3. Ahead(s, x + 1)
    BY <1>5, <2>1, <2>2, AheadOfHere
  <2> QED
    BY <1>2, <2>1, <2>2, <2>3, PassedAddsNothing
<1>8. Top(heap, D)
  BY <1>2
<1> HIDE DEF D, E
<1>9. Top(heap, E)
  BY <1>1, <1>3, <1>6, <1>7, <1>8, SkipTo DEF n
<1> QED
  BY <1>4, <1>9 DEF E

(* Opening a window, or finding that none is left, keeps the invariant.     *)
LEMMA OpenWindowInv ==
  ASSUME IInv, OpenWindow
  PROVE  IInv'
<1>1. /\ SameQuery /\ pos' = pos /\ scores' = scores /\ heap' = heap /\ result' = result
      /\ bits' = {} /\ pc = "partition"
  BY DEF OpenWindow, queryVars, SameQuery
<1>2. QueryInv /\ PlaceInv /\ CleanInv /\ ResultInv
  BY DEF IInv
<1>3. QueryInv' /\ ScoreOf' = ScoreOf /\ Docs' = Docs /\ Scorers' = Scorers
  BY <1>1, <1>2, QueryKept
<1>4. /\ k' = k /\ scorers' = scorers /\ selected' = selected
  BY <1>1 DEF SameQuery
<1>5. /\ first' \in 0 .. Len(scorers)
      /\ \A i \in 1 .. first' : Full /\ Prefix(i) < Threshold
  BY Partitioned
<1>6. Full' = Full /\ Threshold' = Threshold /\ \A i : Prefix(i)' = Prefix(i)
  BY <1>1, <1>4 DEF Full, Threshold, Prefix
<1>7. BoundInv'
  BY <1>5, <1>6 DEF BoundInv
<1>8. Slots' = Slots /\ CleanInv'
  BY <1>1, <1>2 DEF CleanInv, ScratchClean, Slots
<1>9. base' \in Nat
  <2>1. CASE Live = {}
    BY <1>2, <2>1, NothingLeft DEF PlaceInv
  <2>2. CASE Live # {}
    BY <2>2, WindowOpens
  <2> QED
    BY <2>1, <2>2
<1>10. PlaceInv'
  BY <1>1, <1>2, <1>3, <1>4, <1>5, <1>8, <1>9 DEF PlaceInv
<1>11. CASE Live = {}
  <2>1. pc' = "drain" /\ Top(heap, Docs)
    BY <1>11, NothingLeft
  <2>2. Top(heap, Docs)'
    BY <1>1, <1>3, <1>4, <2>1 DEF Top
  <2>3. ResultInv'
    BY <1>1, <1>2, <2>1, <2>2 DEF ResultInv
  <2>4. PartitionInv' /\ ScoreInv' /\ EvaluateInv'
    BY <2>1 DEF PartitionInv, ScoreInv, EvaluateInv
  <2> QED
    BY <1>3, <1>7, <1>8, <1>10, <2>1, <2>3, <2>4 DEF IInv
<1>12. CASE Live # {}
  <2>1. /\ pc' = "score" /\ IsWindow(base')
        /\ \A s \in Scorers : Behind(s, base')
        /\ \A s \in first' + 1 .. Len(scorers) : Ahead(s, base')
        /\ Top(heap, Upto(base'))
    BY <1>12, WindowOpens
  <2>2. Reached(base)'
    BY <1>1, <1>3, <1>4, <2>1 DEF Reached, Behind, Ahead, Essential
  <2>3. Top(heap, Upto(base))'
    BY <1>1, <1>3, <1>4, <2>1 DEF Top, Upto
  <2>4. ScoreInv'
    BY <2>1, <2>2, <2>3 DEF ScoreInv, IsWindow
  <2>5. PartitionInv' /\ EvaluateInv' /\ ResultInv'
    BY <1>1, <1>2, <2>1 DEF PartitionInv, EvaluateInv, ResultInv
  <2> QED
    BY <1>3, <1>7, <1>8, <1>10, <2>1, <2>4, <2>5 DEF IInv
<1> QED
  BY <1>11, <1>12
-----------------------------------------------------------------------------
(* Scoring a window. *)

(* A scorer has a document once.                                            *)
LEMMA OnePosting ==
  ASSUME NEW sc, IsScorer(sc), NEW d, NEW i \in At(sc, d), NEW j \in At(sc, d)
  PROVE  i = j
<1>1. DOMAIN sc.list = 1 .. Len(sc.list) /\ Len(sc.list) \in Nat
      /\ \A x \in 1 .. Len(sc.list) : sc.list[x].doc \in Int
  BY ListTypes DEF Docs
<1>2. i \in 1 .. Len(sc.list) /\ j \in 1 .. Len(sc.list) /\ sc.list[i].doc = sc.list[j].doc
  BY <1>1 DEF At
<1>3. ~(i < j) /\ ~(j < i)
  BY <1>1, <1>2 DEF IsScorer
<1> QED
  BY <1>1, <1>2, <1>3

(* The postings of a slot's document: those At it, of essential scorers.    *)
InWindow(s) == {j \in Consume(s) : scorers[s].list[j].doc >= base}
Hits(slot)  ==
  {x \in Essential \X (1 .. Len(rows)) :
     /\ x[2] \in InWindow(x[1])
     /\ scorers[x[1]].list[x[2]].doc = base + slot}
Worth(slot) == [x \in Hits(slot) |-> scorers[x[1]].weight * scorers[x[1]].list[x[2]].value]

LEMMA HitsAreAt ==
  ASSUME QueryInv, PlaceInv, Reached(base), NEW slot \in Slots, NEW s \in Essential, NEW j
  PROVE  <<s, j>> \in Hits(slot) <=> j \in At(scorers[s], base + slot)
<1> DEFINE L == scorers[s].list
           n == Len(L)
           d == base + slot
<1>1. s \in Scorers
  BY DEF Essential, Scorers, PlaceInv, QueryInv
<1>2. IsScorer(scorers[s]) /\ pos[s] \in 1 .. n + 1 /\ Behind(s, base)
  BY <1>1, WhereScorersAre DEF Reached
<1>3. n \in Nat /\ DOMAIN L = 1 .. n /\ \A x \in 1 .. n : L[x].doc \in Int
  BY <1>2, ListTypes DEF Docs
<1>4. Len(rows) \in Nat /\ n <= Len(rows)
  <2>1. n <= Len(rows)
    BY <1>2 DEF IsScorer
  <2>2. IsCorpus(rows)
    BY CorporaAssumption DEF QueryInv
  <2> QED
    BY <2>1, <2>2 DEF IsCorpus
<1>5. base \in Nat /\ slot \in Nat /\ slot < WindowSize /\ WindowSize \in Nat
  BY WindowAssumption DEF PlaceInv, Slots
<1>6. <<s, j>> \in Hits(slot) <=>
        /\ j \in 1 .. Len(rows) /\ j \in pos[s] .. n /\ L[j].doc < base + WindowSize
        /\ L[j].doc >= base /\ L[j].doc = d
  BY DEF Hits, InWindow, Consume, Below
<1>7. j \in At(scorers[s], d) <=> j \in 1 .. n /\ L[j].doc = d
  BY <1>3 DEF At
<1>8. \A x \in 1 .. pos[s] - 1 : L[x].doc < base
  BY <1>2 DEF Behind
<1> HIDE DEF L, n
<1>9. ASSUME j \in 1 .. n, L[j].doc = d
      PROVE  /\ j \in 1 .. Len(rows) /\ j \in pos[s] .. n /\ L[j].doc < base + WindowSize
             /\ L[j].doc >= base
  <2>1. L[j].doc < base + WindowSize /\ L[j].doc >= base
    BY <1>5, <1>9
  <2>2. j \notin 1 .. pos[s] - 1
    BY <1>3, <1>5, <1>8, <1>9, <2>1
  <2> QED
    BY <1>2, <1>3, <1>4, <1>9, <2>1, <2>2
<1>10. ASSUME j \in pos[s] .. n
       PROVE  j \in 1 .. n
  BY <1>2, <1>3, <1>10
<1> QED
  BY <1>6, <1>7, <1>9, <1>10

(* What is added up in a slot is what the essential scorers add to its      *)
(* document: each of them that has the document is hit once.                *)
LEMMA HitsAdd ==
  ASSUME QueryInv, PlaceInv, Reached(base), NEW slot \in Slots
  PROVE  SumOf(Worth(slot)) = AddedBy(Essential, base + slot)
<1> DEFINE d == base + slot
           A == {s \in Essential : At(scorers[s], d) # {}}
           T == Hits(slot)
           at(s) == CHOOSE j \in At(scorers[s], d) : TRUE
           p == [s \in A |-> <<s, at(s)>>]
           f == [s \in Essential |-> Adds(s, d)]
           fA == [s \in A |-> Adds(s, d)]
           g == Worth(slot)
<1>1. \A s \in Essential : s \in Scorers /\ IsScorer(scorers[s])
  BY DEF Essential, Scorers, PlaceInv, QueryInv
<1>2. \A s \in Essential : Adds(s, d) \in Nat
  BY <1>1, AddsFacts DEF Adds
<1>3. IsFiniteSet(Essential)
  <2>1. first + 1 \in Int /\ Len(scorers) \in Int
    BY DEF PlaceInv, QueryInv
  <2> QED
    BY <2>1, FS_Interval DEF Essential
<1>4. A \in SUBSET Essential /\ \A s \in Essential \ A : Adds(s, d) = 0
  BY DEF Adds, AddsOf
<1>5. IsFiniteSet(A)
  <2> HIDE DEF A
  <2> QED
    BY <1>3, <1>4, FS_Subset
<1>6. \A s \in A : /\ s \in Essential /\ at(s) \in At(scorers[s], d)
                   /\ <<s, at(s)>> \in T
                   /\ Adds(s, d) = scorers[s].weight * scorers[s].list[at(s)].value
  <2> SUFFICES ASSUME NEW s \in A
               PROVE  /\ s \in Essential /\ at(s) \in At(scorers[s], d)
                      /\ <<s, at(s)>> \in T
                      /\ Adds(s, d) = scorers[s].weight * scorers[s].list[at(s)].value
    OBVIOUS
  <2>1. s \in Essential /\ At(scorers[s], d) # {}
    OBVIOUS
  <2>2. at(s) \in At(scorers[s], d)
    BY <2>1
  <2>3. <<s, at(s)>> \in T
    BY <2>1, <2>2, HitsAreAt
  <2>4. Adds(s, d) = scorers[s].weight * scorers[s].list[at(s)].value
    BY <2>1 DEF Adds, AddsOf
  <2> QED
    BY <2>1, <2>2, <2>3, <2>4
<1>7. ASSUME NEW x \in T
      PROVE  x = <<x[1], x[2]>> /\ x[1] \in Essential /\ x[2] \in At(scorers[x[1]], d)
  <2>1. x = <<x[1], x[2]>> /\ x[1] \in Essential
    BY DEF Hits
  <2>2. <<x[1], x[2]>> \in Hits(slot)
    BY <2>1
  <2> QED
    BY <2>1, <2>2, HitsAreAt
<1>8. \A x \in T : x[1] \in A /\ p[x[1]] = x
  <2> SUFFICES ASSUME NEW x \in T
               PROVE  x[1] \in A /\ p[x[1]] = x
    OBVIOUS
  <2>1. x[1] \in A
    BY <1>7
  <2>2. at(x[1]) = x[2]
    BY <1>1, <1>6, <1>7, <2>1, OnePosting
  <2> QED
    BY <1>7, <2>1, <2>2
<1>9. /\ p \in [A -> T] /\ (\A s \in A : p[s][1] = s)
      /\ \A s \in A : g[p[s]] = Adds(s, d)
  <2>1. p \in [A -> T]
    BY <1>6
  <2>2. \A s \in A : p[s][1] = s /\ p[s][2] = at(s)
    OBVIOUS
  <2>3. \A s \in A : g[p[s]] = scorers[s].weight * scorers[s].list[at(s)].value
    <3> SUFFICES ASSUME NEW s \in A
                 PROVE  g[p[s]] = scorers[s].weight * scorers[s].list[at(s)].value
      OBVIOUS
    <3>1. p[s] \in Hits(slot)
      BY <2>1
    <3>2. g[p[s]] = scorers[p[s][1]].weight * scorers[p[s][1]].list[p[s][2]].value
      <4> HIDE DEF p
      <4> QED
        BY <3>1 DEF Worth
    <3> QED
      BY <2>2, <3>2
  <2> QED
    BY <1>6, <2>1, <2>2, <2>3
<1>10. g \in [T -> Nat]
  <2>1. ASSUME NEW x \in T
        PROVE  g[x] \in Nat
    <3>1. x[1] \in A /\ p[x[1]] = x
      BY <1>8
    <3>2. g[x] = Adds(x[1], d)
      BY <1>9, <3>1
    <3> QED
      BY <1>2, <1>4, <3>1, <3>2
  <2>2. DOMAIN g = T /\ g = [x \in T |-> g[x]]
    BY DEF Worth
  <2> HIDE DEF g, T
  <2> QED
    BY <2>1, <2>2
<1>11. f \in [Essential -> Nat] /\ fA \in [A -> Nat]
  BY <1>2, <1>4
<1> HIDE DEF A, T, p, g
<1>12. p \in Bijection(A, T)
  <2>1. \A x, y \in A : p[x] = p[y] => x = y
    BY <1>9
  <2>2. \A x \in T : \E s \in A : p[s] = x
    BY <1>8
  <2> QED
    BY <1>9, <2>1, <2>2 DEF Bijection, Injection, Surjection, IsInjective
<1>13. \A s \in A : fA[s] = g[p[s]] /\ fA[s] = f[s]
  BY <1>4, <1>9
<1>14. \A s \in Essential \ A : f[s] = 0
  BY <1>4
<1> HIDE DEF f, fA
<1>15. Renames(fA, A, p, g, T)
  BY <1>10, <1>11, <1>12, <1>13 DEF Renames
<1>16. SumOf(fA) = SumOf(g)
  BY <1>5, <1>15, SumMapped
<1>17. SumOf(f) = SumOf(fA)
  BY <1>3, <1>4, <1>11, <1>13, <1>14, SumOverSupport
<1> QED
  BY <1>16, <1>17 DEF AddedBy, f, g

(* A slot without a hit stands for a document no essential scorer has.      *)
LEMMA UnhitAddsNothing ==
  ASSUME QueryInv, PlaceInv, Reached(base), NEW slot \in Slots
  PROVE  /\ Hits(slot) = {} => \A s \in Essential : Adds(s, base + slot) = 0
         /\ Hits(slot) # {} => base + slot \in Docs
<1>1. ASSUME Hits(slot) = {}, NEW s \in Essential
      PROVE  Adds(s, base + slot) = 0
  <2>1. \A j : j \notin At(scorers[s], base + slot)
    BY <1>1, HitsAreAt
  <2>2. At(scorers[s], base + slot) = {}
    BY <2>1
  <2> QED
    BY <2>2 DEF Adds, AddsOf
<1>2. ASSUME Hits(slot) # {}
      PROVE  base + slot \in Docs
  <2>1. PICK x : x \in Hits(slot)
    BY <1>2
  <2>2. x = <<x[1], x[2]>> /\ x[1] \in Essential
    BY <2>1 DEF Hits
  <2>3. x[2] \in At(scorers[x[1]], base + slot)
    BY <2>1, <2>2, HitsAreAt
  <2>4. IsScorer(scorers[x[1]])
    BY <2>2 DEF Essential, Scorers, PlaceInv, QueryInv
  <2>5. x[2] \in DOMAIN scorers[x[1]].list /\ scorers[x[1]].list[x[2]].doc = base + slot
    BY <2>3 DEF At
  <2> QED
    BY <2>4, <2>5, ListTypes
<1> QED
  BY <1>1, <1>2
-----------------------------------------------------------------------------
(* What scoring a window leaves behind. *)
LEMMA WindowScored ==
  ASSUME QueryInv, PlaceInv, CleanInv, BoundInv, ScoreInv, ScoreEssential
  PROVE  /\ bits' = {slot \in Slots : Hits(slot) # {}}
         /\ scores' \in [Slots -> Nat]
         /\ \A slot \in bits' : scores'[slot] = AddedBy(Essential, base + slot)
         /\ \A slot \in Slots : slot \notin bits' => scores'[slot] = 0
<1>1. pc = "score" /\ Reached(base)
  BY DEF ScoreEssential, ScoreInv
<1>2. /\ bits' = {slot \in Slots : Hits(slot) # {}}
      /\ scores' = [slot \in Slots |-> IF slot \in bits' THEN scores[slot] + SumOf(Worth(slot))
                                                         ELSE scores[slot]]
  BY DEF ScoreEssential, Hits, InWindow, Worth
<1>3. \A slot \in Slots : scores[slot] = 0
  BY <1>1 DEF CleanInv, ScratchClean
<1>4. \A slot \in Slots : /\ SumOf(Worth(slot)) = AddedBy(Essential, base + slot)
                          /\ AddedBy(Essential, base + slot) \in Nat
  <2> SUFFICES ASSUME NEW slot \in Slots
               PROVE  /\ SumOf(Worth(slot)) = AddedBy(Essential, base + slot)
                      /\ AddedBy(Essential, base + slot) \in Nat
    OBVIOUS
  <2>1. SumOf(Worth(slot)) = AddedBy(Essential, base + slot)
    BY <1>1, HitsAdd
  <2>2. AddedBy(Essential, base + slot) \in Nat
    <3> DEFINE X == {}
    <3>1. Essential \in SUBSET Scorers /\ X \in SUBSET Scorers /\ Essential \intersect X = {}
      BY DEF Essential, Scorers, PlaceInv, QueryInv
    <3> HIDE DEF X
    <3> QED
      BY <3>1, AddedTogether
  <2> QED
    BY <2>1, <2>2
<1>5. \A slot \in Slots : slot \in bits' => scores'[slot] = AddedBy(Essential, base + slot)
  <2> SUFFICES ASSUME NEW slot \in Slots, slot \in bits'
               PROVE  scores'[slot] = AddedBy(Essential, base + slot)
    OBVIOUS
  <2>1. scores'[slot] = scores[slot] + SumOf(Worth(slot))
    BY <1>2
  <2> QED
    BY <1>3, <1>4, <2>1
<1>6. \A slot \in Slots : slot \notin bits' => scores'[slot] = 0
  BY <1>2, <1>3
<1>7. bits' \subseteq Slots
  BY <1>2
<1>8. scores' \in [Slots -> Nat]
  <2>1. \A slot \in Slots : scores'[slot] \in Nat
    BY <1>4, <1>5, <1>6
  <2>2. DOMAIN scores' = Slots /\ scores' = [slot \in Slots |-> scores'[slot]]
    BY <1>2
  <2> QED
    BY <2>1, <2>2
<1> QED
  BY <1>2, <1>5, <1>6, <1>7, <1>8

(* Where the scorers are then: the essential ones past the window.          *)
LEMMA ScorersMoved ==
  ASSUME QueryInv, PlaceInv, ScoreInv, ScoreEssential, NEW s \in Scorers
  PROVE  /\ pos'[s] \in 1 .. Len(scorers[s].list) + 1
         /\ \A j \in 1 .. pos'[s] - 1 : scorers[s].list[j].doc < base + WindowSize
         /\ s \in Essential =>
              \A j \in pos'[s] .. Len(scorers[s].list) : base + WindowSize <= scorers[s].list[j].doc
         /\ s \notin Essential => pos'[s] = pos[s]
<1> DEFINE L == scorers[s].list
           n == Len(L)
           e == base + WindowSize
<1>1. pc = "score" /\ Reached(base)
  BY DEF ScoreEssential, ScoreInv
<1>2. IsScorer(scorers[s]) /\ pos[s] \in 1 .. n + 1 /\ Behind(s, base)
  BY <1>1, WhereScorersAre DEF Reached
<1>3. n \in Nat /\ base \in Int /\ e \in Int /\ base <= e
  BY <1>2, ListTypes, WindowAssumption DEF PlaceInv
<1>4. pos'[s] = IF s \in Essential THEN AdvanceTo(s, e) ELSE pos[s]
  BY DEF ScoreEssential, Consume, AdvanceTo
<1>5. Behind(s, e)
  BY <1>2, <1>3, BehindLater
<1>6. IsMoved(s, e, AdvanceTo(s, e))
  BY <1>2, <1>3, BelowMoves
<1> DEFINE a == AdvanceTo(s, e)
<1>7. /\ a \in pos[s] .. n + 1
      /\ \A i \in pos[s] .. a - 1 : L[i].doc < e
      /\ \A i \in a .. n : e <= L[i].doc
  BY <1>6 DEF IsMoved
<1>8. \A i \in 1 .. pos[s] - 1 : L[i].doc < e
  BY <1>5 DEF Behind
<1> HIDE DEF L, n, e, a
<1>9. \A i \in 1 .. a - 1 : L[i].doc < e
  <2> SUFFICES ASSUME NEW i \in 1 .. a - 1
               PROVE  L[i].doc < e
    OBVIOUS
  <2>1. i \in 1 .. pos[s] - 1 \/ i \in pos[s] .. a - 1
    BY <1>2, <1>3, <1>7
  <2> QED
    BY <1>7, <1>8, <2>1
<1>10. a \in 1 .. n + 1
  BY <1>2, <1>3, <1>7
<1>11. CASE s \in Essential
  <2>1. pos'[s] = a
    BY <1>4, <1>11 DEF a
  <2> QED
    BY <1>7, <1>9, <1>10, <1>11, <2>1 DEF L, n, e
<1>12. CASE s \notin Essential
  <2>1. pos'[s] = pos[s]
    BY <1>4, <1>12
  <2> QED
    BY <1>2, <1>8, <1>12, <2>1 DEF L, n, e
<1> QED
  BY <1>11, <1>12

(* The documents of the window that no essential scorer has can be left     *)
(* out.                                                                     *)
LEMMA WindowSkips ==
  ASSUME QueryInv, PlaceInv, BoundInv, ScoreInv, pc = "score", NEW B,
         B = {slot \in Slots : Hits(slot) # {}}
  PROVE  Top(heap, Upto(base + WindowSize) \ {base + slot : slot \in B})
<1> DEFINE D == Upto(base)
           V == {base + slot : slot \in B}
           E == Upto(base + WindowSize) \ V
<1>1. Reached(base) /\ Top(heap, D)
  BY DEF ScoreInv
<1>2. base \in Nat /\ WindowSize \in Nat /\ WindowSize > 0
  BY WindowAssumption DEF PlaceInv
<1>3. \A v \in V : v >= base
  BY <1>2 DEF Slots
<1>4. D \subseteq E
  <2> SUFFICES ASSUME NEW x \in D
               PROVE  x \in E
    OBVIOUS
  <2>1. x \in Docs /\ x \in Int /\ x < base
    BY DEF Upto, Docs
  <2>2. x \notin V
    <3> HIDE DEF V
    <3> QED
      BY <1>2, <1>3, <2>1
  <2>3. x \in Upto(base + WindowSize)
    BY <1>2, <2>1 DEF Upto
  <2> QED
    BY <2>2, <2>3
<1>5. ASSUME NEW x \in (E \ D) \intersect Docs, NEW s \in first + 1 .. Len(scorers)
      PROVE  Adds(s, x) = 0
  <2>1. x \in Int /\ x < base + WindowSize /\ ~(x < base) /\ x \notin V
    BY DEF Upto, Docs
  <2> DEFINE slot == x - base
  <2>2. slot \in Slots /\ base + slot = x
    BY <1>2, <2>1 DEF Slots
  <2>3. slot \notin B
    <3>1. ASSUME slot \in B
          PROVE  x \in V
      <4> HIDE DEF slot
      <4> QED
        BY <2>2, <3>1
    <3> QED
      BY <2>1, <3>1
  <2> HIDE DEF slot
  <2>4. Hits(slot) = {} /\ s \in Essential
    BY <2>2, <2>3 DEF Essential
  <2> QED
    BY <1>1, <2>2, <2>4, UnhitAddsNothing
<1>6. first \in 0 .. Len(scorers) /\ \A i \in 1 .. first : Full /\ Prefix(i) < Threshold
  BY DEF PlaceInv, BoundInv, InQuery
<1> HIDE DEF D, E
<1>7. Top(heap, E)
  BY <1>1, <1>4, <1>5, <1>6, SkipTo
<1> QED
  BY <1>7 DEF E

(* Scoring keeps the invariant: the documents hit wait, the others are      *)
(* dealt with.                                                              *)
LEMMA ScoreEssentialInv ==
  ASSUME IInv, ScoreEssential
  PROVE  IInv'
<1>1. /\ SameQuery /\ heap' = heap /\ result' = result /\ first' = first /\ base' = base
      /\ pc = "score" /\ pc' = "evaluate"
  BY DEF ScoreEssential, queryVars, SameQuery
<1>2. QueryInv /\ PlaceInv /\ CleanInv /\ BoundInv /\ ScoreInv /\ ResultInv
  BY DEF IInv
<1>3. QueryInv' /\ ScoreOf' = ScoreOf /\ Docs' = Docs /\ Scorers' = Scorers
      /\ \A X, d : AddedBy(X, d)' = AddedBy(X, d)
  BY <1>1, <1>2, QueryKept
<1>4. k' = k /\ scorers' = scorers /\ selected' = selected /\ rows' = rows
  BY <1>1 DEF SameQuery
<1>5. Slots' = Slots /\ Essential' = Essential /\ DOMAIN scores' = Slots
  BY <1>1, <1>4 DEF Slots, Essential, ScoreEssential
<1>6. /\ bits' = {slot \in Slots : Hits(slot) # {}}
      /\ scores' \in [Slots -> Nat]
      /\ \A slot \in bits' : scores'[slot] = AddedBy(Essential, base + slot)
      /\ \A slot \in Slots : slot \notin bits' => scores'[slot] = 0
  BY <1>2, WindowScored
<1>7. CleanInv'
  BY <1>1, <1>5, <1>6 DEF CleanInv, ScratchClean
<1>8. BoundInv'
  BY <1>1, <1>2, <1>4 DEF BoundInv, InQuery, Full, Threshold, Prefix
<1>9. \A s \in Scorers :
        /\ pos'[s] \in 1 .. Len(scorers[s].list) + 1
        /\ \A j \in 1 .. pos'[s] - 1 : scorers[s].list[j].doc < base + WindowSize
        /\ s \in Essential =>
             \A j \in pos'[s] .. Len(scorers[s].list) : base + WindowSize <= scorers[s].list[j].doc
        /\ s \notin Essential => pos'[s] = pos[s]
  BY <1>2, ScorersMoved
<1>10. PlaceInv'
  <2>1. pos' \in [Scorers -> Nat]
    <3>1. \A s \in Scorers : pos'[s] \in Nat
      <4> SUFFICES ASSUME NEW s \in Scorers
                   PROVE  pos'[s] \in Nat
        OBVIOUS
      <4>1. Len(scorers[s].list) \in Nat
        BY <1>2, WhereScorersAre, ListTypes
      <4> QED
        BY <1>9, <4>1
    <3>2. DOMAIN pos' = Scorers /\ pos' = [s \in Scorers |-> pos'[s]]
      BY DEF ScoreEssential
    <3> QED
      BY <3>1, <3>2
  <2>2. bits' \subseteq Slots
    BY <1>6
  <2> QED
    BY <1>1, <1>2, <1>3, <1>4, <1>5, <1>6, <1>9, <2>1, <2>2 DEF PlaceInv
<1>11. Reached(base + WindowSize)'
  <2>1. WindowSize' = WindowSize /\ base' = base /\ scorers' = scorers
    BY <1>1, <1>4
  <2>2. ASSUME NEW s \in Scorers
        PROVE  Behind(s, base + WindowSize)' /\ (s \in Essential => Ahead(s, base + WindowSize)')
    <3>1. Behind(s, base + WindowSize)'
      BY <1>9, <2>1 DEF Behind
    <3>2. s \in Essential => Ahead(s, base + WindowSize)'
      BY <1>9, <2>1 DEF Ahead
    <3> QED
      BY <3>1, <3>2
  <2>3. Essential \subseteq Scorers
    BY <1>2 DEF Essential, Scorers, PlaceInv, QueryInv
  <2> QED
    BY <1>3, <1>5, <2>2, <2>3 DEF Reached
<1>12. Top(heap, Upto(base + WindowSize) \ Waiting)'
  <2> DEFINE B == bits'
  <2>1. Top(heap, Upto(base + WindowSize) \ {base + slot : slot \in B})
    <3>1. B = {slot \in Slots : Hits(slot) # {}}
      BY <1>6
    <3> HIDE DEF B
    <3> QED
      BY <1>1, <1>2, <3>1, WindowSkips
  <2>2. (Upto(base + WindowSize) \ Waiting)' = Upto(base + WindowSize) \ {base + slot : slot \in B}
    BY <1>1, <1>3 DEF Upto, Waiting
  <2> QED
    BY <1>1, <1>3, <1>4, <2>1, <2>2 DEF Top
<1>13. \A slot \in bits' : /\ base + slot \in Docs
                           /\ \A s \in 1 .. first : Behind(s, base + slot)'
  <2> SUFFICES ASSUME NEW slot \in bits'
               PROVE  /\ base + slot \in Docs
                      /\ \A s \in 1 .. first : Behind(s, base + slot)'
    OBVIOUS
  <2>1. slot \in Slots /\ Hits(slot) # {}
    BY <1>6
  <2>2. Reached(base)
    BY <1>1, <1>2 DEF ScoreInv
  <2>3. base + slot \in Docs
    BY <1>2, <2>1, <2>2, UnhitAddsNothing
  <2>4. ASSUME NEW s \in 1 .. first
        PROVE  Behind(s, base + slot)'
    <3>1. s \in Scorers /\ s \notin Essential
      BY <1>2, <2>4 DEF PlaceInv, QueryInv, Scorers, Essential
    <3>2. Behind(s, base)
      BY <2>2, <3>1 DEF Reached
    <3>3. base \in Int /\ base + slot \in Int /\ base <= base + slot
      BY <1>2, <2>1 DEF PlaceInv, Slots
    <3>4. Behind(s, base + slot)
      BY <1>2, <3>1, <3>2, <3>3, WhereScorersAre, BehindLater
    <3>5. pos'[s] = pos[s]
      BY <1>9, <3>1
    <3> QED
      BY <1>4, <3>4, <3>5, <1>1 DEF Behind
  <2> QED
    BY <2>3, <2>4
<1>14. EvaluateInv'
  <2>1. IsWindow(base)
    BY <1>1, <1>2 DEF ScoreInv
  <2> QED
    BY <1>1, <1>3, <1>5, <1>6, <1>11, <1>12, <1>13, <2>1 DEF EvaluateInv, IsWindow
<1>15. PartitionInv' /\ ScoreInv' /\ ResultInv'
  BY <1>1, <1>2 DEF PartitionInv, ScoreInv, ResultInv
<1> QED
  BY <1>1, <1>3, <1>7, <1>8, <1>10, <1>14, <1>15 DEF IInv
-----------------------------------------------------------------------------
(* Evaluating a slot. *)

(* The scorers looked up, from m on, add what they should. *)
LEMMA TotalIs ==
  ASSUME QueryInv, PlaceInv, NEW d \in Docs, \A s \in 1 .. first : Behind(s, d),
         NEW e \in Nat, NEW m \in 1 .. first + 1
  PROVE  Total(d, e, m) = e + AddedBy(m .. first, d)
<1>1. \A i \in m .. first : Contribution(i, d) = Adds(i, d)
  <2> SUFFICES ASSUME NEW i \in m .. first
               PROVE  Contribution(i, d) = Adds(i, d)
    OBVIOUS
  <2>1. i \in 1 .. first /\ i \in Scorers
    BY DEF PlaceInv, QueryInv, Scorers
  <2>2. d \in Int
    BY DEF Docs
  <2> QED
    BY <2>1, <2>2, WhereScorersAre, ContributionIsExact
<1>2. [i \in m .. first |-> Contribution(i, d)] = [i \in m .. first |-> Adds(i, d)]
  BY <1>1
<1> QED
  BY <1>2 DEF Total, AddedBy

(* The slot to evaluate.                                                    *)
LEMMA NextSlot ==
  ASSUME IInv, pc = "evaluate", bits # {}
  PROVE  LET slot == Min(bits)
             d    == base + slot
         IN  /\ slot \in bits /\ slot \in Slots /\ slot \in Nat /\ \A x \in bits : slot <= x
             /\ d \in Docs /\ d \in Nat /\ d < base + WindowSize
             /\ scores[slot] = AddedBy(Essential, d) /\ scores[slot] \in Nat
             /\ \A s \in 1 .. first : Behind(s, d)
<1> DEFINE m == Min(bits)
<1>1. bits \subseteq Slots /\ bits \subseteq Nat
  BY DEF IInv, PlaceInv, Slots
<1>2. \E x \in bits : \A y \in bits : x <= y
  BY <1>1, LeastNatural
<1>3. m \in bits /\ \A x \in bits : m <= x
  BY <1>2 DEF Min
<1> HIDE DEF m
<1>4. /\ base + m \in Docs /\ scores[m] = AddedBy(Essential, base + m)
      /\ \A s \in 1 .. first : Behind(s, base + m)
  BY <1>3 DEF IInv, EvaluateInv
<1>5. m \in Slots /\ m \in Nat /\ scores[m] \in Nat
  BY <1>1, <1>3 DEF IInv, PlaceInv
<1>6. base + m \in Nat /\ base + m < base + WindowSize
  BY <1>5, WindowAssumption DEF IInv, PlaceInv, Slots
<1> QED
  BY <1>3, <1>4, <1>5, <1>6 DEF m

(* A score is at least what the essential scorers add, and at most that     *)
(* with all that the others can.                                            *)
LEMMA HopelessIs ==
  ASSUME QueryInv, PlaceInv, NEW d \in Docs, NEW e, e = AddedBy(Essential, d)
  PROVE  /\ e \in Nat /\ Prefix(first) \in Nat /\ Score(d) \in Nat
         /\ Score(d) <= e + Prefix(first)
         /\ e <= Score(d)
<1>1. first \in 0 .. Len(scorers) /\ first \in Nat /\ first + 1 \in 1 .. first + 1
      /\ 1 \in 1 .. first + 1
  BY DEF PlaceInv, QueryInv
<1> DEFINE m == first + 1
           Y == m .. first
           f == [s \in Y |-> Adds(s, d)]
<1>2. Y = {}
  BY <1>1
<1>3. DOMAIN f = {} /\ f \in [{} -> Nat]
  BY <1>2
<1>4. AddedBy(Y, d) = SumOf(f)
  BY DEF AddedBy
<1> HIDE DEF f
<1>5. AddedBy(Y, d) = 0
  BY <1>3, <1>4, SumOfNone
<1>6. m - 1 = first
  BY <1>1
<1> HIDE DEF m
<1>7. /\ AddedBy(Essential, d) \in Nat /\ Prefix(m - 1) \in Nat /\ Score(d) \in Nat
      /\ Score(d) <= AddedBy(Essential, d) + AddedBy(Y, d) + Prefix(m - 1)
  BY <1>1, ScoreParts DEF m
<1>8. Score(d) = AddedBy(Essential, d) + AddedBy(1 .. first, d) /\ AddedBy(1 .. first, d) \in Nat
  BY <1>1, ScoreParts
<1> HIDE DEF Y
<1>9. Prefix(m - 1) = Prefix(first)
  BY <1>6
<1>10. Score(d) <= e + Prefix(first)
  BY <1>5, <1>7, <1>9
<1> QED
  BY <1>7, <1>8, <1>9, <1>10

(* The last scorer added is one at which the total cannot rise above the    *)
(* threshold any more, or all are added.                                    *)
LEMMA LastAddedIs ==
  ASSUME PlaceInv, Len(scorers) \in Nat, NEW d, NEW e
  PROVE  LET l == LastAdded(d, e)
         IN  \/ l \in 1 .. first /\ Total(d, e, l) + Prefix(l - 1) <= Threshold
             \/ l = 1
<1> DEFINE P(s) == Total(d, e, s) + Prefix(s - 1) <= Threshold
           S == {1} \union {s \in 1 .. first : P(s)}
<1>1. first \in Nat
  BY DEF PlaceInv
<1>2. S \subseteq 0 .. first + 1 /\ S # {} /\ first + 1 \in Nat
  BY <1>1
<1>3. LastAdded(d, e) = Max(S)
  BY DEF LastAdded
<1>4. \A s \in S : (s \in 1 .. first /\ P(s)) \/ s = 1
  OBVIOUS
<1> HIDE DEF S, P
<1>5. \E m \in S : \A x \in S : x <= m
  <2> DEFINE n == first + 1
  <2>1. n \in Nat /\ S \subseteq 0 .. n
    BY <1>2
  <2> HIDE DEF n
  <2> QED
    BY <1>2, <2>1, GreatestNatural
<1>6. \E m \in S : \A x \in S : m >= x
  BY <1>2, <1>5
<1>7. Max(S) \in S
  BY <1>6 DEF Max
<1> QED
  BY <1>3, <1>4, <1>7 DEF P
-----------------------------------------------------------------------------
(* A document that matches, dealt with, is one more to choose from.         *)
LEMMA MoreMatching ==
  ASSUME QueryInv, NEW D, NEW d \in Docs, d \in selected, Score(d) > 0
  PROVE  Matching(D \union {d}, ScoreOf, selected) = Matching(D, ScoreOf, selected) \union {d}
  BY ScoresAreNaturals DEF Matching

(* A document that could enter the heap and is accepted, whose whole score  *)
(* is known, is added.                                                      *)
LEMMA TopAdds ==
  ASSUME QueryInv, NEW D, Top(heap, D), NEW d \in Docs, d \notin D, d \in selected,
         Score(d) > 0, NEW g \in Added(heap, k, [score |-> Score(d), doc |-> d])
  PROVE  /\ IsTop(g, ScoreOf, k, Matching(D \union {d}, ScoreOf, selected))
         /\ Full => IsFull(g, k) /\ LeastScore(heap) <= LeastScore(g)
<1> DEFINE f == ScoreOf
           A == Matching(D, f, selected)
           B == Matching(D \union {d}, f, selected)
<1>1. f \in [Docs -> Nat] /\ DOMAIN f = Docs /\ f[d] = Score(d)
  BY ScoresAreNaturals
<1>2. k \in Nat \ {0}
  BY KsArePositive
<1>3. A \in SUBSET Docs /\ d \in Docs \ A
  BY <1>1 DEF Matching
<1>4. B = A \union {d}
  BY MoreMatching
<1>5. IsTop(heap, f, k, A)
  BY DEF Top
<1>6. g \in Added(heap, k, ItemOf(f, d))
  BY <1>1 DEF ItemOf
<1> HIDE DEF A, B, f
<1>7. IsTop(g, f, k, A \union {d}) /\ (IsFull(heap, k) => IsFull(g, k) /\ LeastScore(heap) <= LeastScore(g))
  BY <1>1, <1>2, <1>3, <1>5, <1>6, AddedIsTop
<1> QED
  BY <1>4, <1>7 DEF Full, B, f

(* What add() makes of a document whose total the threshold cut short.      *)
LEMMA CutShort ==
  ASSUME Full, NEW t, NEW d, t <= LeastScore(heap), k \in Nat
  PROVE  Added(heap, k, [score |-> t, doc |-> d]) = {heap}
<1>1. ~(Size(heap) < k)
  BY DEF Full, IsFull
<1>2. [score |-> t, doc |-> d].score <= LeastScore(heap)
  OBVIOUS
<1> QED
  BY <1>1, <1>2 DEF Added

(* Whether the document is dropped unseen, added with a total cut short, or *)
(* added with its whole score: the heap has a top k of one document more.   *)
LEMMA Evaluated ==
  ASSUME IInv, pc = "evaluate", bits # {}, NEW D, NEW slot, slot = Min(bits),
         NEW d, d = base + slot, Top(heap, D), d \notin D, NEW g,
         IF Hopeless(scores[slot]) \/ d \notin selected THEN g = heap
         ELSE g \in Added(heap, k, [score |-> Total(d, scores[slot], LastAdded(d, scores[slot])),
                                    doc   |-> d])
  PROVE  /\ IsTop(g, ScoreOf, k, Matching(D \union {d}, ScoreOf, selected))
         /\ Full => IsFull(g, k) /\ LeastScore(heap) <= LeastScore(g)
<1> DEFINE e == scores[slot]
           l == LastAdded(d, e)
           E == D \union {d}
<1>1. QueryInv /\ PlaceInv /\ BoundInv /\ InQuery
  BY DEF IInv, InQuery
<1>2. d \in Docs /\ e = AddedBy(Essential, d) /\ \A s \in 1 .. first : Behind(s, d)
  BY NextSlot
<1>3. k \in Nat /\ k \in Nat \ {0}
  BY <1>1, KsArePositive
<1>4. /\ Threshold \in Nat /\ (Threshold > 0 => Full)
      /\ Full => Threshold = LeastScore(heap)
  BY <1>1, ThresholdIs
<1>5. first \in Nat /\ first \in 0 .. Len(scorers) /\ Len(scorers) \in Nat
  BY <1>1 DEF PlaceInv, QueryInv
<1> HIDE DEF e
<1>6. e \in Nat /\ Prefix(first) \in Nat /\ Score(d) \in Nat /\ Score(d) <= e + Prefix(first)
      /\ e <= Score(d)
  BY <1>1, <1>2, HopelessIs
<1>7. \A i \in 1 .. first : Full /\ Prefix(i) < Threshold
  BY <1>1 DEF BoundInv
<1>8. ASSUME g = heap, Score(d) > 0 /\ d \in selected => Full /\ Score(d) <= LeastScore(heap)
      PROVE  /\ IsTop(g, ScoreOf, k, Matching(E, ScoreOf, selected))
             /\ Full => IsFull(g, k) /\ LeastScore(heap) <= LeastScore(g)
  <2>1. D \subseteq E /\ \A x \in (E \ D) \intersect Docs : x = d
    OBVIOUS
  <2> HIDE DEF E
  <2>2. Top(heap, E)
    BY <1>1, <1>8, <2>1, TopSkips
  <2>3. Full => LeastScore(heap) <= LeastScore(heap)
    BY <1>4
  <2> QED
    BY <1>8, <2>2, <2>3 DEF Top, Full
<1>9. CASE Hopeless(e) \/ d \notin selected
  <2>1. g = heap
    BY <1>9 DEF e
  <2>2. ASSUME Score(d) > 0, d \in selected
        PROVE  Full /\ Score(d) <= LeastScore(heap)
    <3>1. e + Prefix(first) <= Threshold
      BY <1>9, <2>2 DEF Hopeless
    <3>2. Score(d) <= Threshold /\ Threshold > 0
      BY <1>4, <1>6, <2>2, <3>1
    <3> QED
      BY <1>4, <3>2
  <2> QED
    BY <1>8, <2>1, <2>2
<1>10. CASE ~(Hopeless(e) \/ d \notin selected)
  <2>1. g \in Added(heap, k, [score |-> Total(d, e, l), doc |-> d]) /\ d \in selected
    BY <1>10 DEF e
  <2>2. e + Prefix(first) > Threshold
    BY <1>4, <1>6, <1>10 DEF Hopeless
  <2>3. Score(d) > 0
    <3>1. CASE first = 0
      <4>1. Prefix(first) = 0
        BY <3>1, NoPrefix
      <4> QED
        BY <1>4, <1>6, <2>2, <4>1
    <3>2. CASE first # 0
      <4>1. first \in 1 .. first
        BY <1>5, <3>2
      <4>2. Prefix(first) < Threshold
        BY <1>7, <4>1
      <4> QED
        BY <1>4, <1>6, <2>2, <4>2
    <3> QED
      BY <3>1, <3>2
  <2>4. (l \in 1 .. first /\ Total(d, e, l) + Prefix(l - 1) <= Threshold) \/ l = 1
    BY <1>1, <1>5, LastAddedIs
  <2> HIDE DEF l, E
  <2>5. CASE l \in 1 .. first /\ Total(d, e, l) + Prefix(l - 1) <= Threshold
    <3>1. l \in 1 .. first + 1
      BY <1>5, <2>5
    <3>2. Total(d, e, l) = e + AddedBy(l .. first, d)
      BY <1>1, <1>2, <1>6, <3>1, TotalIs
    <3>3. /\ AddedBy(l .. first, d) \in Nat /\ Prefix(l - 1) \in Nat
          /\ Score(d) <= AddedBy(Essential, d) + AddedBy(l .. first, d) + Prefix(l - 1)
      BY <1>1, <1>2, <1>5, <3>1, ScoreParts
    <3>4. Score(d) <= e + AddedBy(l .. first, d) + Prefix(l - 1)
      BY <1>2, <3>3
    <3>5. Full /\ Threshold = LeastScore(heap)
      BY <1>4, <1>7, <2>5
    <3>6. Total(d, e, l) \in Nat /\ Score(d) <= Total(d, e, l) + Prefix(l - 1)
      BY <1>6, <3>2, <3>3, <3>4
    <3>7. Total(d, e, l) <= LeastScore(heap) /\ Score(d) <= LeastScore(heap)
      <4>1. Total(d, e, l) <= Threshold /\ Score(d) <= Threshold
        BY <1>4, <1>6, <2>5, <3>3, <3>6
      <4> QED
        BY <3>5, <4>1
    <3>8. g = heap
      BY <1>3, <2>1, <3>5, <3>7, CutShort
    <3> QED
      BY <1>8, <3>5, <3>7, <3>8 DEF E
  <2>6. CASE l = 1
    <3>1. 1 \in 1 .. first + 1
      BY <1>5
    <3>2. Total(d, e, 1) = e + AddedBy(1 .. first, d)
      BY <1>1, <1>2, <1>6, <3>1, TotalIs
    <3>3. Score(d) = AddedBy(Essential, d) + AddedBy(1 .. first, d)
      BY <1>1, <1>2, <1>5, <3>1, ScoreParts
    <3>4. Total(d, e, l) = Score(d)
      BY <1>2, <2>6, <3>2, <3>3
    <3>5. g \in Added(heap, k, [score |-> Score(d), doc |-> d])
      BY <2>1, <3>4
    <3> QED
      BY <1>1, <1>2, <2>1, <2>3, <3>5, TopAdds DEF E
  <2> QED
    BY <2>4, <2>5, <2>6
<1> QED
  BY <1>9, <1>10 DEF E

(* How the scorers looked up move. *)
LEMMA LookedUp ==
  ASSUME IInv, Evaluate, NEW slot, slot = Min(bits), NEW d, d = base + slot, NEW s \in Scorers
  PROVE  \/ pos'[s] = pos[s]
         \/ s \in 1 .. first /\ pos'[s] = AdvanceTo(s, d)
<1> DEFINE l == LastAdded(d, scores[slot])
<1>1. /\ (Hopeless(scores[slot]) \/ d \notin selected) => pos' = pos
      /\ ~(Hopeless(scores[slot]) \/ d \notin selected) =>
           pos' = [x \in Scorers |-> IF x \in l .. first THEN AdvanceTo(x, d) ELSE pos[x]]
  BY DEF Evaluate
<1>2. l = 1 \/ l \in 1 .. first
  BY LastAddedIs DEF IInv, PlaceInv, QueryInv
<1>3. first \in Nat
  BY DEF IInv, PlaceInv, QueryInv
<1> HIDE DEF l
<1>4. l .. first \subseteq 1 .. first
  BY <1>2, <1>3
<1> QED
  BY <1>1, <1>4
-----------------------------------------------------------------------------
(* They do not pass a document that is still to be evaluated.               *)
LEMMA LookedUpIs ==
  ASSUME IInv, Evaluate, NEW slot, slot = Min(bits), NEW d, d = base + slot, NEW s \in Scorers
  PROVE  /\ pos'[s] \in 1 .. Len(scorers[s].list) + 1
         /\ \A x \in Int : d <= x /\ Behind(s, x) => Behind(s, x)'
         /\ s \in Essential => pos'[s] = pos[s]
<1> DEFINE L == scorers[s].list
           n == Len(L)
           a == AdvanceTo(s, d)
<1>1. QueryInv /\ PlaceInv /\ pc = "evaluate" /\ bits # {}
  BY DEF IInv, Evaluate
<1>2. IsScorer(scorers[s]) /\ pos[s] \in 1 .. n + 1
  BY <1>1, WhereScorersAre
<1>3. n \in Nat /\ \A i \in 1 .. n : L[i].doc \in Int
  BY <1>2, ListTypes DEF Docs
<1>4. d \in Nat
  BY <1>1, NextSlot
<1>5. scorers' = scorers
  BY DEF Evaluate, queryVars
<1>6. CASE pos'[s] = pos[s]
  <2>1. \A x \in Int : Behind(s, x) => Behind(s, x)'
    BY <1>5, <1>6 DEF Behind
  <2> QED
    BY <1>2, <1>6, <2>1
<1>7. CASE s \in 1 .. first /\ pos'[s] = a
  <2>1. s \notin Essential
    BY <1>1, <1>7 DEF Essential, PlaceInv, QueryInv
  <2>2. IsMoved(s, d, a)
    BY <1>2, <1>4, BelowMoves
  <2>3. /\ a \in pos[s] .. n + 1
        /\ \A i \in pos[s] .. a - 1 : L[i].doc < d
    BY <2>2 DEF IsMoved
  <2> HIDE DEF a
  <2>4. a \in 1 .. n + 1
    <3> HIDE DEF n
    <3> QED
      BY <1>2, <1>3, <2>3
  <2>5. ASSUME NEW x \in Int, d <= x, Behind(s, x)
        PROVE  Behind(s, x)'
    <3>1. \A i \in 1 .. pos[s] - 1 : L[i].doc < x
      BY <2>5 DEF Behind
    <3> HIDE DEF L, n
    <3>2. \A i \in 1 .. a - 1 : L[i].doc < x
      <4> SUFFICES ASSUME NEW i \in 1 .. a - 1
                   PROVE  L[i].doc < x
        OBVIOUS
      <4>1. i \in 1 .. pos[s] - 1 \/ i \in pos[s] .. a - 1
        BY <1>2, <1>3, <2>3
      <4>2. i \in 1 .. n
        BY <1>3, <2>4
      <4>3. L[i].doc \in Int
        BY <1>3, <4>2
      <4> QED
        BY <1>4, <2>3, <2>5, <3>1, <4>1, <4>3
    <3> QED
      BY <1>5, <1>7, <3>2 DEF Behind, L
  <2> QED
    BY <1>7, <2>1, <2>4, <2>5
<1> QED
  BY <1>6, <1>7, LookedUp

(* A state lemma, to be used of the next state too. *)
LEMMA WaitingThreshold ==
  QueryInv /\ Top(heap, Upto(base + WindowSize) \ Waiting) => Threshold \in Nat
  BY ThresholdIs

(* One document more is dealt with, and the threshold does not fall.        *)
LEMMA EvaluateKeepsInv ==
  ASSUME IInv, Evaluate
  PROVE  IInv' /\ Threshold' >= Threshold
<1> DEFINE slot == Min(bits)
           d == base + slot
           D == Upto(base + WindowSize) \ Waiting
           E == D \union {d}
<1>1. /\ SameQuery /\ result' = result /\ first' = first /\ base' = base
      /\ pc = "evaluate" /\ pc' = "evaluate" /\ bits # {}
      /\ bits' = bits \ {slot} /\ scores' = [scores EXCEPT ![slot] = 0]
  BY DEF Evaluate, queryVars, SameQuery
<1>2. QueryInv /\ PlaceInv /\ CleanInv /\ BoundInv /\ EvaluateInv /\ ResultInv
  BY DEF IInv
<1>3. QueryInv' /\ ScoreOf' = ScoreOf /\ Docs' = Docs /\ Scorers' = Scorers
      /\ (\A X, x : AddedBy(X, x)' = AddedBy(X, x)) /\ \A i : Prefix(i)' = Prefix(i)
  BY <1>1, <1>2, QueryKept
<1>4. k' = k /\ scorers' = scorers /\ selected' = selected
  BY <1>1 DEF SameQuery
<1>5. Slots' = Slots /\ Essential' = Essential
  BY <1>1, <1>4 DEF Slots, Essential
<1>6. /\ slot \in bits /\ slot \in Slots /\ slot \in Nat /\ \A x \in bits : slot <= x
      /\ d \in Docs /\ d \in Nat /\ d < base + WindowSize
  BY <1>1, NextSlot
<1>7. Top(heap, D)
  BY <1>1, <1>2 DEF EvaluateInv
<1>8. d \in Waiting /\ d \notin D
  BY <1>6 DEF Waiting
<1>9. IF Hopeless(scores[slot]) \/ d \notin selected THEN heap' = heap
      ELSE heap' \in Added(heap, k, [score |-> Total(d, scores[slot], LastAdded(d, scores[slot])),
                                     doc   |-> d])
  BY DEF Evaluate, AddToHeap
<1> HIDE DEF slot, d, D
<1>10. /\ IsTop(heap', ScoreOf, k, Matching(D \union {d}, ScoreOf, selected))
       /\ Full => IsFull(heap', k) /\ LeastScore(heap) <= LeastScore(heap')
  <2> DEFINE g == heap'
  <2>1. IF Hopeless(scores[slot]) \/ d \notin selected THEN g = heap
        ELSE g \in Added(heap, k, [score |-> Total(d, scores[slot], LastAdded(d, scores[slot])),
                                   doc   |-> d])
    BY <1>9
  <2> HIDE DEF g
  <2>2. slot = Min(bits) /\ d = base + slot
    BY DEF slot, d
  <2>3. /\ IsTop(g, ScoreOf, k, Matching(D \union {d}, ScoreOf, selected))
        /\ Full => IsFull(g, k) /\ LeastScore(heap) <= LeastScore(g)
    BY <1>1, <1>7, <1>8, <2>1, <2>2, Evaluated
  <2> QED
    BY <2>3 DEF g
<1>12. E = Upto(base + WindowSize) \ (Waiting \ {d})
  BY <1>6, <1>8 DEF D, Upto
<1>13. Waiting' = Waiting \ {d}
  <2>1. \A x \in bits : base + x = d => x = slot
    <3> SUFFICES ASSUME NEW x \in bits, base + x = d
                 PROVE  x = slot
      OBVIOUS
    <3>1. x \in Nat /\ base \in Nat
      BY <1>2 DEF PlaceInv, Slots
    <3> QED
      BY <1>6, <3>1 DEF d
  <2> QED
    BY <1>1, <2>1 DEF Waiting, d
<1>14. Top(heap, Upto(base + WindowSize) \ Waiting)'
  <2>1. (Upto(base + WindowSize) \ Waiting)' = Upto(base + WindowSize) \ Waiting'
    BY <1>1, <1>3 DEF Upto
  <2>3. (Upto(base + WindowSize) \ Waiting)' = E
    BY <1>12, <1>13, <2>1
  <2>4. IsTop(heap', ScoreOf', k', Matching(E, ScoreOf', selected'))
    BY <1>3, <1>4, <1>10
  <2> HIDE DEF E
  <2> QED
    BY <2>3, <2>4 DEF Top
<1>15. Threshold' >= Threshold /\ (Full => Full')
  <2>1. /\ Threshold \in Nat /\ (Full => Threshold = LeastScore(heap))
    BY <1>2, <1>7, ThresholdIs
  <2>2. Full => Full' /\ Threshold' = LeastScore(heap')
    BY <1>4, <1>10 DEF Full, Threshold
  <2>3. Threshold' \in Nat
    <3>1. QueryInv /\ Top(heap, Upto(base + WindowSize) \ Waiting) => Threshold \in Nat
      BY WaitingThreshold
    <3>2. (QueryInv /\ Top(heap, Upto(base + WindowSize) \ Waiting) => Threshold \in Nat)'
      BY WaitingThreshold, PTL
    <3> QED
      BY <1>3, <1>14, <3>2
  <2>4. CASE Full
    BY <1>10, <2>1, <2>2, <2>4
  <2>5. CASE ~Full
    <3>1. Threshold = 0
      BY <2>5 DEF Threshold
    <3> QED
      BY <2>3, <2>5, <3>1
  <2> QED
    BY <2>4, <2>5
<1>16. BoundInv'
  <2> SUFFICES ASSUME NEW i \in 1 .. first
               PROVE  Full' /\ Prefix(i)' < Threshold'
    BY <1>1 DEF BoundInv
  <2>1. Full /\ Prefix(i) < Threshold
    BY <1>1, <1>2 DEF BoundInv, InQuery
  <2>2. Prefix(i) \in Nat
    <3>1. i \in 0 .. Len(scorers)
      BY <1>2 DEF PlaceInv, QueryInv
    <3> QED
      BY <1>2, <3>1, PrefixBounds
  <2>3. Threshold \in Nat /\ Threshold' \in Int
    <3>1. QueryInv /\ Top(heap, Upto(base + WindowSize) \ Waiting) => Threshold \in Nat
      BY WaitingThreshold
    <3>2. (QueryInv /\ Top(heap, Upto(base + WindowSize) \ Waiting) => Threshold \in Nat)'
      BY WaitingThreshold, PTL
    <3> QED
      BY <1>2, <1>3, <1>7, <1>14, <3>1, <3>2 DEF D
  <2> QED
    BY <1>3, <1>15, <2>1, <2>2, <2>3
<1>17. CleanInv'
  BY <1>1, <1>2, <1>5 DEF CleanInv, ScratchClean
<1>18. \A s \in Scorers :
         /\ pos'[s] \in 1 .. Len(scorers[s].list) + 1
         /\ \A x \in Int : d <= x /\ Behind(s, x) => Behind(s, x)'
         /\ s \in Essential => pos'[s] = pos[s]
  BY LookedUpIs DEF d, slot
<1>19. PlaceInv'
  <2>1. pos' \in [Scorers -> Nat]
    <3>1. \A s \in Scorers : pos'[s] \in Nat
      <4> SUFFICES ASSUME NEW s \in Scorers
                   PROVE  pos'[s] \in Nat
        OBVIOUS
      <4>1. Len(scorers[s].list) \in Nat
        BY <1>2, WhereScorersAre, ListTypes
      <4> QED
        BY <1>18, <4>1
    <3>2. DOMAIN pos' = Scorers /\ pos' = [s \in Scorers |-> pos'[s]]
      BY <1>2 DEF Evaluate, PlaceInv
    <3> QED
      BY <3>1, <3>2
  <2>2. bits' \subseteq Slots /\ scores' \in [Slots -> Nat]
    BY <1>1, <1>2 DEF PlaceInv
  <2> QED
    BY <1>1, <1>2, <1>3, <1>4, <1>5, <1>18, <2>1, <2>2 DEF PlaceInv
<1>20. Reached(base + WindowSize)'
  <2> DEFINE e == base + WindowSize
  <2>1. e' = e /\ e \in Int /\ d <= e /\ Reached(e)
    BY <1>1, <1>2, <1>6, WindowAssumption DEF PlaceInv, EvaluateInv
  <2>2. ASSUME NEW s \in Scorers
        PROVE  Behind(s, e)' /\ (s \in Essential => Ahead(s, e)')
    <3>1. Behind(s, e)
      BY <2>1 DEF Reached
    <3>2. Behind(s, e)'
      <4>1. pos'[s] \in 1 .. Len(scorers[s].list) + 1
            /\ \A x \in Int : d <= x /\ Behind(s, x) => Behind(s, x)'
        BY <1>18
      <4> QED
        BY <1>1, <2>1, <3>1, <4>1 DEF Behind
    <3>3. s \in Essential => Ahead(s, e)'
      BY <1>4, <1>18, <2>1 DEF Reached, Ahead
    <3> QED
      BY <3>2, <3>3
  <2>3. Essential \subseteq Scorers
    BY <1>2 DEF Essential, Scorers, PlaceInv, QueryInv
  <2> QED
    BY <1>3, <1>5, <2>2, <2>3 DEF Reached
<1>21. ASSUME NEW x \in bits'
       PROVE  /\ base + x \in Docs
              /\ scores'[x] = AddedBy(Essential, base + x)
              /\ \A s \in 1 .. first : Behind(s, base + x)'
  <2>1. x \in bits /\ x # slot
    BY <1>1
  <2>2. /\ base + x \in Docs /\ scores[x] = AddedBy(Essential, base + x)
        /\ \A s \in 1 .. first : Behind(s, base + x)
    BY <1>1, <1>2, <2>1 DEF EvaluateInv
  <2>3. scores'[x] = scores[x]
    BY <1>1, <1>2, <2>1 DEF PlaceInv
  <2>4. base + x \in Int /\ d <= base + x
    <3>1. x \in Nat /\ base \in Nat /\ slot <= x
      BY <1>2, <1>6, <2>1 DEF PlaceInv, Slots
    <3> QED
      BY <1>6, <3>1 DEF d
  <2>5. ASSUME NEW s \in 1 .. first
        PROVE  Behind(s, base + x)'
    <3>1. s \in Scorers
      BY <1>2, <2>5 DEF PlaceInv, QueryInv, Scorers
    <3> DEFINE y == base + x
    <3>2. y \in Int /\ d <= y /\ Behind(s, y) /\ y' = y
      BY <1>1, <2>2, <2>4
    <3> HIDE DEF y
    <3>3. \A z \in Int : d <= z /\ Behind(s, z) => Behind(s, z)'
      BY <1>18, <3>1
    <3> QED
      BY <3>2, <3>3 DEF Behind, y
  <2> QED
    BY <2>2, <2>3, <2>5
<1>22. EvaluateInv'
  <2>1. IsWindow(base)'
    BY <1>1, <1>2 DEF EvaluateInv, IsWindow
  <2>2. \A x \in bits' : /\ (base + x)' \in Docs'
                         /\ scores'[x] = AddedBy(Essential, base + x)'
                         /\ \A s \in 1 .. first' : Behind(s, base + x)'
    BY <1>1, <1>3, <1>5, <1>21
  <2> QED
    BY <1>14, <1>20, <2>1, <2>2 DEF EvaluateInv
<1>23. PartitionInv' /\ ScoreInv' /\ ResultInv'
  BY <1>1, <1>2 DEF PartitionInv, ScoreInv, ResultInv
<1>24. IInv'
  BY <1>1, <1>3, <1>16, <1>17, <1>19, <1>22, <1>23 DEF IInv
<1> QED
  BY <1>15, <1>24
-----------------------------------------------------------------------------
(* With no slot left, the window's documents are dealt with.                *)
LEMMA WindowDoneInv ==
  ASSUME IInv, WindowDone
  PROVE  IInv'
<1>1. /\ SameQuery /\ result' = result /\ first' = first /\ base' = base /\ bits' = bits
      /\ pos' = pos /\ scores' = scores /\ heap' = heap
      /\ pc = "evaluate" /\ pc' = "partition" /\ bits = {}
  BY DEF WindowDone, queryVars, windowVars, SameQuery
<1>2. QueryInv /\ PlaceInv /\ CleanInv /\ BoundInv /\ EvaluateInv /\ ResultInv
  BY DEF IInv
<1>3. QueryInv' /\ ScoreOf' = ScoreOf /\ Docs' = Docs /\ Scorers' = Scorers
  BY <1>1, <1>2, QueryKept
<1>4. k' = k /\ scorers' = scorers /\ selected' = selected
  BY <1>1 DEF SameQuery
<1>5. Slots' = Slots /\ Essential' = Essential
  BY <1>1, <1>4 DEF Slots, Essential
<1>6. CleanInv' /\ PlaceInv'
  BY <1>1, <1>2, <1>3, <1>4, <1>5 DEF CleanInv, ScratchClean, PlaceInv
<1>7. BoundInv'
  BY <1>1, <1>2, <1>4 DEF BoundInv, InQuery, Full, Threshold, Prefix
<1> DEFINE d == base + WindowSize
<1>8. d \in Nat /\ d' = d
  BY <1>1, <1>2, WindowAssumption DEF PlaceInv
<1>9. IsWindow(d)
  <2>1. PICK w \in Nat : base = w * WindowSize
    BY <1>1, <1>2 DEF EvaluateInv, IsWindow
  <2>2. w + 1 \in Nat /\ WindowSize \in Nat
    BY WindowAssumption
  <2>3. base + WindowSize = (w + 1) * WindowSize
    BY <2>1, <2>2
  <2> QED
    BY <2>2, <2>3 DEF IsWindow
<1>10. Reached(d)'
  <2>1. Reached(d)
    BY <1>1, <1>2 DEF EvaluateInv
  <2> QED
    BY <1>1, <1>3, <1>4, <1>5, <2>1 DEF Reached, Behind, Ahead
<1>11. Top(heap, Upto(d))'
  <2>1. Waiting = {}
    BY <1>1 DEF Waiting
  <2>2. Upto(d) \ Waiting = Upto(d)
    BY <2>1
  <2>3. Top(heap, Upto(d))
    BY <1>1, <1>2, <2>2 DEF EvaluateInv
  <2> QED
    BY <1>1, <1>3, <1>4, <2>3 DEF Top, Upto
<1>12. PartitionInv'
  BY <1>1, <1>8, <1>9, <1>10, <1>11 DEF PartitionInv, IsWindow, Reached, Top, Upto, Behind, Ahead
<1>13. ScoreInv' /\ EvaluateInv' /\ ResultInv'
  BY <1>1, <1>2 DEF ScoreInv, EvaluateInv, ResultInv
<1> QED
  BY <1>1, <1>3, <1>6, <1>7, <1>12, <1>13 DEF IInv

(* The heap with all documents dealt with is the result.                    *)
LEMMA DrainInv ==
  ASSUME IInv, Drain
  PROVE  IInv'
<1>1. /\ SameQuery /\ result' = heap /\ first' = first /\ base' = base /\ bits' = bits
      /\ pos' = pos /\ scores' = scores /\ heap' = heap
      /\ pc = "drain" /\ pc' = "idle"
  BY DEF Drain, queryVars, windowVars, SameQuery
<1>2. QueryInv /\ PlaceInv /\ CleanInv /\ BoundInv /\ ResultInv
  BY DEF IInv
<1>3. QueryInv' /\ ScoreOf' = ScoreOf /\ Docs' = Docs /\ Scorers' = Scorers
  BY <1>1, <1>2, QueryKept
<1>4. k' = k /\ scorers' = scorers /\ selected' = selected
  BY <1>1 DEF SameQuery
<1>5. Slots' = Slots
  BY DEF Slots
<1>6. CleanInv' /\ PlaceInv'
  BY <1>1, <1>2, <1>3, <1>4, <1>5 DEF CleanInv, ScratchClean, PlaceInv
<1>7. BoundInv'
  BY <1>1 DEF BoundInv, InQuery
<1>8. Top(result, Docs)'
  BY <1>1, <1>2, <1>3, <1>4 DEF ResultInv, Top
<1>9. ResultInv'
  BY <1>1, <1>8 DEF ResultInv
<1>10. PartitionInv' /\ ScoreInv' /\ EvaluateInv'
  BY <1>1 DEF PartitionInv, ScoreInv, EvaluateInv
<1> QED
  BY <1>1, <1>3, <1>6, <1>7, <1>9, <1>10 DEF IInv

LEMMA StutterInv ==
  ASSUME IInv, UNCHANGED vars
  PROVE  IInv'
<1>1. /\ SameQuery /\ result' = result /\ first' = first /\ base' = base /\ bits' = bits
      /\ pos' = pos /\ scores' = scores /\ heap' = heap /\ pc' = pc
  BY DEF vars, queryVars, windowVars, SameQuery
<1>2. QueryInv /\ PlaceInv /\ CleanInv /\ BoundInv /\ ResultInv
  BY DEF IInv
<1>3. QueryInv' /\ ScoreOf' = ScoreOf /\ Docs' = Docs /\ Scorers' = Scorers
      /\ \A X, d : AddedBy(X, d)' = AddedBy(X, d)
  BY <1>1, <1>2, QueryKept
<1>4. k' = k /\ scorers' = scorers /\ selected' = selected
  BY <1>1 DEF SameQuery
<1>5. Slots' = Slots /\ Essential' = Essential /\ Waiting' = Waiting
  BY <1>1, <1>4 DEF Slots, Essential, Waiting
<1>6. \A h, D : Top(h, D)' <=> Top(h, D)
  BY <1>3, <1>4 DEF Top
<1>7. \A d : (Reached(d)' <=> Reached(d)) /\ Upto(d)' = Upto(d)
  BY <1>1, <1>3, <1>4, <1>5 DEF Reached, Behind, Ahead, Upto
<1>8. CleanInv' /\ PlaceInv'
  BY <1>1, <1>2, <1>3, <1>4, <1>5 DEF CleanInv, ScratchClean, PlaceInv
<1>9. BoundInv'
  BY <1>1, <1>2, <1>4 DEF BoundInv, InQuery, Full, Threshold, Prefix
<1>10. PartitionInv' /\ ScoreInv' /\ EvaluateInv' /\ ResultInv'
  BY <1>1, <1>3, <1>4, <1>5
     DEF IInv, PartitionInv, ScoreInv, EvaluateInv, ResultInv, Top, Upto, IsWindow, Reached,
         Behind, Ahead, AddedBy, Adds
<1> QED
  BY <1>1, <1>3, <1>8, <1>9, <1>10 DEF IInv

LEMMA InvNext == IInv /\ [Next]_vars => IInv'
  BY QueryStartsInv, OpenWindowInv, ScoreEssentialInv, EvaluateKeepsInv, WindowDoneInv, DrainInv,
     StutterInv DEF Next, Step

(* For every corpus, set of queries, k, selectors and window size.          *)
THEOREM IInvHolds == Spec => []IInv
  <1>1. Init => IInv
    BY InvInit
  <1> QED
    BY <1>1, InvNext, PTL DEF Spec

(* The top k of IInv is that of the specification. *)
LEMMA TopIsTopK ==
  ASSUME QueryInv, NEW D \in SUBSET Docs, Top(heap, D)
  PROVE  /\ IsTopK(heap, D)
         /\ BagToSet(heap) \subseteq Item
         /\ Size(heap) <= k
         /\ heap # EmptyBag => \E d \in D : d \in selected /\ Score(d) > 0
<1> DEFINE f == ScoreOf
           M == Matching(D, f, selected)
           held == HeldDocs(heap)
<1>1. f \in [Docs -> Nat] /\ DOMAIN f = Docs /\ \A d \in Docs : f[d] = Score(d)
  BY ScoresAreNaturals
<1>2. k \in Nat \ {0}
  BY KsArePositive
<1>3. M \in SUBSET Docs /\ M = {d \in D : d \in selected /\ Score(d) > 0}
  BY <1>1 DEF Matching
<1>4. IsFiniteSet(M)
  <2>1. IsFiniteSet(Docs)
    <3>1. IsCorpus(rows)
      BY CorporaAssumption DEF QueryInv
    <3>2. Len(rows) - 1 \in Int
      BY <3>1 DEF IsCorpus
    <3> QED
      BY <3>2, FS_Interval DEF Docs
  <2> HIDE DEF M
  <2> QED
    BY <1>3, <2>1, FS_Subset
<1>5. IsTop(heap, f, k, M)
  BY DEF Top
<1> HIDE DEF f, M
<1>6. /\ held \subseteq M
      /\ Cardinality(held) = Size(heap)
      /\ \A x \in BagToSet(heap) : x \in [score : Nat, doc : Docs] /\ x.score = f[x.doc]
      /\ Cardinality(held) = IF Cardinality(M) < k THEN Cardinality(M) ELSE k
      /\ \A d \in M \ held : f[d] <= LeastScore(heap)
      /\ heap # EmptyBag => M # {}
  <2>1. IsTopOf(heap, f, k, M, Docs)
    BY <1>1, <1>2, <1>3, <1>4, <1>5, TopIsTop
  <2> QED
    BY <2>1 DEF IsTopOf
<1>7. \A x \in BagToSet(heap) : x.doc \in Docs /\ x.score = Score(x.doc) /\ x \in Item
  BY <1>1, <1>6 DEF Item, Docs
<1>8. \A d \in M \ held : Score(d) <= LeastScore(heap)
  BY <1>1, <1>3, <1>6
<1>9. IsTopK(heap, D)
  <2> HIDE DEF held
  <2>1. IsTopK(heap, D) <=>
          /\ held \subseteq M
          /\ Cardinality(held) = Size(heap)
          /\ \A x \in BagToSet(heap) : x.score = Score(x.doc)
          /\ Cardinality(held) = IF Cardinality(M) < k THEN Cardinality(M) ELSE k
          /\ \A d \in M \ held : Score(d) <= LeastScore(heap)
    BY <1>3 DEF IsTopK, held, HeldDocs
  <2> QED
    BY <1>6, <1>7, <1>8, <2>1
<1>10. Size(heap) <= k
  <2>1. Cardinality(M) \in Nat
    BY <1>4, FS_CardinalityType
  <2> QED
    BY <1>2, <1>6, <2>1
<1> QED
  BY <1>3, <1>6, <1>7, <1>9, <1>10
-----------------------------------------------------------------------------
(* Whatever the step, the heap has a top k of some of the documents. *)
LEMMA HeapLeads ==
  ASSUME IInv
  PROVE  \E D \in SUBSET Docs : Top(heap, D)
<1>1. \A d : Upto(d) \in SUBSET Docs /\ Upto(d) \ Waiting \in SUBSET Docs
  BY DEF Upto
<1>2. CASE pc = "partition"
  <2>1. PICK d \in Nat : Top(heap, Upto(d))
    BY <1>2 DEF IInv, PartitionInv
  <2> QED
    BY <1>1, <2>1
<1>3. CASE pc = "score"
  BY <1>1, <1>3 DEF IInv, ScoreInv
<1>4. CASE pc = "evaluate"
  BY <1>1, <1>4 DEF IInv, EvaluateInv
<1>5. CASE pc \in {"idle", "drain"}
  BY <1>5 DEF IInv, ResultInv, Top
<1> QED
  BY <1>2, <1>3, <1>4, <1>5 DEF IInv

LEMMA InvTypes ==
  ASSUME IInv
  PROVE  TypeOK
<1>1. PICK D \in SUBSET Docs : Top(heap, D)
  BY HeapLeads
<1>2. QueryInv /\ PlaceInv /\ ResultInv
  BY DEF IInv
<1>3. BagToSet(heap) \subseteq Item /\ Size(heap) <= k
  BY <1>1, <1>2, TopIsTopK
<1>4. BagToSet(result) \subseteq Item
  <2>1. CASE pc = "idle"
    BY <1>2, <1>3, <2>1 DEF ResultInv
  <2>2. CASE pc # "idle"
    <3>1. result = EmptyBag
      BY <1>2, <2>2 DEF ResultInv
    <3> QED
      BY <3>1 DEF EmptyBag, SetToBag, BagToSet
  <2> QED
    BY <2>1, <2>2
<1> QED
  BY <1>2, <1>3, <1>4 DEF TypeOK, IInv, QueryInv, PlaceInv

LEMMA InvExact ==
  ASSUME IInv
  PROVE  ExactTopK
<1> SUFFICES ASSUME pc = "idle"
             PROVE  IsTopK(result, Docs)
  BY DEF ExactTopK
<1>1. QueryInv /\ result = heap /\ Top(result, Docs)
  BY DEF IInv, ResultInv
<1>2. Top(heap, Docs) /\ Docs \in SUBSET Docs
  BY <1>1
<1>3. IsTopK(heap, Docs)
  BY <1>1, <1>2, TopIsTopK
<1> QED
  BY <1>1, <1>3

(* What a step of a query may not do. *)
Monotone ==
  /\ pc' = "score" /\ heap # EmptyBag => base' >= base + WindowSize
  /\ Threshold' >= Threshold
  /\ first' >= first

LEMMA StepIsMonotone ==
  ASSUME IInv, Step
  PROVE  Monotone
<1>1. QueryInv /\ PlaceInv /\ first \in Int
  BY DEF IInv, PlaceInv, QueryInv
<1>2. Threshold \in Nat
  <2>1. PICK D \in SUBSET Docs : Top(heap, D)
    BY HeapLeads
  <2> QED
    BY <1>1, <2>1, ThresholdIs
<1>3. ASSUME heap' = heap, k' = k
      PROVE  Threshold' >= Threshold
  <2>1. Threshold' = Threshold
    BY <1>3 DEF Threshold, Full
  <2> QED
    BY <1>2, <2>1
<1>4. CASE OpenWindow
  <2>1. Threshold' >= Threshold
    BY <1>3, <1>4 DEF OpenWindow, queryVars
  <2>2. first' >= first
    BY <1>4, Partitioned
  <2>3. CASE Live = {}
    <3>1. pc' # "score"
      BY <1>4, <2>3, NothingLeft
    <3> QED
      BY <2>1, <2>2, <3>1 DEF Monotone
  <2>4. CASE Live # {}
    <3>1. heap # EmptyBag => base' >= base + WindowSize
      BY <1>4, <2>4, WindowOpens
    <3> QED
      BY <2>1, <2>2, <3>1 DEF Monotone
  <2> QED
    BY <2>3, <2>4
<1>5. CASE ScoreEssential
  <2>1. pc' # "score" /\ first' = first /\ heap' = heap /\ k' = k
    BY <1>5 DEF ScoreEssential, queryVars
  <2> QED
    BY <1>1, <1>3, <2>1 DEF Monotone
<1>6. CASE Evaluate
  <2>1. pc' # "score" /\ first' = first
    BY <1>6 DEF Evaluate
  <2>2. Threshold' >= Threshold
    BY <1>6, EvaluateKeepsInv
  <2> QED
    BY <1>1, <2>1, <2>2 DEF Monotone
<1>7. CASE WindowDone
  <2>1. pc' # "score" /\ first' = first /\ heap' = heap /\ k' = k
    BY <1>7 DEF WindowDone, queryVars, windowVars
  <2> QED
    BY <1>1, <1>3, <2>1 DEF Monotone
<1>8. CASE Drain
  <2>1. pc' # "score" /\ first' = first /\ heap' = heap /\ k' = k
    BY <1>8 DEF Drain, queryVars, windowVars
  <2> QED
    BY <1>1, <1>3, <2>1 DEF Monotone
<1> QED
  BY <1>4, <1>5, <1>6, <1>7, <1>8 DEF Step

(* The search's state keeps its types and bounds: no scorer runs past its   *)
(* list, no slot past the window, no heap past k (inverted_index.cpp:338-   *)
(* 408).                                                                    *)
THEOREM TypesHold == Spec => []TypeOK
  BY IInvHolds, InvTypes, PTL

(* For every corpus, query, k, selector and window size, what a query       *)
(* returns is a top k of the selected documents that match it, with their   *)
(* exact scores: MaxScore's skipping loses nothing                          *)
(* (inverted_index.cpp:366-407).                                            *)
THEOREM ExactTopKHolds == Spec => []ExactTopK
  BY IInvHolds, InvExact, PTL

(* Windows ascend without overlap, the threshold never falls, and a scorer  *)
(* once non-essential stays so, though each window partitions the scorers   *)
(* anew (inverted_index.cpp:366-407).                                       *)
THEOREM SearchIsMonotone == Spec => MonotoneSearch
  <1>1. IInv /\ [Next]_vars =>
          [InQuery =>
             /\ pc' = "score" /\ heap # EmptyBag => base' >= base + WindowSize
             /\ Threshold' >= Threshold
             /\ first' >= first]_vars
    <2> SUFFICES ASSUME IInv, Next, InQuery
                 PROVE  Monotone
      BY DEF Monotone
    <2>1. Step
      BY DEF Next, StartQuery, InQuery
    <2> QED
      BY <2>1, StepIsMonotone
  <1> QED
    BY <1>1, IInvHolds, PTL DEF Spec, MonotoneSearch

(* The thread-local buffer of single_query (inverted_index.cpp:353-359) is  *)
(* zero wherever no document waits to be evaluated: no score leaks into     *)
(* another window or query.                                                 *)
THEOREM ScratchStaysClean == Spec => []ScratchClean
  <1>1. IInv => ScratchClean
    BY DEF IInv, CleanInv
  <1> QED
    BY <1>1, IInvHolds, PTL

(* Putting a query to BrutalIndex as well does nothing to the inverted      *)
(* index, and so what holds of it alone holds of it here                    *)
(* (brutal_index.cpp:75-96).                                                *)
THEOREM ExactImplementsInverted == ExactSpec => Spec
  <1>1. ExactInit => Init
    BY DEF ExactInit
  <1>2. [ExactNext]_exactVars => [Next]_vars
    BY DEF ExactNext, exactVars, InvertedStarts, InvertedSteps, BrutalSearch, Next
  <1> QED
    BY <1>1, <1>2, PTL DEF ExactSpec, Spec

(* The four properties beside the other exact index, as the run checks      *)
(* them (inverted_index.cpp:338-408).                                       *)
THEOREM ExactSearchHolds ==
  ExactSpec => [](TypeOK /\ ExactTopK /\ ScratchClean) /\ MonotoneSearch
  BY ExactImplementsInverted, TypesHold, ExactTopKHolds, SearchIsMonotone, ScratchStaysClean, PTL
-----------------------------------------------------------------------------
LEMMA GreatestOfOne ==
  ASSUME NEW x \in Nat
  PROVE  Max({x}) = x
<1>1. {x} \subseteq Nat /\ {x} # {} /\ IsFiniteSet({x})
  BY FS_Singleton
<1>2. Max({x}) \in {x}
  BY <1>1, GreatestIsGreatest
<1> QED
  BY <1>2

(* The scan.  The dense query gives a document its score, if it names no    *)
(* term twice ...                                                           *)
LEMMA DotIsScore ==
  ASSUME QueryInv, \A i \in DOMAIN query : query[i].term < Dim, NamesTermsOnce, NEW d \in Docs
  PROVE  Dot(rows[d + 1], DenseQuery) = Score(d)
<1> DEFINE Q == 1 .. Len(query)
           r == rows[d + 1]
           T == DOMAIN r
           f == [i \in Q |-> IF query[i].term \in T THEN query[i].weight * r[query[i].term] ELSE 0]
           S == {i \in Q : query[i].term \in T}
           fS  == [i \in S |-> query[i].weight * r[query[i].term]]
           key == [i \in S |-> query[i].term]
           g   == [t \in T |-> r[t] * DenseQuery[t]]
           Of(t) == {i \in Q : query[i].term = t}
           W(t)  == [i \in Of(t) |-> query[i].weight]
           V(t)  == [i \in Of(t) |-> fS[i]]
<1>1. Len(query) \in Nat /\ DOMAIN query = Q /\ IsFiniteSet(Q)
  <2>1. Len(query) \in Nat /\ DOMAIN query = Q
    BY DEF QueryInv
  <2>2. IsFiniteSet(1 .. Len(query))
    BY <2>1, FS_Interval
  <2> QED
    BY <2>1, <2>2
<1>2. \A i \in Q : query[i].term \in Nat /\ query[i].weight \in Nat
  <2> SUFFICES ASSUME NEW i \in Q
               PROVE  query[i].term \in Nat /\ query[i].weight \in Nat
    OBVIOUS
  <2>1. query[i] \in [term : Nat, weight : Nat]
    BY <1>1, SequenceElement DEF QueryInv
  <2> QED
    BY <2>1
<1>3. T \subseteq 0 .. Dim - 1 /\ r \in [T -> Nat]
  <2>1. IsCorpus(rows)
    BY CorporaAssumption DEF QueryInv
  <2>2. Len(rows) \in Nat /\ DOMAIN rows = 1 .. Len(rows)
    BY <2>1 DEF IsCorpus
  <2>3. d + 1 \in DOMAIN rows
    BY <2>2 DEF Docs
  <2> QED
    BY <2>1, <2>3 DEF IsCorpus, IsRow
<1>4. IsFiniteSet(T) /\ IsFiniteSet(S)
  <2>1. IsFiniteSet(0 .. Dim - 1)
    <3>1. 0 \in Int /\ Dim - 1 \in Int
      BY DimAssumption
    <3> QED
      BY <3>1, FS_Interval
  <2>2. S \in SUBSET Q
    OBVIOUS
  <2> HIDE DEF S, T, Q
  <2> QED
    BY <1>1, <1>3, <2>1, <2>2, FS_Subset
<1>5. \A i \in Q : query[i].term \in T => r[query[i].term] \in Nat
  BY <1>3
<1>6. f \in [Q -> Nat] /\ fS \in [S -> Nat]
  <2>1. \A i \in Q : query[i].term \in T => query[i].weight * r[query[i].term] \in Nat
    BY <1>2, <1>5
  <2> QED
    BY <2>1
<1>7. SumOf(f) = SumOf(fS)
  <2>1. S \in SUBSET Q /\ (\A i \in Q \ S : f[i] = 0) /\ \A i \in S : fS[i] = f[i]
    OBVIOUS
  <2> HIDE DEF f, fS, S, Q
  <2> QED
    BY <1>1, <1>6, <2>1, SumOverSupport
<1>8. Score(d) = SumOf(f)
  BY <1>1 DEF Score
<1>9. ASSUME NEW t \in T
      PROVE  g[t] = SumOf([i \in {j \in S : key[j] = t} |-> fS[i]]) /\ g[t] \in Nat
  <2>1. t \in 0 .. Dim - 1 /\ r[t] \in Nat
    BY <1>3
  <2>2. DenseQuery[t] = SumOf(W(t))
    <3>1. DenseQuery[t] = IF Of(t) = {} THEN 0 ELSE query[Max(Of(t))].weight
      BY <1>1, <2>1 DEF DenseQuery
    <3>2. CASE Of(t) = {}
      <4>1. SumOf(W(t)) = 0
        BY <3>2, SumOfNone
      <4> QED
        BY <3>1, <3>2, <4>1
    <3>3. ASSUME NEW i \in Of(t)
          PROVE  DenseQuery[t] = SumOf(W(t))
      <4>1. Of(t) = {i}
        BY <1>1 DEF NamesTermsOnce
      <4>2. i \in Nat /\ query[i].weight \in Nat
        BY <1>1, <1>2
      <4>3. Max({i}) = i
        BY <4>2, GreatestOfOne
      <4>4. W(t) \in [{i} -> Nat] /\ W(t)[i] = query[i].weight
        BY <4>1, <4>2
      <4> HIDE DEF W, Of
      <4>5. SumOf(W(t)) = query[i].weight
        BY <4>4, SumOfOne
      <4> QED
        BY <3>1, <4>1, <4>3, <4>5
    <3> QED
      BY <3>2, <3>3
  <2>3. Of(t) = {j \in S : key[j] = t}
    OBVIOUS
  <2>4. V(t) = [i \in {j \in S : key[j] = t} |-> fS[i]]
    BY <2>3
  <2>5. /\ W(t) \in [Of(t) -> Nat]
        /\ V(t) \in [Of(t) -> Nat]
        /\ \A i \in Of(t) : V(t)[i] = r[t] * W(t)[i]
    <3>1. \A i \in Of(t) : i \in S /\ query[i].term = t /\ query[i].weight \in Nat
      BY <1>2
    <3>2. \A i \in Of(t) : fS[i] = query[i].weight * r[t] /\ query[i].weight * r[t] = r[t] * query[i].weight
                           /\ query[i].weight * r[t] \in Nat
      BY <2>1, <3>1
    <3> HIDE DEF fS
    <3> QED
      BY <3>1, <3>2
  <2>6. IsFiniteSet(Of(t))
    <3>1. Of(t) \in SUBSET Q
      OBVIOUS
    <3> HIDE DEF Of, Q
    <3> QED
      BY <1>1, <3>1, FS_Subset
  <2>7. SumOf(V(t)) = r[t] * SumOf(W(t)) /\ SumOf(V(t)) \in Nat
    <3> DEFINE O == Of(t)
               v == V(t)
               w == W(t)
               c == r[t]
    <3>1. IsFiniteSet(O) /\ w \in [O -> Nat] /\ v \in [O -> Nat] /\ c \in Nat
          /\ \A i \in O : v[i] = c * w[i]
      BY <2>1, <2>5, <2>6
    <3> HIDE DEF O, v, w, c
    <3>2. SumOf(v) = c * SumOf(w) /\ SumOf(v) \in Nat
      BY <3>1, SumScaled, SumType
    <3> QED
      BY <3>2 DEF v, w, c
  <2>8. g[t] = r[t] * DenseQuery[t]
    OBVIOUS
  <2> HIDE DEF g, V, W
  <2>9. g[t] = SumOf(V(t)) /\ g[t] \in Nat
    BY <2>2, <2>7, <2>8
  <2> QED
    BY <2>4, <2>9
<1>10. key \in [S -> T]
  OBVIOUS
<1>11. g \in [T -> Nat]
  <2>1. \A t \in T : g[t] \in Nat
    BY <1>9
  <2>2. g = [t \in T |-> g[t]]
    OBVIOUS
  <2> HIDE DEF g, T
  <2> QED
    BY <2>1, <2>2
<1>12. SumOf(fS) = SumOf(g)
  <2>1. \A t \in T : g[t] = SumOf([i \in {j \in S : key[j] = t} |-> fS[i]])
    BY <1>9
  <2> HIDE DEF g, fS, key, S, T
  <2>2. Groups(fS, S, key, g, T)
    BY <1>6, <1>10, <1>11, <2>1 DEF Groups
  <2> QED
    BY <1>4, <2>2, SumGrouped
<1>13. Dot(r, DenseQuery) = SumOf(g)
  BY DEF Dot
<1> HIDE DEF f, fS, g
<1> QED
  BY <1>7, <1>8, <1>12, <1>13

(* ... the definition of Holders is that of a function ...                  *)
LEMMA HoldersEquation ==
  ASSUME Len(rows) \in Nat
  PROVE  Holders = [n \in 0 .. Len(rows) |-> IF n = 0 THEN {EmptyBag} ELSE Offered(Holders[n - 1], n)]
<1> DEFINE Scan(f, m) == [n \in 0 .. m |-> IF n = 0 THEN {EmptyBag} ELSE Offered(f[n - 1], n)]
           S == {m \in Nat : \E f : f = Scan(f, m)}
<1>1. 0 \in S
  <2>1. [n \in 0 .. 0 |-> {EmptyBag}] = Scan([n \in 0 .. 0 |-> {EmptyBag}], 0)
    OBVIOUS
  <2> QED
    BY <2>1
<1>2. ASSUME NEW m \in Nat, m \in S
      PROVE  m + 1 \in S
  <2>1. PICK f : f = Scan(f, m)
    BY <1>2
  <2> DEFINE g == [n \in 0 .. m + 1 |-> IF n = m + 1 THEN Offered(f[m], m + 1) ELSE f[n]]
  <2>2. \A n \in 0 .. m : f[n] = IF n = 0 THEN {EmptyBag} ELSE Offered(f[n - 1], n)
    BY <2>1
  <2>3. \A n \in 0 .. m : g[n] = f[n]
    OBVIOUS
  <2>4. g[m + 1] = Offered(f[m], m + 1)
    OBVIOUS
  <2>5. ASSUME NEW n \in 0 .. m + 1
        PROVE  g[n] = IF n = 0 THEN {EmptyBag} ELSE Offered(g[n - 1], n)
    <3>1. CASE n = 0
      BY <2>2, <2>3, <3>1
    <3>2. CASE n \in 1 .. m
      <4>1. n \in 0 .. m /\ n - 1 \in 0 .. m /\ n # 0
        BY <3>2
      <4>2. g[n] = f[n] /\ g[n - 1] = f[n - 1]
        BY <2>3, <4>1
      <4> HIDE DEF g
      <4> QED
        BY <2>2, <4>1, <4>2
    <3>3. CASE n = m + 1
      <4>1. m \in 0 .. m /\ n - 1 = m /\ n # 0
        BY <3>3
      <4>2. g[n - 1] = f[m] /\ g[n] = Offered(f[m], n)
        BY <2>3, <2>4, <3>3, <4>1
      <4> HIDE DEF g
      <4> QED
        BY <4>1, <4>2
    <3> QED
      BY <3>1, <3>2, <3>3
  <2>6. g = [n \in 0 .. m + 1 |-> g[n]]
    OBVIOUS
  <2> HIDE DEF g
  <2>7. g = Scan(g, m + 1)
    BY <2>5, <2>6
  <2> QED
    BY <2>7
<1> HIDE DEF S
<1>3. Len(rows) \in S
  BY <1>1, <1>2, NatSetInduction
<1>4. \E f : f = Scan(f, Len(rows))
  BY <1>3 DEF S
<1> QED
  BY <1>4 DEF Holders

(* ... and what the holder may be is a top k of the documents scanned.      *)
LEMMA ScannedIsTop ==
  ASSUME QueryInv, \A i \in DOMAIN query : query[i].term < Dim, NamesTermsOnce, NEW h \in Scanned
  PROVE  IsTop(h, ScoreOf, k, Docs)
<1> DEFINE L == Len(rows)
           S == {n \in Nat : n <= L => \A g \in Holders[n] : IsTop(g, ScoreOf, k, 0 .. n - 1)}
<1>1. L \in Nat
  <2>1. IsCorpus(rows)
    BY CorporaAssumption DEF QueryInv
  <2> QED
    BY <2>1 DEF IsCorpus
<1>2. k \in Nat \ {0}
  BY KsArePositive
<1>3. ScoreOf \in [Docs -> Nat]
  BY ScoresAreNaturals
<1>4. \A n \in 0 .. L : Holders[n] = IF n = 0 THEN {EmptyBag} ELSE Offered(Holders[n - 1], n)
  <2>1. Holders = [n \in 0 .. L |-> IF n = 0 THEN {EmptyBag} ELSE Offered(Holders[n - 1], n)]
    BY <1>1, HoldersEquation
  <2> QED
    BY <2>1
<1> HIDE DEF L
<1>5. 0 \in S
  <2>1. Holders[0] = {EmptyBag}
    BY <1>1, <1>4
  <2>2. 0 .. 0 - 1 = {}
    OBVIOUS
  <2>3. IsTop(EmptyBag, ScoreOf, k, {})
    BY <1>2, NoneIsTop
  <2> QED
    BY <2>1, <2>2, <2>3
<1>6. ASSUME NEW n \in Nat, n \in S
      PROVE  n + 1 \in S
  <2> SUFFICES ASSUME n + 1 <= L, NEW g \in Holders[n + 1]
               PROVE  IsTop(g, ScoreOf, k, 0 .. n + 1 - 1)
    OBVIOUS
  <2>1. n \in Docs /\ n + 1 \in 0 .. L /\ n + 1 # 0 /\ n + 1 - 1 = n
    BY <1>1 DEF Docs, L
  <2>2. g \in Offered(Holders[n], n + 1)
    BY <1>4, <2>1
  <2>3. PICK e \in Holders[n] : g \in Added(e, k, [score |-> Dot(rows[n + 1], DenseQuery), doc |-> n])
    BY <2>1, <2>2 DEF Offered
  <2>4. IsTop(e, ScoreOf, k, 0 .. n - 1)
    BY <1>1, <1>6, <2>1
  <2>5. [score |-> Dot(rows[n + 1], DenseQuery), doc |-> n] = ItemOf(ScoreOf, n)
    <3>1. Dot(rows[n + 1], DenseQuery) = ScoreOf[n]
      BY <2>1, DotIsScore DEF ScoreOf
    <3> QED
      BY <3>1 DEF ItemOf
  <2>6. 0 .. n - 1 \in SUBSET Docs /\ n \in Docs \ (0 .. n - 1) /\ (0 .. n - 1) \union {n} = 0 .. n + 1 - 1
    BY <1>1, <2>1 DEF Docs, L
  <2>7. IsTop(g, ScoreOf, k, (0 .. n - 1) \union {n})
    <3> DEFINE D == 0 .. n - 1
    <3>1. /\ D \in SUBSET Docs /\ n \in Docs \ D /\ IsTop(e, ScoreOf, k, D)
          /\ g \in Added(e, k, ItemOf(ScoreOf, n))
      BY <2>3, <2>4, <2>5, <2>6
    <3> HIDE DEF D
    <3>2. IsTop(g, ScoreOf, k, D \union {n})
      BY <1>2, <1>3, <3>1, AddedIsTop
    <3> QED
      BY <3>2 DEF D
  <2> QED
    BY <2>6, <2>7
<1> HIDE DEF S
<1>7. L \in S
  BY <1>1, <1>5, <1>6, NatSetInduction
<1>8. h \in Holders[L]
  BY DEF Scanned, L
<1>9. IsTop(h, ScoreOf, k, 0 .. L - 1)
  BY <1>1, <1>7, <1>8 DEF S
<1> QED
  BY <1>9 DEF Docs, L

(* The scores of a holder of documents. *)
Counted(f, H) == [s \in {f[d] : d \in H} \ {0} |-> Cardinality(Scoring(H, f, s))]

LEMMA ScoresOfHeld ==
  ASSUME NEW N, NEW f \in [N -> Nat], NEW H \in SUBSET N, IsFiniteSet(H), NEW h, Holds(h, f, H)
  PROVE  ScoresOf(h) = Counted(f, H)
<1>1. BagToSet(h) = ItemsOf(f, H)
  BY HolderSize
<1>2. {x.score : x \in BagToSet(h)} = {f[d] : d \in H}
  <2>1. ASSUME NEW x \in BagToSet(h)
        PROVE  x.score \in {f[d] : d \in H}
    BY <1>1 DEF ItemsOf, ItemOf
  <2>2. ASSUME NEW d \in H
        PROVE  f[d] \in {x.score : x \in BagToSet(h)}
    <3>1. ItemOf(f, d) \in BagToSet(h) /\ ItemOf(f, d).score = f[d]
      BY <1>1 DEF ItemsOf, ItemOf
    <3> QED
      BY <3>1
  <2> QED
    BY <2>1, <2>2
<1>3. ASSUME NEW s
      PROVE  SumOf([x \in {x \in BagToSet(h) : x.score = s} |-> h[x]]) = Cardinality(Scoring(H, f, s))
  <2> DEFINE X == {x \in BagToSet(h) : x.score = s}
             G == Scoring(H, f, s)
             g == [x \in X |-> h[x]]
  <2>1. X = ItemsOf(f, G)
    BY <1>1 DEF ItemsOf, ItemOf, Scoring
  <2>2. \A x \in X : h[x] = 1
    BY <1>1 DEF Holds
  <2>3. g = [x \in ItemsOf(f, G) |-> 1]
    BY <2>1, <2>2
  <2>4. G \in SUBSET H
    BY DEF Scoring
  <2> HIDE DEF g, G, X
  <2>5. IsFiniteSet(G)
    BY <2>4, FS_Subset
  <2>6. Holds(g, f, G)
    BY <2>3 DEF Holds
  <2>7. SumOf(g) = Cardinality(G)
    BY <2>5, <2>6, HolderSize DEF Size
  <2> QED
    BY <2>7 DEF g, G, X
<1> QED
  BY <1>2, <1>3 DEF ScoresOf, Counted

(* An answered query was one that BrutalIndex could be asked, and if it     *)
(* names no term twice, it found a top k of all documents.                  *)
FoundInv ==
  answered =>
    /\ pc = "idle"
    /\ Docs \subseteq selected
    /\ NamesTermsOnce => IsTop(found, ScoreOf, k, Docs)

LEMMA TopsHaveTheSameScores ==
  ASSUME IInv, FoundInv
  PROVE  AgreesWithBruteForce
<1> SUFFICES ASSUME answered, NamesTermsOnce
             PROVE  ScoresOf(result) = ScoresOf(found)
  BY DEF AgreesWithBruteForce
<1> DEFINE f == ScoreOf
           M == {d \in Docs : f[d] > 0}
<1>1. QueryInv /\ pc = "idle" /\ Docs \subseteq selected /\ IsTop(found, f, k, Docs) /\ Top(result, Docs)
  BY DEF IInv, FoundInv, ResultInv
<1>2. k \in Nat \ {0} /\ f \in [Docs -> Nat]
  BY <1>1, KsArePositive, ScoresAreNaturals
<1>3. IsTop(result, f, k, M)
  <2>1. Matching(Docs, f, selected) = M
    BY <1>1, <1>2 DEF Matching
  <2> QED
    BY <1>1, <2>1 DEF Top
<1>4. IsFiniteSet(Docs)
  <2>1. IsCorpus(rows)
    BY <1>1, CorporaAssumption DEF QueryInv
  <2>2. 0 \in Int /\ Len(rows) - 1 \in Int
    BY <2>1 DEF IsCorpus
  <2> QED
    BY <2>2, FS_Interval DEF Docs
<1>5. PICK A \in SUBSET M : Holds(result, f, A) /\ AreBest(A, f, k, M)
  BY <1>3 DEF IsTop
<1>6. PICK B \in SUBSET Docs : Holds(found, f, B) /\ AreBest(B, f, k, Docs)
  BY <1>1 DEF IsTop
<1>7. A \in SUBSET Docs /\ IsFiniteSet(A) /\ IsFiniteSet(B)
  BY <1>5, <1>6 DEF AreBest
<1> HIDE DEF f
<1>8. \A s \in Nat \ {0} : Cardinality(Scoring(A, f, s)) = Cardinality(Scoring(B, f, s))
  BY <1>2, <1>4, <1>5, <1>6, TopsAgree
<1>9. \A s \in Nat \ {0} : s \in {f[d] : d \in A} <=> s \in {f[d] : d \in B}
  <2> SUFFICES ASSUME NEW s \in Nat \ {0}
               PROVE  s \in {f[d] : d \in A} <=> s \in {f[d] : d \in B}
    OBVIOUS
  <2>1. Scoring(A, f, s) \in SUBSET A /\ Scoring(B, f, s) \in SUBSET B
    BY DEF Scoring
  <2>2. IsFiniteSet(Scoring(A, f, s)) /\ IsFiniteSet(Scoring(B, f, s))
    BY <1>7, <2>1, FS_Subset
  <2>3. Scoring(A, f, s) = {} <=> Scoring(B, f, s) = {}
    BY <1>8, <2>2, FS_EmptySet
  <2> QED
    BY <2>3 DEF Scoring
<1>10. {f[d] : d \in A} \ {0} = {f[d] : d \in B} \ {0}
  <2>1. {f[d] : d \in A} \subseteq Nat /\ {f[d] : d \in B} \subseteq Nat
    BY <1>2, <1>6, <1>7
  <2> QED
    BY <1>9, <2>1
<1>11. {f[d] : d \in A} \ {0} \subseteq Nat \ {0}
  BY <1>2, <1>7
<1>12. ScoresOf(result) = Counted(f, A) /\ ScoresOf(found) = Counted(f, B)
  BY <1>2, <1>5, <1>6, <1>7, ScoresOfHeld
<1> QED
  BY <1>8, <1>10, <1>11, <1>12 DEF Counted

LEMMA FoundInvHolds == ExactSpec => []FoundInv
<1>1. ExactInit => FoundInv
  BY DEF ExactInit, FoundInv
<1>2. IInv /\ FoundInv /\ [ExactNext]_exactVars => FoundInv'
  <2> SUFFICES ASSUME IInv, FoundInv, [ExactNext]_exactVars
               PROVE  FoundInv'
    OBVIOUS
  <2>1. CASE InvertedStarts
    BY <2>1 DEF InvertedStarts, FoundInv
  <2>2. CASE InvertedSteps
    <3>1. pc # "idle"
      BY <2>2 DEF InvertedSteps, Step, OpenWindow, ScoreEssential, Evaluate, WindowDone, Drain
    <3>2. ~answered /\ answered' = answered
      BY <2>2, <3>1 DEF InvertedSteps, FoundInv
    <3> QED
      BY <3>2 DEF FoundInv
  <2>3. ASSUME UNCHANGED vars
        PROVE  /\ pc' = pc /\ Docs' = Docs /\ selected' = selected /\ ScoreOf' = ScoreOf /\ k' = k
               /\ NamesTermsOnce' = NamesTermsOnce
    <3>1. pc' = pc /\ rows' = rows /\ selected' = selected /\ query' = query /\ k' = k
      BY <2>3 DEF vars, queryVars
    <3> QED
      BY <3>1 DEF Docs, ScoreOf, Score, NamesTermsOnce
  <2>4. CASE BrutalSearch
    <3>1. pc = "idle" /\ Docs \subseteq selected /\ (\A i \in DOMAIN query : query[i].term < Dim)
          /\ found' \in Scanned /\ UNCHANGED vars
      BY <2>4 DEF BrutalSearch
    <3>2. NamesTermsOnce => IsTop(found', ScoreOf, k, Docs)
      BY <3>1, ScannedIsTop DEF IInv
    <3> QED
      BY <2>3, <3>1, <3>2 DEF FoundInv
  <2>5. CASE UNCHANGED exactVars
    <3>1. UNCHANGED vars /\ answered' = answered /\ found' = found
      BY <2>5 DEF exactVars
    <3> QED
      BY <2>3, <3>1 DEF FoundInv
  <2> QED
    BY <2>1, <2>2, <2>4, <2>5 DEF ExactNext
<1> QED
  BY <1>1, <1>2, ExactImplementsInverted, IInvHolds, PTL DEF ExactSpec

(* For every corpus, k and window size, and every query that names no term  *)
(* twice: wherever BrutalIndex can be asked what the inverted index was,    *)
(* both return the same scores, each as often (inverted_index.cpp:366-407,  *)
(* brutal_index.cpp:75-96).                                                 *)
THEOREM IndexesAgree == ExactSpec => []AgreesWithBruteForce
  <1>1. IInv /\ FoundInv => AgreesWithBruteForce
    BY TopsHaveTheSameScores
  <1> QED
    BY <1>1, ExactImplementsInverted, IInvHolds, FoundInvHolds, PTL
=============================================================================
