------------------------ MODULE SeismicSearchProofs ------------------------
(***************************************************************************)
(* The dense query vector a thread reuses: scattered into and cleared by   *)
(* term, never swept, so that what is clean at the end of a query depends  *)
(* on what the query touched.  One invariant serves the search in memory,  *)
(* that over codes and the block-budget search, which share the vector.    *)
(* And the quantized index, whose every step is one of the float index's   *)
(* over codes: it implements SeismicSearch.                                *)
(*                                                                         *)
(* Then the answers: an invariant of the search that holds its lists to    *)
(* the clusterings of the corpus, its scores to inner products and its     *)
(* heap to a top k of the documents visited, and what follows from it.     *)
(*                                                                         *)
(* Last, what a search in memory passes over: an invariant that accounts   *)
(* for every document of the lists that were begun, and with it what a     *)
(* search with whole summaries can miss.                                   *)
(***************************************************************************)
EXTENDS DiskSeismicSearch, DataTheorems, TLAPS

(* While a query runs, the only terms that are not zero are its own; the    *)
(* program is in a query or in none, and builds and idles outside of them.  *)
DenseInv ==
  /\ DOMAIN dense = Terms
  /\ pc \in {"build", "idle"} => \A t \in Terms : dense[t] = 0
  /\ \A t \in Terms \ QueryTerms(call) : dense[t] = 0

(* The scatter, of a query in memory or on disk, overwrites a clean vector. *)
LEMMA ScatterDirtiesItsTerms ==
  ASSUME DenseInv, NEW c, pc = "idle", call' = c, pc' \notin {"build", "idle"},
         dense' = [t \in Terms |-> IF t \in QueryTerms(c) THEN Weight(c, t) ELSE dense[t]]
  PROVE  DenseInv'
  <1>1. QueryTerms(call)' = QueryTerms(c)
    BY DEF QueryTerms
  <1>2. \A t \in Terms : dense[t] = 0
    BY DEF DenseInv
  <1> QED
    BY <1>1, <1>2 DEF DenseInv, Terms

(* The sparse clear, of either, misses no term the scatter wrote. *)
LEMMA ClearLeavesNothing ==
  ASSUME DenseInv, UNCHANGED call,
         dense' = [t \in Terms |-> IF t \in QueryTerms(call) THEN 0 ELSE dense[t]]
  PROVE  DenseInv'
  <1>1. \A t \in Terms : dense'[t] = 0
    BY DEF DenseInv
  <1> QED
    BY <1>1 DEF DenseInv, Terms

(* Steps within a query that read the vector at most, and end no query.     *)
LEMMA ReadersKeepDense ==
  ASSUME DenseInv, UNCHANGED <<dense, call>>,
         pc' \in {"build", "idle"} => pc \in {"build", "idle"}
  PROVE  DenseInv'
  <1>1. UNCHANGED QueryTerms(call)
    BY DEF QueryTerms
  <1> QED
    BY <1>1 DEF DenseInv, Terms

(* Outside a query any call may be recorded: the vector is clean.           *)
LEMMA IdleKeepsDense ==
  ASSUME DenseInv, UNCHANGED dense, pc \in {"build", "idle"}
  PROVE  DenseInv'
  BY DEF DenseInv, Terms

(* Every step of the search over floats keeps it. *)
LEMMA SeismicKeepsDense == DenseInv /\ [Next]_vars => DenseInv'
  <1> SUFFICES ASSUME DenseInv, [Next]_vars
               PROVE  DenseInv'
    OBVIOUS
  <1>1. CASE Build \/ BuildList \/ \E c \in Calls : ExactMatch(c)
    BY <1>1, IdleKeepsDense DEF Build, BuildList, ExactMatch
  <1>2. ASSUME NEW c \in Calls, StartQuery(c)
        PROVE  DenseInv'
    <2>1. /\ pc = "idle" /\ pc' = "list" /\ call' = c
          /\ dense' = [t \in Terms |-> IF t \in QueryTerms(c) THEN Weight(c, t) ELSE dense[t]]
      BY <1>2 DEF StartQuery
    <2> QED
      BY <2>1, ScatterDirtiesItsTerms
  <1>3. CASE OpenList \/ NextCluster \/ ScanDoc \/ ListDone
    <2>1. UNCHANGED <<dense, call>> /\ pc' \notin {"build", "idle"}
      BY <1>3 DEF OpenList, NextCluster, ScanDoc, ListDone
    <2> QED
      BY <2>1, ReadersKeepDense
  <1>4. CASE Finish
    BY <1>4, ClearLeavesNothing DEF Finish
  <1>5. CASE UNCHANGED vars
    BY <1>5, ReadersKeepDense DEF vars
  <1> QED
    BY <1>1, <1>2, <1>3, <1>4, <1>5 DEF Next

(* For every corpus, clustering and sequence of searches, whatever the cut  *)
(* leaves out of a query, the dense vector is all zero between queries      *)
(* (seismic_index.cpp:190-192, :262-266).                                   *)
THEOREM DenseStaysClean == Spec => []DenseClean
  <1>1. Init => DenseInv
    BY DEF Init, DenseInv
  <1>2. DenseInv /\ [Next]_vars => DenseInv'
    BY SeismicKeepsDense
  <1>3. DenseInv => DenseClean
    BY DEF DenseInv, DenseClean
  <1> QED
    BY <1>1, <1>2, <1>3, PTL DEF Spec

(* A step of the quantized index is a step of the search over its codes. *)
LEMMA QuantizedStepIsAStep ==
  ASSUME sq \in Quantizers, [QuantizedNext]_quantizedVars
  PROVE  [Next]_vars
  <1>1. ASSUME NEW q \in Questions, Ask(q)
        PROVE  Next
    <2>1. CallOf(sq, q) \in Calls
      BY <1>1, QuestionsAssumption DEF Ask
    <2>2. ExactMatch(CallOf(sq, q)) \/ StartQuery(CallOf(sq, q))
      BY <1>1 DEF Ask
    <2> QED
      BY <2>1, <2>2 DEF Next
  <1>2. CASE BuildOverCodes
    BY <1>2 DEF BuildOverCodes, Next
  <1>3. CASE QueryList \/ SingleQuery
    BY <1>3 DEF QueryList, SingleQuery, Next
  <1>4. CASE UNCHANGED quantizedVars
    BY <1>4 DEF quantizedVars
  <1> QED
    BY <1>1, <1>2, <1>3, <1>4 DEF QuantizedNext

(* A quantized index is never given another quantizer. *)
LEMMA QuantizerStays == QuantizedSpec => [](sq \in Quantizers)
  <1>1. QuantizedInit => sq \in Quantizers
    BY DEF QuantizedInit
  <1>2. sq \in Quantizers /\ [QuantizedNext]_quantizedVars => (sq \in Quantizers)'
    BY DEF QuantizedNext, quantizedVars, callerVars, BuildOverCodes, Ask, QueryList, SingleQuery
  <1> QED
    BY <1>1, <1>2, PTL DEF QuantizedSpec

(* Whatever the quantizer, the corpus and the questions, with ranges of     *)
(* their own or not, what the quantized index does is a search of its codes *)
(* as SeismicIndex would do it (seismic_scalar_quantized_index.cpp:67-347). *)
THEOREM QuantizedImplementsSeismic == QuantizedSpec => Spec
  <1>1. QuantizedInit => Init
    BY DEF QuantizedInit
  <1>2. sq \in Quantizers /\ [QuantizedNext]_quantizedVars => [Next]_vars
    BY QuantizedStepIsAStep
  <1> QED
    BY <1>1, <1>2, QuantizerStays, PTL DEF QuantizedSpec, Spec

(* So its byte vector, too, is "kept all-zero between queries via a sparse  *)
(* clear" (seismic_scalar_quantized_index.cpp:257-259).                     *)
THEOREM QuantizedDenseStaysClean == QuantizedSpec => []DenseClean
  BY QuantizedImplementsSeismic, DenseStaysClean, PTL

(* Floats or codes, an index in memory. *)
LEMMA InMemoryKeepsDense == ASSUME DenseInv, InMemory PROVE DenseInv'
  <1>1. CASE BuildOverCodes
    BY <1>1, IdleKeepsDense DEF BuildOverCodes, Build, BuildList
  <1>2. ASSUME NEW q \in Questions, Ask(q)
        PROVE  DenseInv'
    <2>1. CASE ExactMatch(CallOf(sq, q))
      BY <2>1, IdleKeepsDense DEF ExactMatch
    <2>2. CASE StartQuery(CallOf(sq, q))
      <3>1. /\ pc = "idle" /\ pc' = "list" /\ call' = CallOf(sq, q)
            /\ dense' = [t \in Terms |-> IF t \in QueryTerms(CallOf(sq, q))
                                           THEN Weight(CallOf(sq, q), t) ELSE dense[t]]
        BY <2>2 DEF StartQuery
      <3> QED
        BY <3>1, ScatterDirtiesItsTerms
    <2> QED
      BY <1>2, <2>1, <2>2 DEF Ask
  <1>3. CASE QueryList
    <2>1. UNCHANGED <<dense, call>> /\ pc' \notin {"build", "idle"}
      BY <1>3 DEF QueryList, OpenList, NextCluster, ScanDoc
    <2> QED
      BY <2>1, ReadersKeepDense
  <1>4. CASE ListDone /\ UNCHANGED callerVars
    BY <1>4, ReadersKeepDense DEF ListDone
  <1>5. CASE Finish /\ UNCHANGED callerVars
    BY <1>5, ClearLeavesNothing DEF Finish
  <1> QED
    BY <1>1, <1>2, <1>3, <1>4, <1>5 DEF InMemory, QuantizedNext, SingleQuery

(* The steps of the block-budget search. *)
LEMMA OnDiskKeepsDense ==
  ASSUME DenseInv,
         \/ \E q \in Questions : AskBudget(q)
         \/ CollectList \/ SelectBlocks \/ NextBlock \/ ScoreDoc \/ FinishBudget
  PROVE  DenseInv'
  <1>1. ASSUME NEW q \in Questions, AskBudget(q)
        PROVE  DenseInv'
    <2>1. /\ pc = "idle" /\ pc' = "collect" /\ call' = CallOf(sq, q)
          /\ dense' = [t \in Terms |-> IF t \in QueryTerms(CallOf(sq, q))
                                         THEN Weight(CallOf(sq, q), t) ELSE dense[t]]
      BY <1>1 DEF AskBudget
    <2> QED
      BY <2>1, ScatterDirtiesItsTerms
  <1>2. CASE CollectList \/ SelectBlocks \/ NextBlock \/ ScoreDoc
    <2>1. UNCHANGED <<dense, call>> /\ pc' \notin {"build", "idle"}
      BY <1>2 DEF CollectList, SelectBlocks, NextBlock, ScoreDoc
    <2> QED
      BY <2>1, ReadersKeepDense
  <1>3. CASE FinishBudget
    BY <1>3, ClearLeavesNothing DEF FinishBudget
  <1> QED
    BY <1>1, <1>2, <1>3

(* "all-zero on entry and restored to all-zero on exit"                     *)
(* (disk_seismic_search.h:68-69): for every corpus, clustering, quantizer,  *)
(* kind of index, budget and sequence of searches, whatever terms the cut   *)
(* leaves out.                                                              *)
THEOREM DenseIsRestored == DiskSpec => []DenseRestored
  <1>1. DiskInit => DenseInv
    BY DEF DiskInit, QuantizedInit, Init, DenseInv
  <1>2. DenseInv /\ [DiskNext]_diskVars => DenseInv'
    <2>1. ASSUME DenseInv, UNCHANGED diskVars
          PROVE  DenseInv'
      BY <2>1, ReadersKeepDense DEF diskVars, quantizedVars, vars
    <2> QED
      BY <2>1, InMemoryKeepsDense, OnDiskKeepsDense DEF DiskNext
  <1>3. DenseInv => DenseRestored
    BY DEF DenseInv, DenseRestored
  <1> QED
    BY <1>1, <1>2, <1>3, PTL DEF DiskSpec
-----------------------------------------------------------------------------
(* The kernels.                                                             *)

(* A row's products, term by term. *)
Products(row, gathered) == [t \in DOMAIN row |-> row[t] * gathered[t]]

(* What a kernel is given: a row over finitely many terms, and a weight for *)
(* each of them.                                                            *)
IsGathered(row, gathered) ==
  /\ \E n \in Nat : DOMAIN row \subseteq 0 .. n
  /\ \A t \in DOMAIN row : row[t] \in Nat /\ gathered[t] \in Nat

(* A row's products with what is gathered add up.                           *)
LEMMA ProductsAdd ==
  ASSUME NEW row, NEW gathered, IsGathered(row, gathered)
  PROVE  /\ IsFiniteSet(DOMAIN row)
         /\ Products(row, gathered) \in [DOMAIN row -> Nat]
         /\ SumOf(Products(row, gathered)) \in Nat
  <1>1. PICK n \in Nat : DOMAIN row \subseteq 0 .. n
    BY DEF IsGathered
  <1>2. IsFiniteSet(DOMAIN row)
    BY <1>1, AscendingAscends
  <1>3. ASSUME NEW t \in DOMAIN row
        PROVE  row[t] * gathered[t] \in Nat
    <2>1. row[t] \in Nat /\ gathered[t] \in Nat
      BY DEF IsGathered
    <2> QED
      BY <2>1
  <1>4. Products(row, gathered) \in [DOMAIN row -> Nat]
    BY <1>3 DEF Products
  <1> QED
    BY <1>2, <1>4, SumType

(* Where whole blocks end. *)
LEMMA WholeBlocks ==
  ASSUME NEW n \in Nat, NEW lanes \in Nat \ {0}
  PROVE  (n \div lanes) * lanes \in 0 .. n
  <1> DEFINE q == n \div lanes
  <1>1. q \in Nat /\ n = lanes * q + (n % lanes) /\ n % lanes \in Nat
    BY Z3
  <1>2. lanes * q \in Nat /\ q * lanes = lanes * q
    BY <1>1
  <1> QED
    BY <1>1, <1>2

(* The lane of each element.                                                *)
LEMMA LaneOf ==
  ASSUME NEW i \in Nat \ {0}, NEW lanes \in Nat \ {0}
  PROVE  ((i - 1) % lanes) + 1 \in 1 .. lanes
  <1>1. i - 1 \in Nat
    OBVIOUS
  <1>2. (i - 1) % lanes \in 0 .. lanes - 1
    BY <1>1
  <1> QED
    BY <1>2

(* Lane by lane and the tail by itself, a kernel adds up each product once. *)
LEMMA BlockedIsWhole ==
  ASSUME NEW row, NEW gathered, IsGathered(row, gathered), NEW lanes \in Nat \ {0}
  PROVE  Blocked(lanes, row, gathered) = SumOf(Products(row, gathered))
  <1> DEFINE D       == DOMAIN row
             terms   == Ascending(D)
             n       == Len(terms)
             whole   == (n \div lanes) * lanes
             prod    == [i \in DOMAIN terms |-> row[terms[i]] * gathered[terms[i]]]
             head    == [i \in 1 .. whole |-> prod[i]]
             tail    == [i \in whole + 1 .. n |-> prod[i]]
             key     == [i \in 1 .. whole |-> ((i - 1) % lanes) + 1]
             mine(j) == {i \in 1 .. whole : (i - 1) % lanes = j - 1}
             lane(j) == SumOf([i \in mine(j) |-> prod[i]])
             laned   == [j \in 1 .. lanes |-> lane(j)]
  <1>1. PICK m \in Nat : D \subseteq 0 .. m
    BY DEF IsGathered
  <1>2. /\ IsFiniteSet(D) /\ Cardinality(D) \in Nat
        /\ terms \in [1 .. Cardinality(D) -> D] /\ Ascends(terms)
        /\ \A t \in D : \E i \in DOMAIN terms : terms[i] = t
    <2> HIDE DEF D
    <2> QED
      BY <1>1, AscendingAscends, AscendingHasAll
  <1>3. n = Cardinality(D) /\ n \in Nat /\ terms \in [1 .. n -> D]
    <2> HIDE DEF D
    <2> DEFINE s == terms
    <2> HIDE DEF s
    <2>1. s \in Seq(D) /\ Len(s) = Cardinality(D)
      BY <1>2, FunctionIsSequence DEF s
    <2> QED
      BY <1>2, <2>1 DEF s
  <1>4. ASSUME NEW i \in 1 .. n
        PROVE  terms[i] \in D /\ prod[i] = Products(row, gathered)[terms[i]] /\ prod[i] \in Nat
    <2>1. terms[i] \in D /\ i \in DOMAIN terms
      BY <1>3
    <2>2. prod[i] = Products(row, gathered)[terms[i]]
      BY <2>1 DEF Products
    <2> QED
      BY <2>1, <2>2, ProductsAdd
  <1>5. whole \in 0 .. n
    BY <1>3, WholeBlocks
  <1>6. prod \in [1 .. n -> Nat] /\ IsFiniteSet(1 .. n) /\ IsFiniteSet(1 .. lanes)
    <2>1. DOMAIN prod = 1 .. n
      BY <1>3
    <2>2. \A i \in 1 .. n : prod[i] \in Nat
      BY <1>4
    <2>3. IsFiniteSet(1 .. n) /\ IsFiniteSet(1 .. lanes)
      BY <1>3, FS_Interval
    <2>4. prod = [i \in DOMAIN prod |-> prod[i]]
      OBVIOUS
    <2> HIDE DEF prod, n, terms
    <2> QED
      BY <2>1, <2>2, <2>3, <2>4
  <1>7. terms \in Bijection(1 .. n, D)
    <2>1. ASSUME NEW i \in 1 .. n, NEW j \in 1 .. n, terms[i] = terms[j]
          PROVE  i = j
      <3>1. terms[i] \in Nat /\ terms[j] \in Nat
        <4>1. terms[i] \in D /\ terms[j] \in D
          BY <1>4
        <4>2. \A t \in D : t \in Nat
          BY <1>1
        <4> HIDE DEF terms, D, n
        <4> QED
          BY <4>1, <4>2
      <3>2. ~(i < j) /\ ~(j < i)
        BY <1>2, <1>3, <2>1, <3>1 DEF Ascends
      <3> QED
        BY <3>2
    <2>2. \A t \in D : \E i \in 1 .. n : terms[i] = t
      BY <1>2, <1>3
    <2> HIDE DEF terms, n, D
    <2>3. terms \in Injection(1 .. n, D)
      BY <1>3, <2>1 DEF Injection, IsInjective
    <2>4. terms \in Surjection(1 .. n, D)
      BY <1>3, <2>2 DEF Surjection
    <2> QED
      BY <2>3, <2>4 DEF Bijection
  <1>8. SumOf(prod) = SumOf(Products(row, gathered))
    <2>1. Products(row, gathered) \in [D -> Nat]
      BY ProductsAdd
    <2>2. \A i \in 1 .. n : prod[i] = Products(row, gathered)[terms[i]]
      BY <1>4
    <2> HIDE DEF terms, n, D, prod
    <2>3. Renames(prod, 1 .. n, terms, Products(row, gathered), D)
      BY <1>6, <1>7, <2>1, <2>2 DEF Renames
    <2> QED
      BY <1>6, <2>3, SumMapped
  <1> HIDE DEF prod, n, terms
  <1>9. SumOf(prod) = SumOf(head) + SumOf(tail)
    <2> HIDE DEF whole
    <2>1. (1 .. whole) \union (whole + 1 .. n) = 1 .. n /\ (1 .. whole) \intersect (whole + 1 .. n) = {}
      BY <1>3, <1>5
    <2>2. head \in [1 .. whole -> Nat] /\ tail \in [whole + 1 .. n -> Nat]
      BY <1>3, <1>5, <1>6
    <2>3. (\A i \in 1 .. whole : head[i] = prod[i]) /\ \A i \in whole + 1 .. n : tail[i] = prod[i]
      OBVIOUS
    <2> HIDE DEF head, tail
    <2>4. SplitsInto(prod, 1 .. n, head, 1 .. whole, tail, whole + 1 .. n)
      BY <1>6, <2>1, <2>2, <2>3 DEF SplitsInto
    <2> QED
      BY <2>4, SumOfParts
  <1>10. SumOf(head) = SumOf(laned)
    <2>1. IsFiniteSet(1 .. whole)
      BY <1>3, <1>5, FS_Interval
    <2> HIDE DEF whole
    <2>2. head \in [1 .. whole -> Nat]
      BY <1>3, <1>5, <1>6
    <2>3. key \in [1 .. whole -> 1 .. lanes]
      BY <1>3, <1>5, LaneOf
    <2>4. ASSUME NEW j \in 1 .. lanes
          PROVE  /\ laned[j] = SumOf([i \in {y \in 1 .. whole : key[y] = j} |-> head[i]])
                 /\ laned[j] \in Nat
      <3>1. {y \in 1 .. whole : key[y] = j} = mine(j)
        <4>1. ASSUME NEW i \in 1 .. whole
              PROVE  key[i] = j <=> (i - 1) % lanes = j - 1
          <5>1. key[i] = ((i - 1) % lanes) + 1
            OBVIOUS
          <5>2. (i - 1) % lanes \in Int
            BY <1>3, <1>5, <2>3, <5>1, LaneOf
          <5> QED
            BY <5>1, <5>2
        <4> QED
          BY <4>1
      <3>2. [i \in mine(j) |-> head[i]] = [i \in mine(j) |-> prod[i]]
        OBVIOUS
      <3>3. IsFiniteSet(mine(j)) /\ [i \in mine(j) |-> prod[i]] \in [mine(j) -> Nat]
        <4>1. mine(j) \in SUBSET (1 .. whole)
          OBVIOUS
        <4>2. IsFiniteSet(mine(j))
          BY <2>1, <4>1, FS_Subset
        <4>3. \A i \in mine(j) : prod[i] \in Nat
          BY <1>3, <1>5, <1>6, <4>1
        <4> QED
          BY <4>2, <4>3
      <3>4. lane(j) \in Nat
        BY <3>3, SumType
      <3> QED
        BY <3>1, <3>2, <3>4
    <2> HIDE DEF laned, key, head
    <2>5. laned \in [1 .. lanes -> Nat]
      BY <2>4 DEF laned
    <2>6. Groups(head, 1 .. whole, key, laned, 1 .. lanes)
      BY <2>2, <2>3, <2>4, <2>5 DEF Groups
    <2> QED
      BY <1>6, <2>1, <2>6, SumGrouped
  <1> QED
    BY <1>8, <1>9, <1>10 DEF Blocked, laned, head, tail, prod, n, terms

(* What lies above a narrow element of a word is masked off, whatever it is. *)
LEMMA LowIsElement ==
  ASSUME NEW m \in Nat, NEW x \in 0 .. m, NEW n \in Nat
  PROVE  (x + (m + 1) * n) % (m + 1) = x
  <1> DEFINE b == m + 1
             w == x + b * n
             q == w \div b
  <1>1. b \in Nat \ {0} /\ b * n \in Nat /\ w \in Nat
    OBVIOUS
  <1>2. q \in Nat /\ w = b * q + (w % b) /\ w % b \in 0 .. b - 1
    <2> HIDE DEF w, b
    <2> QED
      BY <1>1, Z3
  <1>3. q = n
    <2>1. q \in Nat
      BY <1>2
    <2>2. CASE q < n
      <3>1. b * (q + 1) <= b * n
        <4>1. q + 1 <= n
          BY <2>1, <2>2
        <4> HIDE DEF q, b
        <4> QED
          BY <1>1, <2>1, <4>1, Z3
      <3>2. b * (q + 1) = b * q + b
        BY <1>1, <2>1
      <3>3. b * q \in Nat
        BY <1>1, <2>1
      <3> QED
        BY <1>1, <1>2, <3>1, <3>2, <3>3
    <2>3. CASE n < q
      <3>1. b * (n + 1) <= b * q
        <4>1. n + 1 <= q
          BY <2>1, <2>3
        <4> HIDE DEF q, b
        <4> QED
          BY <1>1, <2>1, <4>1, Z3
      <3>2. b * (n + 1) = b * n + b
        BY <1>1, <2>1
      <3>3. b * q \in Nat
        BY <1>1, <2>1
      <3> QED
        BY <1>1, <1>2, <3>1, <3>2, <3>3
    <2> QED
      BY <2>1, <2>2, <2>3
  <1>4. w % b = w - b * n
    <2> HIDE DEF w, b, q
    <2> DEFINE r == w % b
    <2>1. w = b * n + r /\ r \in Nat
      <3>1. w = b * q + r /\ r \in Nat
        BY <1>1, <1>2
      <3> HIDE DEF r
      <3> QED
        BY <1>3, <3>1
    <2> HIDE DEF r
    <2>2. r = w - b * n
      BY <1>1, <2>1
    <2> QED
      BY <2>2 DEF r
  <1> QED
    BY <1>1, <1>4

(* A vector the codes of a type can be: floats are not bounded.             *)
IsVector(vector, type) ==
  /\ vector \in [Terms -> Nat]
  /\ type \in Types
  /\ type # "float" => \A t \in Terms : vector[t] \in 0 .. MaxCode[type]

(* So a gather finds the elements of the dense vector.                      *)
LEMMA GatheredElement ==
  ASSUME NEW vector, NEW type, IsVector(vector, type), NEW t \in Terms
  PROVE  LowElement(vector, type, t) = vector[t]
  <1> DEFINE next == IF t + 1 \in DOMAIN vector THEN vector[t + 1] ELSE Stray
  <1>1. next \in Nat
    BY CodesAssumption DEF IsVector
  <1>2. CASE type = "float"
    BY <1>2 DEF LowElement
  <1>3. CASE type # "float"
    <2>1. MaxCode[type] \in Nat /\ vector[t] \in 0 .. MaxCode[type]
      BY <1>3, CodesAssumption DEF IsVector, Types
    <2> HIDE DEF next
    <2>2. (vector[t] + (MaxCode[type] + 1) * next) % (MaxCode[type] + 1) = vector[t]
      BY <1>1, <2>1, LowIsElement
    <2> QED
      BY <1>3, <2>2 DEF LowElement, next
  <1> QED
    BY <1>2, <1>3

(* A row of an index.                                                       *)
IsRow(row) == DOMAIN row \subseteq Terms /\ \A t \in DOMAIN row : row[t] \in Nat

(* What a row of the index gathers from the dense vector is there to        *)
(* gather.                                                                  *)
LEMMA RowIsGathered ==
  ASSUME NEW row, IsRow(row), NEW vector \in [Terms -> Nat]
  PROVE  IsGathered(row, vector)
  <1>1. DOMAIN row \subseteq 0 .. Dim
    BY DimAssumption DEF IsRow, Terms
  <1>2. Dim \in Nat
    BY DimAssumption
  <1>3. \A t \in DOMAIN row : row[t] \in Nat /\ vector[t] \in Nat
    BY DEF IsRow
  <1> QED
    BY <1>1, <1>2, <1>3 DEF IsGathered

(* Every kernel the library may be compiled with, for every number of lanes *)
(* and whatever lies past the dense vector, computes the inner product that *)
(* the scalar one does (utils/distance.h, distance_avx2.h,                  *)
(* distance_avx512.h, distance_neon.h, distance_sve.h).                     *)
THEOREM KernelsAgree ==
  ASSUME NEW row, IsRow(row), NEW type, NEW vector, IsVector(vector, type), NEW isa
  PROVE  dot_product_dense(isa, type, row, vector) = SumOf(Products(row, vector))
  <1> DEFINE low == [t \in DOMAIN row |-> LowElement(vector, type, t)]
  <1>1. /\ Lanes.avx2 \in Nat \ {0} /\ Lanes.avx512 \in Nat \ {0} /\ Lanes.neon \in Nat \ {0}
        /\ Lanes.neon_uint16 \in Nat \ {0} /\ Lanes.sve \in Nat \ {0}
    BY LanesAssumption
  <1>2. IsGathered(row, vector)
    BY RowIsGathered DEF IsVector
  <1>3. \A t \in DOMAIN row : low[t] = vector[t]
    BY GatheredElement DEF IsRow
  <1>4. IsGathered(row, low) /\ Products(row, low) = Products(row, vector)
    <2> HIDE DEF low
    <2> QED
      BY <1>2, <1>3 DEF IsGathered, Products
  <1>5. ASSUME NEW lanes \in Nat \ {0}
        PROVE  /\ Blocked(lanes, row, vector) = SumOf(Products(row, vector))
               /\ Blocked(lanes, row, low) = SumOf(Products(row, vector))
    <2> HIDE DEF low
    <2> QED
      BY <1>2, <1>4, BlockedIsWhole
  <1>6. distance_avx512(type, row, vector) = SumOf(Products(row, vector))
    BY <1>1, <1>5 DEF distance_avx512
  <1>7. distance_sve(type, row, vector) = SumOf(Products(row, vector))
    BY <1>1, <1>5 DEF distance_sve
  <1>8. distance_avx2(row, vector) = SumOf(Products(row, vector))
    BY <1>1, <1>5 DEF distance_avx2
  <1>9. distance_neon(type, row, vector) = SumOf(Products(row, vector))
    BY <1>1, <1>5 DEF distance_neon
  <1>10. distance(row, vector) = SumOf(Products(row, vector))
    BY DEF distance, Products
  <1> QED
    BY <1>6, <1>7, <1>8, <1>9, <1>10 DEF dot_product_dense

(* A call a search runs on. *)
IsCall(c) ==
  /\ c.k \in Nat \ {0} /\ c.cut \in Nat \ {0}
  /\ c.query \in Seq([term : Terms, weight : Nat])
  /\ \A i, j \in DOMAIN c.query : c.query[i].term = c.query[j].term => i = j
  /\ IsFiniteSet(c.ids)

(* A query's terms have the weights it brings: each comes once.             *)
LEMMA WeightsOfCall ==
  ASSUME NEW c, IsCall(c)
  PROVE  /\ QueryTerms(c) \subseteq Terms
         /\ \A i \in DOMAIN c.query : Weight(c, c.query[i].term) = c.query[i].weight
         /\ \A t \in QueryTerms(c) : Weight(c, t) \in Nat
  <1>1. ASSUME NEW i \in DOMAIN c.query
        PROVE  /\ c.query[i].term \in Terms /\ c.query[i].weight \in Nat
               /\ Weight(c, c.query[i].term) = c.query[i].weight
    <2>1. c.query[i] \in [term : Terms, weight : Nat]
      BY SequenceElement DEF IsCall
    <2> DEFINE t == c.query[i].term
               j == CHOOSE j \in DOMAIN c.query : c.query[j].term = t
    <2>2. j \in DOMAIN c.query /\ c.query[j].term = t
      OBVIOUS
    <2>3. j = i
      <3> HIDE DEF j
      <3> QED
        BY <2>2 DEF IsCall
    <2>4. Weight(c, t) = c.query[j].weight
      BY DEF Weight
    <2> HIDE DEF j
    <2> QED
      BY <2>1, <2>3, <2>4
  <1> QED
    BY <1>1 DEF QueryTerms

(* The query as it is scattered into a clean vector.                        *)
Scattered(c) == [t \in Terms |-> IF t \in QueryTerms(c) THEN Weight(c, t) ELSE 0]

(* What a row scores against the scattered query is its inner product with  *)
(* the query (seismic_index.cpp:190-192).                                   *)
LEMMA ScatteredScores ==
  ASSUME NEW c, IsCall(c), NEW row, IsRow(row)
  PROVE  /\ Scattered(c) \in [Terms -> Nat]
         /\ SumOf(Products(row, Scattered(c))) = Inner(row, QueryRow(c))
         /\ Inner(row, QueryRow(c)) \in Nat
  <1> DEFINE f == Products(row, Scattered(c))
             A == DOMAIN row \intersect DOMAIN QueryRow(c)
             g == [t \in A |-> row[t] * QueryRow(c)[t]]
  <1>1. Scattered(c) \in [Terms -> Nat]
    BY WeightsOfCall DEF Scattered
  <1>2. IsFiniteSet(DOMAIN row) /\ f \in [DOMAIN row -> Nat] /\ SumOf(f) \in Nat
    BY <1>1, RowIsGathered, ProductsAdd
  <1>3. A = DOMAIN row \intersect QueryTerms(c)
    BY DEF QueryRow
  <1>4. ASSUME NEW t \in DOMAIN row
        PROVE  /\ t \in A => f[t] = row[t] * QueryRow(c)[t]
               /\ t \notin A => f[t] = 0
    <2>1. f[t] = row[t] * Scattered(c)[t] /\ t \in Terms /\ row[t] \in Nat
      BY DEF Products, IsRow
    <2>2. CASE t \in A
      BY <1>3, <2>1, <2>2 DEF Scattered, QueryRow
    <2>3. CASE t \notin A
      <3>1. Scattered(c)[t] = 0
        BY <1>3, <2>1, <2>3 DEF Scattered
      <3> QED
        BY <2>1, <2>3, <3>1
    <2> QED
      BY <2>2, <2>3
  <1>5. A \in SUBSET DOMAIN row
    OBVIOUS
  <1>6. g \in [A -> Nat] /\ \A t \in A : g[t] = f[t]
    <2>1. \A t \in A : g[t] = f[t] /\ f[t] \in Nat
      BY <1>2, <1>4
    <2> HIDE DEF f
    <2> QED
      BY <2>1
  <1>7. \A t \in DOMAIN row \ A : f[t] = 0
    BY <1>4
  <1> HIDE DEF f, g, A
  <1>8. SumOf(f) = SumOf(g)
    BY <1>2, <1>5, <1>6, <1>7, SumOverSupport
  <1> QED
    BY <1>1, <1>2, <1>8 DEF f, g, A, Inner

-----------------------------------------------------------------------------
(* Quantization.                                                            *)

(* Sums add up term by term.                                                *)
LEMMA SumAdded ==
  ASSUME NEW S, IsFiniteSet(S), NEW f \in [S -> Nat], NEW g \in [S -> Nat],
         NEW h \in [S -> Nat], \A x \in S : h[x] = f[x] + g[x]
  PROVE  SumOf(h) = SumOf(f) + SumOf(g)
<1> DEFINE Of(e, T) == [x \in T |-> e[x]]
           P == {T \in SUBSET S : SumOf(Of(h, T)) = SumOf(Of(f, T)) + SumOf(Of(g, T))}
<1>1. ASSUME NEW e \in [S -> Nat], NEW T \in SUBSET S
      PROVE  IsFiniteSet(T) /\ Of(e, T) \in [T -> Nat] /\ SumOf(Of(e, T)) \in Nat
  <2>1. IsFiniteSet(T)
    BY FS_Subset
  <2>2. Of(e, T) \in [T -> Nat]
    OBVIOUS
  <2> HIDE DEF Of
  <2> QED
    BY <2>1, <2>2, SumType
<1>2. {} \in P
  <2>1. ASSUME NEW e \in [S -> Nat]
        PROVE  SumOf(Of(e, {})) = 0
    <3>1. DOMAIN Of(e, {}) = {} /\ Of(e, {}) \in [{} -> Nat]
      OBVIOUS
    <3> HIDE DEF Of
    <3> QED
      BY <3>1, SumOfNone
  <2> HIDE DEF Of
  <2> QED
    BY <2>1
<1>3. ASSUME NEW T \in SUBSET S, T # {}, \A x \in T : T \ {x} \in P
      PROVE  T \in P
  <2>1. PICK x \in T : T \ {x} \in P
    BY <1>3
  <2> DEFINE R == T \ {x}
  <2>2. R \in SUBSET S /\ {x} \in SUBSET S /\ R \union {x} = T /\ R \intersect {x} = {}
    BY <2>1
  <2>3. ASSUME NEW e \in [S -> Nat]
        PROVE  SumOf(Of(e, T)) = SumOf(Of(e, R)) + e[x]
    <3>1. /\ \A y \in R : Of(e, R)[y] = Of(e, T)[y]
          /\ \A y \in {x} : Of(e, {x})[y] = Of(e, T)[y]
          /\ Of(e, {x})[x] = e[x]
      BY <2>1
    <3> HIDE DEF R
    <3>2. /\ IsFiniteSet(T) /\ Of(e, T) \in [T -> Nat] /\ Of(e, R) \in [R -> Nat]
          /\ Of(e, {x}) \in [{x} -> Nat]
      BY <1>1, <2>2
    <3> HIDE DEF Of
    <3>3. SplitsInto(Of(e, T), T, Of(e, R), R, Of(e, {x}), {x})
      BY <2>2, <3>1, <3>2 DEF SplitsInto
    <3>4. SumOf(Of(e, T)) = SumOf(Of(e, R)) + SumOf(Of(e, {x}))
      BY <3>3, SumOfParts
    <3>5. SumOf(Of(e, {x})) = Of(e, {x})[x]
      BY <3>2, SumOfOne
    <3> QED
      BY <3>1, <3>4, <3>5
  <2>4. SumOf(Of(h, R)) = SumOf(Of(f, R)) + SumOf(Of(g, R))
    BY <2>1
  <2>5. h[x] = f[x] + g[x] /\ f[x] \in Nat /\ g[x] \in Nat
    BY <2>1
  <2>6. SumOf(Of(h, R)) \in Nat /\ SumOf(Of(f, R)) \in Nat /\ SumOf(Of(g, R)) \in Nat
    <3> HIDE DEF Of, R
    <3> QED
      BY <1>1, <2>2
  <2>7. SumOf(Of(h, T)) = SumOf(Of(f, T)) + SumOf(Of(g, T))
    <3> HIDE DEF Of, R
    <3> QED
      BY <2>3, <2>4, <2>5, <2>6
  <2> HIDE DEF Of
  <2> QED
    BY <2>7
<1>4. S \in P
  <2> HIDE DEF P
  <2> QED
    BY <1>2, <1>3, FiniteSetInduction
<1>5. Of(f, S) = f /\ Of(g, S) = g /\ Of(h, S) = h
  OBVIOUS
<1> HIDE DEF Of
<1> QED
  BY <1>4, <1>5

(* A range to encode over. *)
IsRange(s) ==
  s.type \in Types /\ s.vmin \in Nat /\ s.vmax \in Nat /\ IsQuantizer(s)

(* What is encoded is a code, and a float stays what it is.                 *)
LEMMA EncodesToCodes ==
  ASSUME NEW s, IsRange(s), NEW v \in Nat
  PROVE  /\ Encode(s, v) \in Nat
         /\ s.type # "float" => Encode(s, v) \in 0 .. MaxCode[s.type]
<1>1. CASE s.type = "float"
  BY <1>1 DEF Encode
<1>2. CASE s.type # "float"
  <2> DEFINE max    == MaxCode[s.type]
             scaled == (2 * (v - s.vmin) * max + Extent(s)) \div (2 * Extent(s))
  <2>1. max \in Nat /\ Extent(s) \in Nat \ {0}
    BY <1>2, CodesAssumption DEF IsRange, Types, IsQuantizer, Extent
  <2>2. scaled \in Int
    <3>1. v - s.vmin \in Int
      BY DEF IsRange
    <3> HIDE DEF max
    <3>2. 2 * (v - s.vmin) * max + Extent(s) \in Int /\ 2 * Extent(s) \in Nat \ {0}
      BY <2>1, <3>1
    <3> QED
      BY <3>2
  <2> HIDE DEF scaled, max
  <2>3. Min({max, scaled}) = IF max <= scaled THEN max ELSE scaled
    BY <2>1, <2>2, LeastOfTwo
  <2>4. Max({0, Min({max, scaled})}) = IF 0 >= Min({max, scaled}) THEN 0 ELSE Min({max, scaled})
    BY <2>1, <2>2, <2>3, GreatestOfTwo
  <2>5. Encode(s, v) = Max({0, Min({max, scaled})})
    BY <1>2 DEF Encode, max, scaled
  <2>6. Encode(s, v) \in 0 .. max
    BY <2>1, <2>2, <2>3, <2>4, <2>5
  <2> QED
    BY <2>1, <2>6 DEF max
<1> QED
  BY <1>1, <1>2

(* Rounding to the nearest code moves a weight, as far as the range         *)
(* reaches, by half a step at most: e codes of a step of E / m against w.   *)
Nearest(v, E, m) == (2 * v * m + E) \div (2 * E)

(* A code e of a range E is within half a step of the weight w.             *)
Near(e, E, w, m) == 2 * (e * E) <= 2 * (w * m) + E /\ 2 * (w * m) <= 2 * (e * E) + E

(* Rounding to the nearest code is off by half a step at most, and beyond   *)
(* the range by what is beyond.                                             *)
LEMMA NearestCode ==
  ASSUME NEW m \in Nat \ {0}, NEW E \in Nat \ {0}, NEW v \in Nat
  PROVE  /\ Nearest(v, E, m) \in Nat
         /\ v < E => Nearest(v, E, m) <= m /\ Near(Nearest(v, E, m), E, v, m)
         /\ v >= E => Nearest(v, E, m) >= m
<1> DEFINE q == Nearest(v, E, m)
           a == v * m
           b == 2 * E
           n == 2 * a + E
<1>1. a \in Nat /\ b \in Nat \ {0} /\ n \in Nat /\ 2 * v * m = 2 * a
  OBVIOUS
<1>2. q \in Nat /\ n = b * q + (n % b) /\ n % b \in 0 .. b - 1
  <2>1. q = n \div b
    BY <1>1 DEF Nearest
  <2> HIDE DEF n, b, q
  <2> QED
    BY <1>1, <2>1, Z3
<1> HIDE DEF q
<1> DEFINE c == q * E
           z == m * E
<1>3. c \in Nat /\ b * q = 2 * c /\ z \in Nat
  BY <1>2
<1>4. n = 2 * c + (n % b) /\ n % b \in 0 .. 2 * E - 1
  BY <1>2, <1>3
<1>5. ASSUME v < E
      PROVE  q <= m /\ Near(q, E, v, m)
  <2>1. a + m <= z
    <3>1. v + 1 <= E
      BY <1>5
    <3>2. m * (v + 1) <= m * E
      BY <3>1, Z3
    <3>3. m * (v + 1) = a + m
      OBVIOUS
    <3> QED
      BY <3>2, <3>3
  <2>2. 2 * c <= 2 * a + E /\ 2 * a <= 2 * c + E
    <3> DEFINE r == n % b
    <3>1. 2 * a + E = 2 * c + r /\ r \in Nat /\ r <= 2 * E - 1
      BY <1>4
    <3> HIDE DEF r, a, c
    <3> QED
      BY <1>1, <1>3, <3>1
  <2>3. q <= m
    <3>1. CASE q >= m + 1
      <4>1. E * (m + 1) <= E * q
        BY <1>2, <3>1, Z3
      <4>2. E * (m + 1) = z + E /\ E * q = c
        BY <1>2
      <4> HIDE DEF a, c, z
      <4> QED
        BY <1>1, <1>3, <2>1, <2>2, <4>1, <4>2
    <3> QED
      BY <1>2, <3>1
  <2> QED
    BY <2>2, <2>3 DEF Near
<1>6. ASSUME v >= E
      PROVE  q >= m
  <2>1. z <= a
    <3>1. m * E <= m * v
      BY <1>6, Z3
    <3> QED
      BY <3>1
  <2>2. CASE q + 1 <= m
    <3>1. E * (q + 1) <= E * m
      BY <1>2, <2>2, Z3
    <3>2. E * (q + 1) = c + E /\ E * m = z
      BY <1>2
    <3> DEFINE r == n % b
    <3>3. 2 * a + E = 2 * c + r /\ r \in Nat /\ r <= 2 * E - 1
      BY <1>4
    <3> HIDE DEF r, a, c, z
    <3> QED
      BY <1>1, <1>3, <2>1, <3>1, <3>2, <3>3
  <2> QED
    BY <1>2, <2>2
<1> QED
  BY <1>2, <1>5, <1>6 DEF q

(* The weight a range leaves of v. *)
Reach(s, v) == IF s.type = "float" THEN v ELSE Min({v, s.vmax})

(* So is encoding: it stands for the weight as far as the range reaches     *)
(* (scalar_quantizer.h:97-119).                                             *)
LEMMA EncodesNear ==
  ASSUME NEW s, IsRange(s), s.type # "float", s.vmin = 0, NEW v \in Nat
  PROVE  /\ Reach(s, v) \in Nat /\ Reach(s, v) <= v
         /\ Extent(s) \in Nat \ {0}
         /\ Near(Encode(s, v), Extent(s), Reach(s, v), MaxCode[s.type])
<1> DEFINE max == MaxCode[s.type]
           E   == Extent(s)
           q   == (2 * (v - s.vmin) * max + E) \div (2 * E)
<1>1. max \in Nat \ {0} /\ E \in Nat \ {0} /\ E = s.vmax
  BY CodesAssumption DEF IsRange, Types, IsQuantizer, Extent
<1>2. /\ q \in Nat
      /\ v < E => q <= max /\ Near(q, E, v, max)
      /\ v >= E => q >= max
  <2>1. v - s.vmin = v
    OBVIOUS
  <2>2. q = Nearest(v, E, max)
    BY <2>1 DEF Nearest
  <2> HIDE DEF max, E, q
  <2> QED
    BY <1>1, <2>2, NearestCode
<1>3. Reach(s, v) = IF v <= E THEN v ELSE E
  <2> HIDE DEF E
  <2> QED
    BY <1>1, LeastOfTwo DEF Reach
<1>4. Encode(s, v) = IF max <= q THEN max ELSE q
  <2>1. Encode(s, v) = Max({0, Min({max, q})})
    BY DEF Encode
  <2> HIDE DEF max, E, q
  <2>2. Min({max, q}) = IF max <= q THEN max ELSE q
    BY <1>1, <1>2, LeastOfTwo
  <2>3. Max({0, Min({max, q})}) = IF 0 >= Min({max, q}) THEN 0 ELSE Min({max, q})
    BY <1>1, <1>2, <2>2, GreatestOfTwo
  <2> QED
    BY <1>1, <1>2, <2>1, <2>2, <2>3
<1> HIDE DEF max, E, q
<1>5. Near(Encode(s, v), E, Reach(s, v), max)
  <2>1. CASE v < E
    BY <1>1, <1>2, <1>3, <1>4, <2>1
  <2>2. CASE v >= E
    <3>1. Encode(s, v) = max /\ Reach(s, v) = E
      BY <1>1, <1>2, <1>3, <1>4, <2>2
    <3>2. max * E \in Nat /\ E * max = max * E
      BY <1>1
    <3>3. Near(max, E, E, max)
      BY <1>1, <3>2 DEF Near
    <3> QED
      BY <3>1, <3>3
  <2> QED
    BY <1>1, <2>1, <2>2
<1> QED
  BY <1>1, <1>3, <1>5 DEF E, max

(* If two numbers are each near another, so are their products. *)
LEMMA NearProducts ==
  ASSUME NEW a \in Nat, NEW A \in Nat, NEW R \in Nat, a <= A + R, A <= a + R,
         NEW b \in Nat, NEW B \in Nat, NEW S \in Nat, b <= B + S, B <= b + S
  PROVE  /\ a * b <= A * B + (A * S + R * B + R * S)
         /\ A * B <= a * b + (A * S + R * B + R * S)
<1>1. ASSUME NEW x \in Nat, NEW y \in Nat, NEW u \in Nat, NEW v \in Nat, x <= u, y <= v
      PROVE  x * y <= u * v
  <2>1. x * y <= u * y
    BY <1>1, Z3
  <2>2. u * y <= u * v
    BY <1>1, Z3
  <2>3. x * y \in Nat /\ u * y \in Nat /\ u * v \in Nat
    OBVIOUS
  <2> QED
    BY <2>1, <2>2, <2>3
<1>2. /\ A * B \in Nat /\ A * S \in Nat /\ R * B \in Nat /\ R * S \in Nat /\ a * b \in Nat
  OBVIOUS
<1>3. a * b <= A * B + (A * S + R * B + R * S)
  <2>1. A + R \in Nat /\ B + S \in Nat
    OBVIOUS
  <2>2. a * b <= (A + R) * (B + S)
    BY <1>1, <2>1
  <2>3. (A + R) * (B + S) = A * B + (A * S + R * B + R * S)
    OBVIOUS
  <2> QED
    BY <2>2, <2>3
<1>4. A * B <= a * b + (A * S + R * B + R * S)
  <2>1. CASE A < R
    <3>1. A * B <= R * B
      BY <1>1, <2>1
    <3> QED
      BY <1>2, <3>1
  <2>2. CASE B < S
    <3>1. A * B <= A * S
      BY <1>1, <2>2
    <3> QED
      BY <1>2, <3>1
  <2>3. CASE A >= R /\ B >= S
    <3> DEFINE x == A - R
               y == B - S
    <3>1. x \in Nat /\ y \in Nat /\ x <= a /\ y <= b /\ A = x + R /\ B = y + S
      BY <2>3
    <3> HIDE DEF x, y
    <3>2. x * y <= a * b /\ x * y \in Nat /\ x * S \in Nat /\ R * y \in Nat
      BY <1>1, <3>1
    <3>3. /\ A * B = x * y + x * S + R * y + R * S
          /\ A * S = x * S + R * S /\ R * B = R * y + R * S
      BY <3>1
    <3> QED
      BY <1>2, <3>2, <3>3
  <2> QED
    BY <2>1, <2>2, <2>3
<1> QED
  BY <1>3, <1>4

(* A term of a score, decoded and exact, and what rounding may add to it.   *)
Slack(w, q, R, S, m) == 2 * m * w * S + 2 * m * q * R + R * S

(* A term's product of codes, decoded, is that of its weights give or take  *)
(* the rounding of both.                                                    *)
LEMMA TermIsNear ==
  ASSUME NEW s, IsRange(s), s.type # "float", s.vmin = 0,
         NEW r, IsRange(r), r.type = s.type, r.vmin = 0,
         NEW w \in Nat, NEW q \in Nat,
         NEW m, m = MaxCode[s.type]
  PROVE  LET R == Extent(s)
             S == Extent(r)
             decoded == (4 * R * S) * (Encode(s, w) * Encode(r, q))
             exact   == (4 * m * m) * (Reach(s, w) * Reach(r, q))
         IN  /\ decoded \in Nat /\ exact \in Nat /\ Slack(w, q, R, S, m) \in Nat
             /\ decoded <= exact + Slack(w, q, R, S, m)
             /\ exact <= decoded + Slack(w, q, R, S, m)
<1> DEFINE R  == Extent(s)
           S  == Extent(r)
           cw == Encode(s, w)
           cq == Encode(r, q)
           rw == Reach(s, w)
           rq == Reach(r, q)
<1>1. R \in Nat \ {0} /\ S \in Nat \ {0} /\ m \in Nat
  <2>1. m \in Nat
    BY CodesAssumption DEF IsRange, Types
  <2> QED
    BY <2>1, EncodesNear
<1>2. cw \in Nat /\ cq \in Nat
  BY EncodesToCodes
<1>3. rw \in Nat /\ rq \in Nat /\ rw <= w /\ rq <= q
  BY EncodesNear
<1>4. Near(cw, R, rw, m) /\ Near(cq, S, rq, m)
  BY EncodesNear
<1> HIDE DEF R, S, cw, cq, rw, rq
<1> DEFINE a == 2 * (cw * R)
           A == 2 * (rw * m)
           b == 2 * (cq * S)
           B == 2 * (rq * m)
<1>5. /\ a \in Nat /\ A \in Nat /\ b \in Nat /\ B \in Nat
      /\ a <= A + R /\ A <= a + R /\ b <= B + S /\ B <= b + S
  BY <1>1, <1>2, <1>3, <1>4 DEF Near
<1>6. /\ (4 * R * S) * (cw * cq) = a * b
      /\ (4 * m * m) * (rw * rq) = A * B
  BY <1>1, <1>2, <1>3
<1>7. A * S <= 2 * m * w * S /\ B * R <= 2 * m * q * R
  <2>1. ASSUME NEW x \in Nat, NEW y \in Nat, NEW c \in Nat, x <= y
        PROVE  c * x <= c * y
    BY <2>1, Z3
  <2>2. 2 * m * S \in Nat /\ 2 * m * R \in Nat
    BY <1>1
  <2>3. (2 * m * S) * rw <= (2 * m * S) * w /\ (2 * m * R) * rq <= (2 * m * R) * q
    BY <1>3, <2>1, <2>2
  <2>4. /\ A * S = (2 * m * S) * rw /\ 2 * m * w * S = (2 * m * S) * w
        /\ B * R = (2 * m * R) * rq /\ 2 * m * q * R = (2 * m * R) * q
    BY <1>1, <1>3
  <2> QED
    BY <2>3, <2>4
<1>8. A * S \in Nat /\ B * R \in Nat /\ R * B = B * R /\ R * S \in Nat
  BY <1>1, <1>5
<1>9. /\ 2 * m * w * S \in Nat /\ 2 * m * q * R \in Nat /\ a * b \in Nat /\ A * B \in Nat
  BY <1>1, <1>5
<1>10. /\ a * b <= A * B + (A * S + R * B + R * S)
       /\ A * B <= a * b + (A * S + R * B + R * S)
  <2> HIDE DEF a, A, b, B
  <2> QED
    BY <1>1, <1>5, NearProducts
<1> DEFINE u == a * b
           v == A * B
           e == A * S
           f == R * B
           g == R * S
           ee == 2 * m * w * S
           ff == 2 * m * q * R
<1>11. Slack(w, q, R, S, m) = ee + ff + g
  BY DEF Slack
<1>12. /\ u \in Nat /\ v \in Nat /\ e \in Nat /\ f \in Nat /\ g \in Nat /\ ee \in Nat /\ ff \in Nat
       /\ e <= ee /\ f <= ff /\ u <= v + (e + f + g) /\ v <= u + (e + f + g)
  BY <1>7, <1>8, <1>9, <1>10
<1>13. (4 * R * S) * (cw * cq) = u /\ (4 * m * m) * (rw * rq) = v
  BY <1>6
<1> HIDE DEF u, v, e, f, g, ee, ff, a, A, b, B
<1>14. /\ u \in Nat /\ v \in Nat /\ ee + ff + g \in Nat
       /\ u <= v + (ee + ff + g) /\ v <= u + (ee + ff + g)
  BY <1>12
<1> QED
  BY <1>11, <1>13, <1>14 DEF R, S, cw, cq, rw, rq

(* Rows, encoded and as far as their range reaches.                         *)
EncodedRow(s, r) == [t \in DOMAIN r |-> Encode(s, r[t])]

(* The rounding of a row and a query, term by term.                         *)
RowSlack(s, w, r, q) ==
  SumOf([t \in DOMAIN w \intersect DOMAIN q |->
           Slack(w[t], q[t], Extent(s), Extent(r), MaxCode[s.type])])

(* What codes score, decoded, is the score of the weights as far as their   *)
(* ranges reach, give or take half a step for each.                         *)
LEMMA DecodedIsNear ==
  ASSUME NEW s, IsRange(s), s.type # "float", s.vmin = 0,
         NEW r, IsRange(r), r.type = s.type, r.vmin = 0,
         NEW w, IsRow(w), NEW q, IsRow(q)
  PROVE  LET m       == MaxCode[s.type]
             score   == Inner(EncodedRow(s, w), EncodedRow(r, q))
             decoded == 4 * score * Extent(s) * Extent(r)
             exact   == Inner(Clamped(s, w), Clamped(r, q)) * (4 * m * m)
         IN  /\ decoded \in Nat /\ exact \in Nat /\ RowSlack(s, w, r, q) \in Nat
             /\ decoded <= exact + RowSlack(s, w, r, q)
             /\ exact <= decoded + RowSlack(s, w, r, q)
<1> DEFINE D == DOMAIN w \intersect DOMAIN q
           m == MaxCode[s.type]
           R == Extent(s)
           S == Extent(r)
           codes(t)   == Encode(s, w[t]) * Encode(r, q[t])
           weighed(t) == Reach(s, w[t]) * Reach(r, q[t])
           cs == [t \in D |-> codes(t)]
           ws == [t \in D |-> weighed(t)]
           fs == [t \in D |-> (4 * R * S) * codes(t)]
           xs == [t \in D |-> (4 * m * m) * weighed(t)]
           es == [t \in D |-> Slack(w[t], q[t], R, S, m)]
           xe == [t \in D |-> xs[t] + es[t]]
           fe == [t \in D |-> fs[t] + es[t]]
<1>1. Inner(EncodedRow(s, w), EncodedRow(r, q)) = SumOf(cs)
  BY DEF Inner, EncodedRow
<1>2. Inner(Clamped(s, w), Clamped(r, q)) = SumOf(ws)
  BY DEF Inner, Clamped, Reach
<1>3. RowSlack(s, w, r, q) = SumOf(es)
  BY DEF RowSlack
<1>4. IsFiniteSet(D)
  <2>1. D \subseteq 0 .. Dim /\ Dim \in Nat
    BY DimAssumption DEF IsRow, Terms
  <2> HIDE DEF D
  <2> QED
    BY <2>1, AscendingAscends
<1>5. R \in Nat /\ S \in Nat /\ m \in Nat /\ 4 * R * S \in Nat /\ 4 * m * m \in Nat
  <2>1. m \in Nat
    BY CodesAssumption DEF IsRange, Types
  <2>2. R \in Nat /\ S \in Nat
    BY EncodesNear
  <2> HIDE DEF R, S, m
  <2> QED
    BY <2>1, <2>2
<1>6. ASSUME NEW t \in D
      PROVE  /\ codes(t) \in Nat /\ weighed(t) \in Nat
             /\ fs[t] \in Nat /\ xs[t] \in Nat /\ es[t] \in Nat
             /\ fs[t] <= xs[t] + es[t] /\ xs[t] <= fs[t] + es[t]
  <2>1. w[t] \in Nat /\ q[t] \in Nat
    BY DEF IsRow
  <2>2. Encode(s, w[t]) \in Nat /\ Encode(r, q[t]) \in Nat
    BY <2>1, EncodesToCodes
  <2>3. Reach(s, w[t]) \in Nat /\ Reach(r, q[t]) \in Nat
    BY <2>1, EncodesNear
  <2>4. codes(t) \in Nat /\ weighed(t) \in Nat
    BY <2>2, <2>3
  <2>5. /\ (4 * R * S) * codes(t) \in Nat /\ (4 * m * m) * weighed(t) \in Nat
        /\ Slack(w[t], q[t], R, S, m) \in Nat
        /\ (4 * R * S) * codes(t) <= (4 * m * m) * weighed(t) + Slack(w[t], q[t], R, S, m)
        /\ (4 * m * m) * weighed(t) <= (4 * R * S) * codes(t) + Slack(w[t], q[t], R, S, m)
    BY <2>1, TermIsNear
  <2> HIDE DEF codes, weighed, R, S, m
  <2> QED
    BY <2>4, <2>5
<1>7. /\ cs \in [D -> Nat] /\ ws \in [D -> Nat] /\ fs \in [D -> Nat] /\ xs \in [D -> Nat]
      /\ es \in [D -> Nat] /\ xe \in [D -> Nat] /\ fe \in [D -> Nat]
  <2>1. \A t \in D : /\ codes(t) \in Nat /\ weighed(t) \in Nat
                     /\ fs[t] \in Nat /\ xs[t] \in Nat /\ es[t] \in Nat
    BY <1>6
  <2>2. DOMAIN fs = D /\ DOMAIN xs = D /\ DOMAIN es = D
    OBVIOUS
  <2>3. fs = [t \in D |-> fs[t]] /\ xs = [t \in D |-> xs[t]] /\ es = [t \in D |-> es[t]]
    OBVIOUS
  <2> HIDE DEF codes, weighed, D, fs, xs, es
  <2> QED
    BY <2>1, <2>2, <2>3
<1>8. SumOf(fs) = (4 * R * S) * SumOf(cs) /\ SumOf(xs) = (4 * m * m) * SumOf(ws)
  <2>1. \A t \in D : fs[t] = (4 * R * S) * cs[t] /\ xs[t] = (4 * m * m) * ws[t]
    OBVIOUS
  <2> DEFINE c == 4 * R * S
             d == 4 * m * m
  <2>2. c \in Nat /\ d \in Nat /\ \A t \in D : fs[t] = c * cs[t] /\ xs[t] = d * ws[t]
    BY <1>5, <2>1
  <2> HIDE DEF c, d, cs, ws, fs, xs, D
  <2>3. /\ cs \in [D -> Nat] /\ fs \in [D -> Nat] /\ ws \in [D -> Nat] /\ xs \in [D -> Nat]
        /\ (\A t \in D : fs[t] = c * cs[t]) /\ \A t \in D : xs[t] = d * ws[t]
    BY <1>7, <2>2
  <2>4. SumOf(fs) = c * SumOf(cs)
    BY <1>4, <2>2, <2>3, SumScaled
  <2>5. SumOf(xs) = d * SumOf(ws)
    BY <1>4, <2>2, <2>3, SumScaled
  <2> QED
    BY <2>4, <2>5 DEF c, d
<1>9. SumOf(fs) <= SumOf(xs) + SumOf(es)
  <2>1. (\A t \in D : xe[t] = xs[t] + es[t]) /\ \A t \in D : fs[t] <= xe[t]
    BY <1>6
  <2> HIDE DEF xe, xs, es, fs, D
  <2>2. SumOf(xe) = SumOf(xs) + SumOf(es)
    BY <1>4, <1>7, <2>1, SumAdded
  <2>3. SumOf(fs) <= SumOf(xe)
    BY <1>4, <1>7, <2>1, SumAtMost
  <2> QED
    BY <2>2, <2>3
<1>10. SumOf(xs) <= SumOf(fs) + SumOf(es)
  <2>1. (\A t \in D : fe[t] = fs[t] + es[t]) /\ \A t \in D : xs[t] <= fe[t]
    BY <1>6
  <2> HIDE DEF fe, xs, es, fs, D
  <2>2. SumOf(fe) = SumOf(fs) + SumOf(es)
    BY <1>4, <1>7, <2>1, SumAdded
  <2>3. SumOf(xs) <= SumOf(fe)
    BY <1>4, <1>7, <2>1, SumAtMost
  <2> QED
    BY <2>2, <2>3
<1> HIDE DEF cs, ws, fs, xs, es, xe, fe, D
<1>11. SumOf(cs) \in Nat /\ SumOf(ws) \in Nat /\ SumOf(es) \in Nat
  BY <1>4, <1>7, SumType
<1> HIDE DEF R, S, m
<1>12. /\ 4 * SumOf(cs) * R * S = (4 * R * S) * SumOf(cs) /\ 4 * SumOf(cs) * R * S \in Nat
       /\ SumOf(ws) * (4 * m * m) = (4 * m * m) * SumOf(ws) /\ SumOf(ws) * (4 * m * m) \in Nat
  BY <1>5, <1>11
<1>13. /\ 4 * SumOf(cs) * R * S <= SumOf(ws) * (4 * m * m) + SumOf(es)
       /\ SumOf(ws) * (4 * m * m) <= 4 * SumOf(cs) * R * S + SumOf(es)
  BY <1>8, <1>9, <1>10, <1>12
<1> QED
  BY <1>1, <1>2, <1>3, <1>11, <1>12, <1>13 DEF R, S, m

-----------------------------------------------------------------------------
(* Clustering.                                                              *)

(* A corpus an index can be built over. *)
IsCorpus(c) ==
  Len(c) \in Nat /\ DOMAIN c = 1 .. Len(c) /\ \A i \in DOMAIN c : IsRow(c[i])

(* The documents of a corpus that have term t.                              *)
Having(c, t) == {d \in 0 .. Len(c) - 1 : t \in DOMAIN Row(c, d)}

(* A posting list is the documents that have its term.                      *)
LEMMA PostingsHaveTheTerm ==
  ASSUME NEW c, IsCorpus(c), NEW t
  PROVE  /\ PostingsOf(c, t) \in Seq(Having(c, t))
         /\ Range(PostingsOf(c, t)) = Having(c, t)
         /\ Len(PostingsOf(c, t)) \in 0 .. Len(c)
  <1> DEFINE H == Having(c, t)
             s == PostingsOf(c, t)
  <1>1. H \subseteq 0 .. Len(c) /\ Len(c) \in Nat /\ s = Ascending(H)
    BY DEF Having, PostingsOf, IsCorpus
  <1>2. /\ s \in [1 .. Cardinality(H) -> H] /\ Cardinality(H) \in Nat
        /\ s \in Seq(H) /\ \A x \in H : \E i \in DOMAIN s : s[i] = x
    <2> HIDE DEF H, s
    <2> QED
      BY <1>1, AscendingAscends, AscendingHasAll
  <1>3. Range(s) = H
    <2> HIDE DEF H, s
    <2> QED
      BY <1>2 DEF Range
  <1>4. Cardinality(H) <= Len(c)
    <2>1. H \in SUBSET (0 .. Len(c) - 1)
      BY DEF Having
    <2>2. IsFiniteSet(0 .. Len(c) - 1) /\ Cardinality(0 .. Len(c) - 1) = Len(c)
      <3>1. 0 \in Int /\ Len(c) - 1 \in Int /\ Len(c) = IF 0 > Len(c) - 1 THEN 0 ELSE (Len(c) - 1) - 0 + 1
        BY <1>1
      <3> QED
        BY <3>1, FS_Interval
    <2> HIDE DEF H
    <2>3. Cardinality(H) <= Cardinality(0 .. Len(c) - 1)
      BY <2>1, <2>2, FS_Subset
    <2> QED
      BY <2>2, <2>3
  <1>5. Len(s) = Cardinality(H)
    <2> HIDE DEF H, s
    <2> QED
      BY <1>2, FunctionIsSequence
  <1> HIDE DEF H, s
  <1> QED
    BY <1>1, <1>2, <1>3, <1>4, <1>5 DEF H, s

(* Pruning adds no documents, and a list that is not longer than lambda     *)
(* loses none.                                                              *)
LEMMA KeptHaveTheTerm ==
  ASSUME NEW c, IsCorpus(c), NEW t, NEW lambda \in Nat, NEW kept \in Kept(c, t, lambda)
  PROVE  /\ kept \in Seq(Having(c, t))
         /\ lambda = 0 \/ lambda >= Len(c) => Range(kept) = Having(c, t)
         /\ Len(kept) <= Len(c)
  <1> DEFINE list == PostingsOf(c, t)
  <1>1. /\ list \in Seq(Having(c, t)) /\ Range(list) = Having(c, t) /\ Len(list) \in 0 .. Len(c)
        /\ Len(c) \in Nat
    BY PostingsHaveTheTerm DEF IsCorpus
  <1>2. CASE lambda = 0 \/ lambda >= Len(list)
    <2>1. kept = list
      BY <1>2 DEF Kept
    <2> QED
      BY <1>1, <2>1
  <1>3. CASE ~(lambda = 0 \/ lambda >= Len(list))
    <2>1. kept \in Arrangements(Range(list), lambda)
      BY <1>3 DEF Kept
    <2>2. kept \in [1 .. lambda -> Having(c, t)]
      BY <1>1, <2>1 DEF Arrangements
    <2>3. kept \in Seq(Having(c, t)) /\ Len(kept) = lambda
      BY <2>2, FunctionIsSequence
    <2> HIDE DEF list
    <2>4. ~(lambda >= Len(c)) /\ lambda <= Len(c)
      BY <1>1, <1>3
    <2> QED
      BY <1>3, <2>3, <2>4
  <1> QED
    BY <1>2, <1>3

(* There is a cluster at least.                                             *)
LEMMA SomeClusters ==
  ASSUME NEW beta \in Nat, NEW n \in Nat
  PROVE  NClusters(beta, n) \in Nat \ {0}
  <1> DEFINE roots  == {r \in 0 .. n : r * r <= n}
             root   == Max(roots)
             wanted == IF beta = 0 THEN root ELSE beta
  <1>1. root \in roots
    <2>1. roots \subseteq 0 .. n /\ 0 \in roots
      OBVIOUS
    <2> HIDE DEF roots
    <2>2. \E x \in roots : \A y \in roots : y <= x
      BY <2>1, GreatestNatural
    <2>3. \E x \in roots : \A y \in roots : x >= y
      BY <2>1, <2>2
    <2> QED
      BY <2>3 DEF Max
  <1>2. wanted \in Nat
    BY <1>1
  <1> HIDE DEF wanted
  <1>3. Min({wanted, n}) = IF wanted <= n THEN wanted ELSE n
    BY <1>2, LeastOfTwo
  <1>4. Min({wanted, n}) \in Nat
    BY <1>2, <1>3
  <1>5. Max({1, Min({wanted, n})}) = IF 1 >= Min({wanted, n}) THEN 1 ELSE Min({wanted, n})
    <2> DEFINE m == Min({wanted, n})
    <2>1. 1 \in Int /\ m \in Int
      BY <1>4
    <2> HIDE DEF m
    <2>2. Max({1, m}) = IF 1 >= m THEN 1 ELSE m
      BY <2>1, GreatestOfTwo
    <2> QED
      BY <2>2 DEF m
  <1>6. NClusters(beta, n) = Max({1, Min({wanted, n})})
    BY DEF NClusters, wanted
  <1> QED
    BY <1>4, <1>5, <1>6

(* Rows of naturals have a similarity.                                      *)
LEMMA InnerIsNatural ==
  ASSUME NEW r, IsRow(r), NEW s, IsRow(s)
  PROVE  Inner(r, s) \in Nat
  <1> DEFINE D == DOMAIN r \intersect DOMAIN s
             f == [t \in D |-> r[t] * s[t]]
  <1>1. D \subseteq 0 .. Dim /\ Dim \in Nat
    BY DimAssumption DEF IsRow, Terms
  <1>2. IsFiniteSet(D)
    <2> HIDE DEF D
    <2> QED
      BY <1>1, AscendingAscends
  <1>3. f \in [D -> Nat]
    BY DEF IsRow
  <1> HIDE DEF D, f
  <1>4. SumOf(f) \in Nat
    BY <1>2, <1>3, SumType
  <1> QED
    BY <1>4 DEF Inner, D, f

(* A document's closest centroid is one of the centroids.                   *)
LEMMA ClosestIsACentroid ==
  ASSUME NEW c, IsCorpus(c), NEW d \in 0 .. Len(c) - 1, NEW n \in Nat \ {0},
         NEW centroids \in [1 .. n -> 0 .. Len(c) - 1]
  PROVE  Closest(c, d, centroids) \in 1 .. n
  <1> DEFINE sim == [i \in 1 .. n |-> Inner(Row(c, d), Row(c, centroids[i]))]
  <1>1. ASSUME NEW e \in 0 .. Len(c) - 1
        PROVE  IsRow(Row(c, e))
    BY DEF IsCorpus, Row
  <1>2. sim \in [1 .. n -> Nat]
    BY <1>1, InnerIsNatural
  <1> HIDE DEF sim
  <1>3. \E i \in 1 .. n : \A j \in (1 .. n) \ {i} :
          IF j < i THEN sim[j] < sim[i] ELSE sim[j] <= sim[i]
    BY <1>2, FirstGreatest
  <1>4. \E i \in DOMAIN centroids : \A j \in DOMAIN centroids \ {i} :
          IF j < i THEN Inner(Row(c, d), Row(c, centroids[j])) < Inner(Row(c, d), Row(c, centroids[i]))
                   ELSE Inner(Row(c, d), Row(c, centroids[j])) <= Inner(Row(c, d), Row(c, centroids[i]))
    <2>1. DOMAIN centroids = 1 .. n
      OBVIOUS
    <2>2. \A i \in 1 .. n : Inner(Row(c, d), Row(c, centroids[i])) = sim[i]
      BY DEF sim
    <2>3. PICK i \in 1 .. n : \A j \in (1 .. n) \ {i} :
            IF j < i THEN sim[j] < sim[i] ELSE sim[j] <= sim[i]
      BY <1>3
    <2>4. ASSUME NEW j \in DOMAIN centroids \ {i}
          PROVE  IF j < i
                   THEN Inner(Row(c, d), Row(c, centroids[j])) < Inner(Row(c, d), Row(c, centroids[i]))
                   ELSE Inner(Row(c, d), Row(c, centroids[j])) <= Inner(Row(c, d), Row(c, centroids[i]))
      <3>1. j \in (1 .. n) \ {i}
        BY <2>1
      <3> QED
        BY <2>2, <2>3, <3>1
    <2> QED
      BY <2>1, <2>4
  <1> QED
    BY <1>4 DEF Closest

(* What is picked from a sequence is what was at those places.              *)
LEMMA PickedAreThere ==
  ASSUME NEW S, NEW s \in Seq(S), NEW P, P \subseteq DOMAIN s
  PROVE  /\ Picked(s, P) \in Seq(S)
         /\ \A j \in P : s[j] \in Range(Picked(s, P))
  <1> DEFINE places == Ascending(P)
             n      == Cardinality(P)
  <1>1. P \subseteq 0 .. Len(s) /\ Len(s) \in Nat
    OBVIOUS
  <1>2. /\ places \in [1 .. n -> P] /\ n \in Nat
        /\ \A x \in P : \E i \in DOMAIN places : places[i] = x
    BY <1>1, AscendingAscends, AscendingHasAll
  <1> HIDE DEF places, n
  <1>3. Picked(s, P) = [j \in 1 .. n |-> s[places[j]]]
    BY <1>2 DEF Picked, places
  <1>4. \A j \in 1 .. n : s[places[j]] \in S
    BY <1>2
  <1>5. Picked(s, P) \in [1 .. n -> S]
    BY <1>3, <1>4
  <1>6. Picked(s, P) \in Seq(S)
    BY <1>2, <1>5, FunctionIsSequence
  <1>7. ASSUME NEW j \in P
        PROVE  s[j] \in Range(Picked(s, P))
    <2>1. PICK i \in 1 .. n : places[i] = j
      BY <1>2
    <2>2. Picked(s, P)[i] = s[j] /\ i \in DOMAIN Picked(s, P)
      BY <1>3, <2>1
    <2> QED
      BY <2>2 DEF Range
  <1> QED
    BY <1>6, <1>7

(* Each of the kept documents is in a cluster, and no others are.           *)
LEMMA AllAreAssigned ==
  ASSUME NEW c, IsCorpus(c), NEW H, H \subseteq 0 .. Len(c) - 1, NEW kept \in Seq(H),
         NEW n \in Nat \ {0}, NEW centroids \in [1 .. n -> Range(kept)]
  PROVE  LET parts == Assigned(c, kept, centroids)
         IN  /\ parts \in [1 .. n -> Seq(H)]
             /\ \A i \in 1 .. n : parts[i] # <<>>
             /\ \A d \in Range(kept) : \E i \in 1 .. n : d \in Range(parts[i])
  <1> DEFINE parts == Assigned(c, kept, centroids)
             P(i)  == {j \in DOMAIN kept : /\ kept[j] \notin Range(centroids)
                                           /\ Closest(c, kept[j], centroids) = i}
             tail(i) == Picked(kept, P(i))
  <1>1. parts = [i \in 1 .. n |-> <<centroids[i]>> \o tail(i)]
    BY DEF Assigned
  <1>2. Range(kept) \subseteq H
    BY DEF Range
  <1>3. ASSUME NEW i \in 1 .. n
        PROVE  /\ tail(i) \in Seq(H) /\ centroids[i] \in H
               /\ \A j \in P(i) : kept[j] \in Range(tail(i))
    <2>1. P(i) \subseteq DOMAIN kept
      OBVIOUS
    <2> HIDE DEF P
    <2> QED
      BY <1>2, <2>1, PickedAreThere
  <1>4. ASSUME NEW i \in 1 .. n
        PROVE  /\ parts[i] \in Seq(H) /\ parts[i] # <<>>
               /\ centroids[i] \in Range(parts[i])
               /\ \A d \in Range(tail(i)) : d \in Range(parts[i])
    <2> DEFINE u == tail(i)
               v == <<centroids[i]>> \o u
    <2>1. parts[i] = v
      BY <1>1
    <2>2. u \in Seq(H) /\ centroids[i] \in H
      BY <1>3
    <2> HIDE DEF u
    <2>3. /\ v \in Seq(H) /\ Len(v) = Len(u) + 1 /\ DOMAIN v = 1 .. Len(u) + 1 /\ v[1] = centroids[i]
          /\ \A j \in 1 .. Len(u) : v[j + 1] = u[j]
      BY <2>2
    <2>4. Len(u) \in Nat /\ DOMAIN u = 1 .. Len(u)
      BY <2>2
    <2> HIDE DEF v
    <2>5. v # <<>> /\ centroids[i] \in Range(v)
      <3>1. 1 \in DOMAIN v
        BY <2>3, <2>4
      <3>2. v # <<>>
        BY <3>1
      <3> QED
        BY <2>3, <3>1, <3>2 DEF Range
    <2>6. \A d \in Range(u) : d \in Range(v)
      <3>1. ASSUME NEW j \in 1 .. Len(u)
            PROVE  u[j] \in Range(v)
        <4>1. j + 1 \in DOMAIN v /\ v[j + 1] = u[j]
          BY <2>3, <2>4
        <4> QED
          BY <4>1 DEF Range
      <3> QED
        BY <2>4, <3>1 DEF Range
    <2> HIDE DEF parts, tail
    <2> QED
      BY <2>1, <2>3, <2>5, <2>6 DEF u
  <1>5. ASSUME NEW d \in Range(kept)
        PROVE  \E i \in 1 .. n : d \in Range(parts[i])
    <2>1. CASE d \in Range(centroids)
      <3>1. PICK i \in 1 .. n : centroids[i] = d
        BY <2>1 DEF Range
      <3> HIDE DEF parts
      <3> QED
        BY <1>4, <3>1
    <2>2. CASE d \notin Range(centroids)
      <3>1. PICK j \in DOMAIN kept : kept[j] = d
        BY DEF Range
      <3> DEFINE i == Closest(c, d, centroids)
      <3>2. i \in 1 .. n
        <4>1. centroids \in [1 .. n -> 0 .. Len(c) - 1] /\ d \in 0 .. Len(c) - 1
          BY <1>2
        <4> QED
          BY <4>1, ClosestIsACentroid
      <3>3. j \in P(i)
        BY <2>2, <3>1
      <3> HIDE DEF i, P, parts
      <3>4. d \in Range(tail(i))
        BY <1>3, <3>1, <3>2, <3>3
      <3> HIDE DEF tail
      <3> QED
        BY <1>4, <3>2, <3>4
    <2> QED
      BY <2>1, <2>2
  <1>6. parts \in [1 .. n -> Seq(H)]
    <2>1. DOMAIN parts = 1 .. n /\ parts = [i \in 1 .. n |-> parts[i]]
      BY <1>1
    <2> HIDE DEF parts
    <2> QED
      BY <1>4, <2>1
  <1> HIDE DEF parts
  <1> QED
    BY <1>4, <1>5, <1>6 DEF parts

(* The summary of a cluster has the greatest weight its documents have of a *)
(* term, if it has the term at all.                                         *)
LEMMA PoolIsGreatest ==
  ASSUME NEW c, IsCorpus(c), NEW docs2 \in Seq(0 .. Len(c) - 1)
  PROVE  LET pool == Pool(c, docs2)
         IN  /\ IsRow(pool) /\ IsFiniteSet(DOMAIN pool) /\ pool \in [DOMAIN pool -> Nat]
             /\ \A d \in Range(docs2) : \A t \in DOMAIN Row(c, d) :
                  t \in DOMAIN pool /\ Row(c, d)[t] <= pool[t]
  <1> DEFINE pool == Pool(c, docs2)
             D    == Range(docs2)
             H(t) == {e \in D : t \in DOMAIN Row(c, e)}
             W(t) == {Row(c, d)[t] : d \in H(t)}
  <1>1. IsFiniteSet(D) /\ D \subseteq 0 .. Len(c) - 1 /\ Len(c) \in Nat
    <2>1. D \subseteq 0 .. Len(c) - 1
      BY SequenceElement DEF Range
    <2>2. Len(c) \in Nat /\ D \subseteq 0 .. Len(c)
      BY <2>1 DEF IsCorpus
    <2> HIDE DEF D
    <2> QED
      BY <2>1, <2>2, AscendingAscends
  <1>2. \A d \in D : IsRow(Row(c, d))
    <2>1. ASSUME NEW d \in D
          PROVE  IsRow(Row(c, d))
      <3>1. d + 1 \in DOMAIN c
        BY <1>1 DEF IsCorpus
      <3> QED
        BY <3>1 DEF IsCorpus, Row
    <2> QED
      BY <2>1
  <1>3. /\ DOMAIN pool = UNION {DOMAIN Row(c, d) : d \in D}
        /\ \A t \in DOMAIN pool : pool[t] = Max(W(t))
    BY DEF Pool
  <1>4. DOMAIN pool \subseteq Terms
    BY <1>2, <1>3 DEF IsRow
  <1>5. IsFiniteSet(DOMAIN pool)
    <2>1. Dim \in Nat /\ DOMAIN pool \subseteq 0 .. Dim
      BY <1>4, DimAssumption DEF Terms
    <2> HIDE DEF pool
    <2> QED
      BY <2>1, AscendingAscends
  <1>6. ASSUME NEW t \in DOMAIN pool
        PROVE  pool[t] \in Nat /\ \A d \in H(t) : Row(c, d)[t] <= pool[t]
    <2>1. IsFiniteSet(W(t))
      <3>1. H(t) \in SUBSET D
        OBVIOUS
      <3> DEFINE w == [d \in D |-> IF t \in DOMAIN Row(c, d) THEN Row(c, d)[t] ELSE 0]
                 U == {w[d] : d \in D}
      <3>2. IsFiniteSet(U)
        <4>1. w \in [D -> U] /\ \A u \in U : \E d \in D : w[d] = u
          OBVIOUS
        <4> HIDE DEF w, U
        <4>2. w \in Surjection(D, U)
          BY <4>1 DEF Surjection
        <4> QED
          BY <1>1, <4>2, FS_Surjection
      <3>3. W(t) \in SUBSET U
        OBVIOUS
      <3> HIDE DEF U, W
      <3> QED
        BY <3>2, <3>3, FS_Subset
    <2>2. W(t) \subseteq Nat
      BY <1>2 DEF IsRow
    <2>3. W(t) # {}
      <3>1. PICK d \in D : t \in DOMAIN Row(c, d)
        BY <1>3
      <3> QED
        BY <3>1
    <2>4. \A d \in H(t) : Row(c, d)[t] \in W(t)
      OBVIOUS
    <2>5. pool[t] = Max(W(t))
      BY <1>3
    <2> HIDE DEF W, pool, H
    <2> QED
      BY <2>1, <2>2, <2>3, <2>4, <2>5, GreatestIsGreatest
  <1>7. ASSUME NEW d \in D, NEW t \in DOMAIN Row(c, d)
        PROVE  t \in DOMAIN pool /\ Row(c, d)[t] <= pool[t]
    <2>1. t \in DOMAIN pool
      BY <1>3
    <2>2. d \in H(t)
      OBVIOUS
    <2> HIDE DEF pool, H
    <2> QED
      BY <1>6, <2>1, <2>2
  <1>8. IsRow(pool)
    BY <1>4, <1>6 DEF IsRow
  <1>9. pool = [t \in DOMAIN pool |-> pool[t]]
    BY DEF Pool
  <1> HIDE DEF pool
  <1> QED
    BY <1>5, <1>6, <1>7, <1>8, <1>9 DEF pool

(* What is kept of a pool are terms of it with their weights; and of a pool *)
(* no fraction of whose mass may be left out, every term that weighs        *)
(* something.                                                               *)
LEMMA EmittedIsKept ==
  ASSUME NEW pool, IsRow(pool), pool \in [DOMAIN pool -> Nat], IsFiniteSet(DOMAIN pool), NEW alpha, alpha.den \in Nat \ {0},
         NEW kept \in Emitted(pool, SumOf(pool), alpha)
  PROVE  /\ IsRow(kept) /\ DOMAIN kept \subseteq DOMAIN pool
         /\ \A t \in DOMAIN kept : kept[t] = pool[t]
         /\ alpha.num = alpha.den => \A t \in DOMAIN pool : pool[t] > 0 => t \in DOMAIN kept
  <1>1. CASE DOMAIN pool = {}
    <2>1. kept = pool
      BY <1>1 DEF Emitted
    <2> QED
      BY <2>1
  <1>2. CASE DOMAIN pool # {}
    <2> DEFINE mass(S) == SumOf([t \in S |-> pool[t]])
               sum == SumOf(pool)
    <2>1. PICK S \in SUBSET DOMAIN pool :
            /\ kept = [t \in S |-> pool[t]]
            /\ (sum > 0 /\ mass(S) * alpha.den >= alpha.num * sum) \/ S = DOMAIN pool
      BY <1>2 DEF Emitted
    <2>2. IsRow(kept) /\ DOMAIN kept = S /\ \A t \in S : kept[t] = pool[t]
      BY <2>1 DEF IsRow
    <2>3. ASSUME alpha.num = alpha.den, NEW t \in DOMAIN pool, pool[t] > 0, t \notin S
          PROVE  FALSE
      <3> DEFINE R == DOMAIN pool \ S
                 g == [u \in S |-> pool[u]]
                 h == [u \in R |-> pool[u]]
      <3>1. S # DOMAIN pool
        BY <2>3
      <3>2. mass(S) * alpha.den >= alpha.den * sum
        BY <2>1, <2>3, <3>1
      <3>3. g \in [S -> Nat] /\ h \in [R -> Nat] /\ h[t] = pool[t] /\ t \in R
        BY <2>3
      <3>4. SplitsInto(pool, DOMAIN pool, g, S, h, R)
        BY <3>3 DEF SplitsInto
      <3>5. IsFiniteSet(S) /\ IsFiniteSet(R)
        <4>1. S \in SUBSET DOMAIN pool /\ R \in SUBSET DOMAIN pool
          OBVIOUS
        <4> HIDE DEF R
        <4> QED
          BY <4>1, FS_Subset
      <3> HIDE DEF R, h, g
      <3>6. sum = SumOf(g) + SumOf(h) /\ SumOf(g) \in Nat /\ SumOf(h) \in Nat /\ h[t] <= SumOf(h)
        BY <3>3, <3>4, <3>5, SumOfParts, SumType, SumHasEach
      <3>7. mass(S) = SumOf(g)
        BY DEF g
      <3> HIDE DEF sum, mass
      <3>8. SumOf(g) * alpha.den >= alpha.den * (SumOf(g) + SumOf(h)) /\ SumOf(h) > 0
        BY <2>3, <3>2, <3>3, <3>6, <3>7
      <3> QED
        BY <3>6, <3>8
    <2> QED
      BY <2>1, <2>2, <2>3
  <1> QED
    BY <1>1, <1>2

(* A summary of documents; one nothing was left out of is no less than any  *)
(* of them in any term that weighs something.                               *)
IsSummary(s, c, part, alpha) ==
  /\ IsRow(s)
  /\ alpha.num = alpha.den =>
       \A d \in Range(part) : \A t \in DOMAIN Row(c, d) :
         Row(c, d)[t] > 0 => t \in DOMAIN s /\ Row(c, d)[t] <= s[t]

(* What a cluster is summarized as is such a summary                        *)
(* (inverted_list_clusters.cpp:60-180).                                     *)
LEMMA SummariesSummarize ==
  ASSUME NEW c, IsCorpus(c), NEW part \in Seq(0 .. Len(c) - 1),
         NEW alpha, alpha.den \in Nat \ {0}, NEW s \in Summaries(c, part, alpha)
  PROVE  IsSummary(s, c, part, alpha)
  <1> DEFINE pool == Pool(c, part)
  <1>1. /\ IsRow(pool) /\ IsFiniteSet(DOMAIN pool) /\ pool \in [DOMAIN pool -> Nat]
        /\ \A d \in Range(part) : \A t \in DOMAIN Row(c, d) :
             t \in DOMAIN pool /\ Row(c, d)[t] <= pool[t]
    BY PoolIsGreatest
  <1>2. s \in Emitted(pool, SumOf(pool), alpha)
    BY DEF Summaries
  <1>3. \A d \in Range(part) : d + 1 \in DOMAIN c
    <2>1. Range(part) \subseteq 0 .. Len(c) - 1
      BY SequenceElement DEF Range
    <2> QED
      BY <2>1 DEF IsCorpus
  <1>4. \A d \in Range(part) : \A t \in DOMAIN Row(c, d) : Row(c, d)[t] \in Nat
    BY <1>3 DEF IsCorpus, IsRow, Row
  <1> HIDE DEF pool
  <1>5. /\ IsRow(s) /\ \A t \in DOMAIN s : s[t] = pool[t]
        /\ alpha.num = alpha.den => \A t \in DOMAIN pool : pool[t] > 0 => t \in DOMAIN s
    BY <1>1, <1>2, EmittedIsKept
  <1>6. ASSUME alpha.num = alpha.den, NEW d \in Range(part), NEW t \in DOMAIN Row(c, d),
               Row(c, d)[t] > 0
        PROVE  t \in DOMAIN s /\ Row(c, d)[t] <= s[t]
    <2>1. t \in DOMAIN pool /\ Row(c, d)[t] <= pool[t] /\ pool[t] \in Nat /\ Row(c, d)[t] \in Nat
      BY <1>1, <1>4
    <2>2. pool[t] > 0
      BY <1>6, <2>1
    <2> QED
      BY <1>5, <1>6, <2>1, <2>2
  <1> QED
    BY <1>5, <1>6 DEF IsSummary

(* What build() makes of a posting list: clusters that are not empty, of    *)
(* documents that have the term -- all of them, if nothing is pruned -- with*)
(* their summaries, and no more of them than there are cluster ids.         *)
IsClustering(clusters, c, t, p) ==
  /\ Len(clusters) \in Nat /\ DOMAIN clusters = 1 .. Len(clusters)
  /\ Len(clusters) <= MaxClusters
  /\ \A i \in DOMAIN clusters :
       /\ clusters[i].docs \in Seq(Having(c, t)) /\ clusters[i].docs # <<>>
       /\ IsSummary(clusters[i].summary, c, clusters[i].docs, p.alpha)
  /\ p.lambda = 0 \/ p.lambda >= Len(c) =>
       \A d \in Having(c, t) : \E i \in DOMAIN clusters : d \in Range(clusters[i].docs)

(* Whatever centroids are drawn, build() makes such clusters of a list      *)
(* (inverted_lists.cpp, random_kmeans).                                     *)
LEMMA ClusteringsCluster ==
  ASSUME NEW c, IsCorpus(c), NEW t, NEW p, p.lambda \in Nat, p.beta \in Nat,
         p.alpha.den \in Nat \ {0}, \A n \in 1 .. Len(c) : NClusters(p.beta, n) <= MaxClusters,
         NEW clusters \in Clusterings(c, t, p)
  PROVE  IsClustering(clusters, c, t, p)
  <1> DEFINE H == Having(c, t)
  <1>1. PICK kept \in Kept(c, t, p.lambda) :
          \E parts \in Train(c, kept, p.beta) :
            clusters \in Summarized(parts, [i \in DOMAIN parts |-> Summaries(c, parts[i], p.alpha)])
    BY DEF Clusterings
  <1>2. PICK parts \in Train(c, kept, p.beta) :
          clusters \in Summarized(parts, [i \in DOMAIN parts |-> Summaries(c, parts[i], p.alpha)])
    BY <1>1
  <1>3. DOMAIN clusters = DOMAIN parts /\ \A i \in DOMAIN parts : clusters[i].docs = parts[i]
    BY <1>2 DEF Summarized
  <1>4. /\ kept \in Seq(H) /\ H \subseteq 0 .. Len(c) - 1
        /\ p.lambda = 0 \/ p.lambda >= Len(c) => Range(kept) = H
        /\ Len(kept) <= Len(c) /\ Len(c) \in Nat
    BY KeptHaveTheTerm DEF Having, IsCorpus
  <1>5. PICK n \in Nat : /\ parts \in [1 .. n -> Seq(H)] /\ n <= MaxClusters
                         /\ \A i \in 1 .. n : parts[i] # <<>>
                         /\ \A d \in Range(kept) : \E i \in 1 .. n : d \in Range(parts[i])
    <2> HIDE DEF H
    <2>1. CASE kept = <<>>
      <3>1. parts = <<>> /\ Range(kept) = {}
        BY <2>1 DEF Train, Range
      <3>2. 1 .. 0 = {}
        OBVIOUS
      <3>3. parts \in [1 .. 0 -> Seq(H)]
        BY <3>1, <3>2
      <3>4. 0 <= MaxClusters
        BY DEF MaxClusters
      <3> QED
        BY <3>1, <3>2, <3>3, <3>4
    <2>2. CASE kept # <<>>
      <3> DEFINE n == NClusters(p.beta, Len(kept))
      <3>1. Len(kept) \in Nat
        BY <1>4
      <3>2. n \in Nat \ {0}
        BY <3>1, SomeClusters
      <3>3. PICK s \in Arrangements(Range(kept), n) : parts = Assigned(c, kept, s)
        BY <2>2 DEF Train
      <3>4. s \in [1 .. n -> Range(kept)]
        BY <3>3 DEF Arrangements
      <3>5. n <= MaxClusters
        <4>1. Len(kept) # 0
          BY <1>4, <2>2
        <4>2. Len(kept) \in 1 .. Len(c)
          BY <1>4, <3>1, <4>1
        <4> QED
          BY <4>2
      <3> HIDE DEF n
      <3> QED
        BY <1>4, <3>2, <3>3, <3>4, <3>5, AllAreAssigned
    <2> QED
      BY <2>1, <2>2
  <1>6. DOMAIN clusters = 1 .. n /\ Len(clusters) = n
    <2>1. DOMAIN clusters = 1 .. n
      BY <1>3, <1>5
    <2> QED
      BY <2>1
  <1>7. ASSUME NEW i \in DOMAIN clusters
        PROVE  IsSummary(clusters[i].summary, c, clusters[i].docs, p.alpha)
    <2>1. clusters[i].docs = parts[i] /\ clusters[i].summary \in Summaries(c, parts[i], p.alpha)
      BY <1>2, <1>3 DEF Summarized
    <2>2. parts[i] \in Seq(H)
      BY <1>3, <1>5
    <2> DEFINE D == 0 .. Len(c) - 1
    <2>3. parts[i] \in Seq(D)
      <3> HIDE DEF H, D
      <3>1. H \subseteq D
        BY <1>4 DEF D
      <3> QED
        BY <2>2, <3>1
    <2> QED
      BY <2>1, <2>3, SummariesSummarize
  <1> HIDE DEF H
  <1> QED
    BY <1>3, <1>4, <1>5, <1>6, <1>7 DEF IsClustering, H

(* Summaries as they are transposed: one per cluster, no more than there    *)
(* are cluster ids.                                                         *)
AreSummaries(summaries, n) ==
  /\ n \in Nat /\ n <= MaxClusters /\ DOMAIN summaries = 1 .. n /\ Len(summaries) = n
  /\ \A i \in 1 .. n : IsRow(summaries[i])

(* The clusters that have a term, in order. *)
LEMMA ColumnHasAll ==
  ASSUME NEW summaries, NEW n, AreSummaries(summaries, n), NEW t
  PROVE  LET column == Column(summaries, t)
         IN  /\ Len(column) \in Nat /\ DOMAIN column = 1 .. Len(column)
             /\ \A j \in 1 .. Len(column) :
                  column[j] \in 1 .. n /\ t \in DOMAIN summaries[column[j]]
             /\ \A i \in 1 .. n : t \in DOMAIN summaries[i] =>
                  \E j \in 1 .. Len(column) : column[j] = i
  <1> DEFINE C == {i \in DOMAIN summaries : t \in DOMAIN summaries[i]}
             column == Column(summaries, t)
  <1>1. n \in Nat /\ DOMAIN summaries = 1 .. n /\ C \subseteq 0 .. n
    <2>1. n \in Nat /\ DOMAIN summaries = 1 .. n
      BY DEF AreSummaries
    <2> QED
      BY <2>1
  <1>2. column = Ascending(C)
    BY DEF Column
  <1>3. column \in Seq(C) /\ \A x \in C : \E i \in DOMAIN column : column[i] = x
    <2> HIDE DEF C
    <2> QED
      BY <1>1, <1>2, AscendingHasAll
  <1>4. Len(column) \in Nat /\ DOMAIN column = 1 .. Len(column) /\ \A j \in 1 .. Len(column) : column[j] \in C
    <2> HIDE DEF C, column
    <2> QED
      BY <1>3
  <1> HIDE DEF column
  <1> QED
    BY <1>1, <1>3, <1>4 DEF column

(* Each weight of each summary has an entry of its term, with its cluster;  *)
(* and there is nothing else (inverted_list_clusters.cpp:237-300).          *)
LEMMA TransposeHasEach ==
  ASSUME NEW summaries, NEW n, AreSummaries(summaries, n)
  PROVE  LET s == build_transpose(summaries)
         IN  /\ s.n_clusters = n
             /\ IsFiniteSet(DOMAIN s.csc_cluster)
             /\ \A e \in DOMAIN s.csc_cluster : s.csc_value[e] \in Nat
             /\ \A i \in 1 .. n : \A t \in DOMAIN summaries[i] :
                  \E e \in DOMAIN s.csc_cluster :
                    /\ e \in EntriesOf(s, t)
                    /\ s.csc_cluster[e] = i - 1
                    /\ s.csc_value[e] = summaries[i][t]
  <1> DEFINE s       == build_transpose(summaries)
             all     == UNION {DOMAIN summaries[i] : i \in DOMAIN summaries}
             terms   == Ascending(all)
             m       == Len(terms)
             columns == [k \in DOMAIN terms |-> Column(summaries, terms[k])]
             sizes   == [k \in DOMAIN terms |-> Len(columns[k])]
             ptr     == [k \in 1 .. m + 1 |-> SumOf([j \in 1 .. k - 1 |-> Len(columns[j])])]
             entries == 1 .. ptr[m + 1]
             col     == [e \in entries |->
                           CHOOSE k \in DOMAIN terms : ptr[k] < e /\ e <= ptr[k + 1]]
             cluster == [e \in entries |-> columns[col[e]][e - ptr[col[e]]]]
  <1>1. DOMAIN summaries = 1 .. n /\ Len(summaries) = n /\ n \in Nat
    BY DEF AreSummaries
  <1>2. all \subseteq Terms /\ Dim \in Nat /\ all \subseteq 0 .. Dim
    <2>1. \A i \in 1 .. n : DOMAIN summaries[i] \subseteq Terms
      BY DEF AreSummaries, IsRow
    <2> QED
      BY <1>1, <2>1, DimAssumption DEF Terms
  <1>3. terms \in Seq(all) /\ \A x \in all : \E k \in DOMAIN terms : terms[k] = x
    <2> HIDE DEF all
    <2> QED
      BY <1>2, AscendingHasAll
  <1>4. m \in Nat /\ DOMAIN terms = 1 .. m
    <2> HIDE DEF terms, all
    <2> QED
      BY <1>3
  <1>5. sizes \in [1 .. m -> Nat] /\ \A k \in 1 .. m : sizes[k] = Len(Column(summaries, terms[k]))
    <2>1. ASSUME NEW k \in 1 .. m
          PROVE  sizes[k] = Len(Column(summaries, terms[k])) /\ sizes[k] \in Nat
      <3>1. sizes[k] = Len(Column(summaries, terms[k]))
        BY <1>4
      <3> HIDE DEF sizes, terms, m
      <3> QED
        BY <3>1, ColumnHasAll
    <2>2. DOMAIN sizes = 1 .. m /\ sizes = [k \in 1 .. m |-> sizes[k]]
      BY <1>4
    <2> HIDE DEF sizes, m, terms
    <2> QED
      BY <2>1, <2>2
  <1>6. ptr = Begins(sizes, m)
    <2>1. ASSUME NEW k \in 1 .. m + 1
          PROVE  [j \in 1 .. k - 1 |-> Len(columns[j])] = [j \in 1 .. k - 1 |-> sizes[j]]
      <3>1. \A j \in 1 .. k - 1 : j \in DOMAIN terms
        BY <1>4
      <3> QED
        BY <3>1
    <2> HIDE DEF sizes, columns
    <2> QED
      BY <2>1 DEF Begins
  <1>7. s = [n_clusters  |-> Len(summaries),
             term_ids    |-> terms,
             term_ptr    |-> ptr,
             csc_cluster |-> [e \in entries |-> cluster_id(cluster[e])],
             csc_value   |-> [e \in entries |-> summaries[cluster[e]][terms[col[e]]]]]
    BY DEF build_transpose
  <1>8. \A k \in 1 .. m : columns[k] = Column(summaries, terms[k])
    BY <1>4
  <1>9. \A e \in entries : /\ col[e] = CHOOSE k \in DOMAIN terms : ptr[k] < e /\ e <= ptr[k + 1]
                           /\ cluster[e] = columns[col[e]][e - ptr[col[e]]]
    OBVIOUS
  <1> HIDE DEF s, all, terms, m, columns, sizes, ptr, cluster, col
  <1>10. /\ ptr \in [1 .. m + 1 -> Nat]
         /\ \A k \in 1 .. m : ptr[k + 1] = ptr[k] + sizes[k]
         /\ \A e \in entries : \E k \in 1 .. m : ptr[k] < e /\ e <= ptr[k + 1]
         /\ \A k \in 1 .. m : \A j \in 1 .. sizes[k] :
              /\ ptr[k] + j \in entries
              /\ \A l \in 1 .. m : ptr[l] < ptr[k] + j /\ ptr[k] + j <= ptr[l + 1] => l = k
    <2>1. LET p == Begins(sizes, m)
          IN  /\ p \in [1 .. m + 1 -> Nat]
              /\ \A k \in 1 .. m : p[k + 1] = p[k] + sizes[k]
              /\ \A e \in 1 .. p[m + 1] : \E k \in 1 .. m : p[k] < e /\ e <= p[k + 1]
              /\ \A k \in 1 .. m : \A j \in 1 .. sizes[k] :
                   /\ p[k] + j \in 1 .. p[m + 1]
                   /\ \A l \in 1 .. m : p[l] < p[k] + j /\ p[k] + j <= p[l + 1] => l = k
      BY <1>4, <1>5, RunsAreLaid
    <2> QED
      BY <1>6, <2>1
  <1>11. ASSUME NEW e \in entries
         PROVE  s.csc_value[e] \in Nat
    <2>1. col[e] \in 1 .. m /\ ptr[col[e]] < e /\ e <= ptr[col[e] + 1]
      BY <1>4, <1>9, <1>10
    <2> DEFINE k == col[e]
               j == e - ptr[k]
    <2>2. k \in 1 .. m + 1 /\ k + 1 \in 1 .. m + 1 /\ m + 1 \in 1 .. m + 1
      BY <1>4, <2>1
    <2>3. ptr[k] \in Nat /\ ptr[m + 1] \in Nat /\ ptr[k + 1] = ptr[k] + sizes[k] /\ sizes[k] \in Nat
      BY <1>5, <1>10, <2>1, <2>2
    <2>4. j \in 1 .. sizes[k]
      BY <2>1, <2>3
    <2>5. cluster[e] = Column(summaries, terms[k])[j] /\ sizes[k] = Len(Column(summaries, terms[k]))
      BY <1>5, <1>8, <1>9, <2>1
    <2> HIDE DEF k, j
    <2>6. cluster[e] \in 1 .. n /\ terms[k] \in DOMAIN summaries[cluster[e]]
      BY <2>4, <2>5, ColumnHasAll
    <2>7. summaries[cluster[e]][terms[k]] \in Nat
      BY <2>6 DEF AreSummaries, IsRow
    <2> QED
      BY <1>7, <2>7 DEF k
  <1>12. ASSUME NEW i \in 1 .. n, NEW t \in DOMAIN summaries[i]
         PROVE  \E e \in entries : /\ e \in EntriesOf(s, t)
                                   /\ s.csc_cluster[e] = i - 1
                                   /\ s.csc_value[e] = summaries[i][t]
    <2>1. t \in all
      BY <1>1 DEF all
    <2>2. PICK k \in 1 .. m : terms[k] = t
      BY <1>3, <1>4, <2>1
    <2>3. PICK j \in 1 .. sizes[k] : Column(summaries, t)[j] = i
      BY <1>5, <2>2, ColumnHasAll
    <2> DEFINE e == ptr[k] + j
    <2>4. e \in entries /\ \A l \in 1 .. m : ptr[l] < e /\ e <= ptr[l + 1] => l = k
      BY <1>10
    <2>5. k \in 1 .. m + 1
      BY <1>4
    <2>6. ptr[k] \in Nat /\ ptr[k + 1] = ptr[k] + sizes[k] /\ sizes[k] \in Nat
      BY <1>5, <1>10, <2>5
    <2>7. ptr[k] < e /\ e <= ptr[k + 1] /\ e - ptr[k] = j /\ e \in ptr[k] + 1 .. ptr[k + 1]
      BY <2>6
    <2> HIDE DEF e
    <2>8. col[e] = k
      BY <1>4, <1>9, <1>10, <2>4, <2>7
    <2>9. cluster[e] = i
      BY <1>8, <1>9, <2>2, <2>3, <2>4, <2>7, <2>8
    <2>10. cluster_id(i) = i - 1
      <3>1. i \in Nat /\ 1 <= i /\ i <= 65536
        BY <1>1 DEF AreSummaries, MaxClusters
      <3> QED
        BY <3>1 DEF cluster_id, MaxClusters
    <2>11. e \in EntriesOf(s, t)
      <3>1. k \in {l \in DOMAIN s.term_ids : s.term_ids[l] = t} /\ e \in s.term_ptr[k] + 1 .. s.term_ptr[k + 1]
        BY <1>4, <1>7, <2>2, <2>7
      <3> QED
        BY <3>1 DEF EntriesOf
    <2>12. s.csc_cluster[e] = cluster_id(cluster[e]) /\ s.csc_value[e] = summaries[cluster[e]][terms[col[e]]]
      BY <1>7, <2>4
    <2> QED
      BY <2>2, <2>4, <2>8, <2>9, <2>10, <2>11, <2>12
  <1>13. IsFiniteSet(entries)
    <2>1. ptr[m + 1] \in Nat
      BY <1>4, <1>10
    <2> QED
      BY <2>1, FS_Interval
  <1>14. DOMAIN s.csc_cluster = entries /\ s.n_clusters = n
    BY <1>1, <1>7
  <1> HIDE DEF entries
  <1> QED
    BY <1>11, <1>12, <1>13, <1>14 DEF s

-----------------------------------------------------------------------------
(* The invariant.                                                           *)

(* The score of each document of the index under the call.                  *)
ScoreOf == [d \in Docs |-> Score(d)]

(* What the lists of an index may be.                                       *)
PostedLists(c, p) == UNION {Clusterings(c, t, p) : t \in Terms}

(* The index: what was given, as codes, and as many lists as were built.    *)
IndexInv ==
  /\ rows \in Corpora /\ param \in Params /\ sq \in Quantizers /\ weights \in Given
  /\ param.type = sq.type /\ rows = EncodedCorpus(sq, weights)
  /\ lists \in Seq(PostedLists(rows, param)) /\ Len(lists) \in 0 .. Dim
  /\ \A t \in DOMAIN lists : IsClustering(lists[t], rows, t - 1, param)
  /\ IF pc = "build" THEN Len(lists) < Dim ELSE lists = <<>> \/ Len(lists) = Dim

(* The search c is the question q over the codes of the index.              *)
Asked(c, q) == q \in Questions /\ IsQuantizer(QueryQuantizer(sq, q)) /\ c = CallOf(sq, q)

(* The search that runs is the one that was asked; the dense vector has its *)
(* query while it does.                                                     *)
CallInv ==
  /\ call = NoCall \/ Asked(call, asked)
  /\ pc \in {"idle", "build", "list", "cluster", "docs", "collect", "score"}
  /\ pc = "build" => call = NoCall
  /\ pc \notin {"idle", "build"} => ~RunsExact(call)
  /\ dense = IF pc \in {"idle", "build"} THEN [t \in Terms |-> 0] ELSE Scattered(call)

(* The terms still to visit are the last of those the cut kept.             *)
CutsInv ==
  /\ chosen \in Seq(Terms) /\ Range(chosen) \subseteq QueryTerms(call)
  /\ cuts \in Seq(Terms) /\ Len(cuts) <= Len(chosen)
  /\ \A i \in 1 .. Len(cuts) : cuts[i] = chosen[Len(chosen) - Len(cuts) + i]
  /\ pc \in {"idle", "build", "score"} => cuts = <<>>
  /\ ~RunsExact(call) /\ call.cut >= Len(call.query) => QueryTerms(call) \subseteq Range(chosen)

(* The term whose list is being visited.                                    *)
Visiting == chosen[Len(chosen) - Len(cuts)]

(* The clusters to visit are of the list of the term before those, and the  *)
(* documents to score are the index's.                                      *)
ListInv ==
  /\ first \in BOOLEAN
  /\ pc \in {"list", "cluster", "docs"} => ~param.disk
  /\ IF pc \in {"cluster", "docs"}
       THEN /\ Len(cuts) < Len(chosen) /\ Visiting < Len(lists)
            /\ DOMAIN sums = DOMAIN lists[Visiting + 1]
       ELSE sums = <<>> /\ order = <<>>
  /\ order \in Seq(DOMAIN sums)
  /\ docs \in Seq(Docs)
  /\ pc = "docs" => docs # <<>>
  /\ pc \notin {"docs", "score"} => docs = <<>>

(* The heap is a top k of the selected documents that were visited, and so  *)
(* is what is returned; an exact match returns all there are.               *)
HeapInv ==
  /\ visited \subseteq Docs
  /\ IF pc \in {"idle", "build"}
       THEN heap = EmptyBag
       ELSE IsTop(heap, ScoreOf, call.k, visited \intersect call.ids)
  /\ pc # "idle" => result = EmptyBag
  /\ pc = "idle" => IF RunsExact(call)
                      THEN Holds(result, ScoreOf, call.ids \intersect Docs)
                      ELSE IsTop(result, ScoreOf, call.k, visited \intersect call.ids)

(* The corpora considered can be indexed.                                   *)
LEMMA CorporaAreCorpora ==
  ASSUME NEW c \in Corpora
  PROVE  IsCorpus(c)
  <1>1. c \in Seq({c[i] : i \in DOMAIN c})
    BY RowsAssumption
  <1>2. Len(c) \in Nat /\ DOMAIN c = 1 .. Len(c)
    <2> DEFINE S == {c[i] : i \in DOMAIN c}
    <2>1. c \in Seq(S)
      BY <1>1
    <2> HIDE DEF S
    <2> QED
      BY <2>1
  <1>3. \A i \in DOMAIN c : IsRow(c[i])
    BY RowsAssumption DEF IsRow, Terms
  <1> QED
    BY <1>2, <1>3 DEF IsCorpus

(* Before any search there is one that asks nothing.                        *)
LEMMA NothingIsACall == IsCall(NoCall) /\ QueryTerms(NoCall) = {} /\ ~RunsExact(NoCall)
  <1>1. <<>> \in Seq([term : Terms, weight : Nat]) /\ DOMAIN <<>> = {}
    OBVIOUS
  <1>2. IsFiniteSet({})
    BY FS_EmptySet
  <1> QED
    BY <1>1, <1>2 DEF IsCall, NoCall, QueryTerms, RunsExact

(* The quantizers of an index, and of a query that brings a range, have     *)
(* ranges to encode over.                                                   *)
LEMMA QuantizersAreRanges ==
  ASSUME NEW s \in Quantizers, NEW q \in Questions, IsQuantizer(QueryQuantizer(s, q))
  PROVE  /\ IsRange(s) /\ IsRange(QueryQuantizer(s, q))
         /\ QueryQuantizer(s, q).type = s.type
  <1>1. IsRange(s)
    BY QuantizersAssumption DEF IsRange
  <1>2. q.vmin \in Nat /\ q.vmax \in Nat
    BY QuestionsAssumption
  <1> QED
    BY <1>1, <1>2 DEF IsRange, QueryQuantizer

(* A question's call has its terms, and its weights as codes.               *)
LEMMA AskedIsACall ==
  ASSUME sq \in Quantizers, NEW q, NEW c, Asked(c, q)
  PROVE  /\ IsCall(c) /\ c \in Calls
         /\ DOMAIN c.query = DOMAIN q.query
         /\ \A i \in DOMAIN c.query :
              /\ c.query[i].term = q.query[i].term
              /\ q.query[i].weight \in Nat
              /\ c.query[i].weight = Encode(QueryQuantizer(sq, q), q.query[i].weight)
  <1>1. c = CallOf(sq, q) /\ c \in Calls
    BY QuestionsAssumption DEF Asked
  <1>2. IsCall(c)
    BY <1>1, CallsAssumption DEF IsCall, Terms
  <1>3. \A i \in DOMAIN q.query : q.query[i].weight \in Nat
    BY QuestionsAssumption DEF Asked
  <1> QED
    BY <1>1, <1>2, <1>3 DEF CallOf

(* The scattered query is a dense vector of the element type the index      *)
(* stores.                                                                  *)
LEMMA CallVector ==
  ASSUME sq \in Quantizers, NEW q, NEW c, c = NoCall \/ Asked(c, q)
  PROVE  IsCall(c) /\ IsVector(Scattered(c), sq.type)
  <1>1. sq.type \in Types
    BY QuantizersAssumption
  <1>2. CASE c = NoCall
    <2>1. Scattered(c) = [t \in Terms |-> 0]
      BY <1>2, NothingIsACall DEF Scattered
    <2>2. sq.type # "float" => MaxCode[sq.type] \in Nat
      BY <1>1, CodesAssumption DEF Types
    <2> QED
      BY <1>1, <1>2, <2>1, <2>2, NothingIsACall DEF IsVector
  <1>3. CASE Asked(c, q)
    <2>1. IsCall(c)
      BY <1>3, AskedIsACall
    <2>2. Scattered(c) \in [Terms -> Nat]
      BY <2>1, WeightsOfCall DEF Scattered
    <2>3. ASSUME sq.type # "float", NEW t \in Terms
          PROVE  Scattered(c)[t] \in 0 .. MaxCode[sq.type]
      <3>1. CASE t \in QueryTerms(c)
        <4>1. PICK i \in DOMAIN c.query : c.query[i].term = t
          BY <3>1 DEF QueryTerms
        <4>2. Weight(c, t) = c.query[i].weight
          BY <2>1, <4>1, WeightsOfCall
        <4>3. /\ IsRange(QueryQuantizer(sq, q)) /\ QueryQuantizer(sq, q).type = sq.type
          BY <1>3, QuantizersAreRanges DEF Asked
        <4>4. /\ q.query[i].weight \in Nat
              /\ c.query[i].weight = Encode(QueryQuantizer(sq, q), q.query[i].weight)
          BY <1>3, <4>1, AskedIsACall
        <4>5. Weight(c, t) \in 0 .. MaxCode[sq.type]
          BY <2>3, <4>2, <4>3, <4>4, EncodesToCodes
        <4> QED
          BY <3>1, <4>5 DEF Scattered
      <3>2. CASE t \notin QueryTerms(c)
        <4>1. Scattered(c)[t] = 0 /\ MaxCode[sq.type] \in Nat
          BY <1>1, <2>3, <3>2, CodesAssumption DEF Scattered, Types
        <4> QED
          BY <4>1
      <3> QED
        BY <3>1, <3>2
    <2> QED
      BY <1>1, <2>1, <2>2, <2>3 DEF IsVector
  <1> QED
    BY <1>2, <1>3

(* Whatever instructions it is compiled for, and whatever it stores, what   *)
(* the index computes for a document is its score.                          *)
LEMMA KernelScores ==
  ASSUME IndexInv, NEW q, NEW c, c = NoCall \/ Asked(c, q), NEW d \in Docs
  PROVE  /\ dot_product_dense(param.isa, param.type, Row(rows, d), Scattered(c))
              = Inner(Row(rows, d), QueryRow(c))
         /\ Inner(Row(rows, d), QueryRow(c)) \in Nat
  <1>1. IsCall(c) /\ IsVector(Scattered(c), param.type)
    BY CallVector DEF IndexInv
  <1>2. IsRow(Row(rows, d))
    <2>1. IsCorpus(rows)
      BY CorporaAreCorpora DEF IndexInv
    <2>2. d + 1 \in DOMAIN rows
      BY <2>1 DEF IsCorpus, Docs
    <2> QED
      BY <2>1, <2>2 DEF IsCorpus, Row
  <1>3. dot_product_dense(param.isa, param.type, Row(rows, d), Scattered(c))
          = SumOf(Products(Row(rows, d), Scattered(c)))
    BY <1>1, <1>2, KernelsAgree
  <1> QED
    BY <1>1, <1>2, <1>3, ScatteredScores

(* Every document has a score under the search that runs.                   *)
LEMMA ScoresAreNatural ==
  ASSUME IndexInv, CallInv
  PROVE  ScoreOf \in [Docs -> Nat] /\ IsCall(call)
  <1>1. IsCall(call)
    BY CallVector DEF IndexInv, CallInv
  <1>2. \A d \in Docs : Score(d) \in Nat
    BY KernelScores DEF CallInv, Score
  <1> QED
    BY <1>1, <1>2 DEF ScoreOf

-----------------------------------------------------------------------------
(* Every step keeps it.                                                     *)

(* The steps, one by one. *)
Putting == asked' = NoQuestion /\ UNCHANGED <<weights, sq, blockVars>>

(* A step of a search in memory leaves the caller's and the budget's state  *)
(* alone.                                                                   *)
Searching == UNCHANGED <<callerVars, blockVars>>

(* A search begins with a question that is asked.                           *)
Question(q) == Asked(CallOf(sq, q), q) /\ asked' = q /\ UNCHANGED <<weights, sq>>

ExactStep(q)  == Question(q) /\ ExactMatch(CallOf(sq, q)) /\ UNCHANGED blockVars
StartStep(q)  == Question(q) /\ StartQuery(CallOf(sq, q)) /\ UNCHANGED blockVars

(* The three ways one begins: exact match, in memory, by budget.            *)
BudgetStep(q) == Question(q) /\ AskBudget(q)

(* Every step is one of these.                                              *)
LEMMA Steps ==
  ASSUME DiskNext
  PROVE  \/ (Build \/ BuildList) /\ Putting
         \/ \E q \in Questions : ExactStep(q) \/ StartStep(q) \/ BudgetStep(q)
         \/ (OpenList \/ NextCluster \/ ScanDoc \/ ListDone \/ Finish) /\ Searching
         \/ CollectList \/ SelectBlocks \/ NextBlock \/ ScoreDoc \/ FinishBudget
  <1>1. CASE BuildOverCodes /\ UNCHANGED blockVars
    BY <1>1 DEF BuildOverCodes, Putting
  <1>2. ASSUME NEW q \in Questions, Ask(q), UNCHANGED blockVars
        PROVE  ExactStep(q) \/ StartStep(q)
    <2>1. ExactMatch(CallOf(sq, q)) \/ StartQuery(CallOf(sq, q))
      BY <1>2 DEF Ask
    <2>2. Question(q)
      BY <1>2 DEF Ask, Question, Asked
    <2> QED
      BY <1>2, <2>1, <2>2 DEF ExactStep, StartStep
  <1>3. CASE (QueryList \/ SingleQuery) /\ UNCHANGED blockVars
    BY <1>3 DEF QueryList, SingleQuery, Searching
  <1>4. ASSUME NEW q \in Questions, AskBudget(q)
        PROVE  BudgetStep(q)
    BY <1>4 DEF AskBudget, BudgetStep, Question, Asked
  <1> QED
    BY <1>1, <1>2, <1>3, <1>4 DEF DiskNext, InMemory, QuantizedNext

(* But for the building of its lists, no step changes an index.             *)
LEMMA OnlyBuildingBuilds ==
  ASSUME DiskNext
  PROVE  /\ UNCHANGED <<rows, param, weights, sq>>
         /\ \/ (Build \/ BuildList) /\ Putting
            \/ UNCHANGED lists /\ pc # "build" /\ pc' # "build"
  <1>1. CASE (Build \/ BuildList) /\ Putting
    BY <1>1 DEF Build, BuildList, Putting, indexVars
  <1>2. ASSUME NEW q \in Questions, ExactStep(q) \/ StartStep(q) \/ BudgetStep(q)
        PROVE  UNCHANGED <<rows, param, weights, sq, lists>> /\ pc # "build" /\ pc' # "build"
    BY <1>2 DEF ExactStep, StartStep, BudgetStep, Question, ExactMatch, StartQuery, AskBudget,
                indexVars
  <1>3. CASE (OpenList \/ NextCluster \/ ScanDoc \/ ListDone \/ Finish) /\ Searching
    BY <1>3 DEF OpenList, NextCluster, ScanDoc, ListDone, Finish, Searching, callerVars, indexVars
  <1>4. CASE CollectList \/ SelectBlocks \/ NextBlock \/ ScoreDoc \/ FinishBudget
    BY <1>4 DEF CollectList, SelectBlocks, NextBlock, ScoreDoc, FinishBudget, callerVars, indexVars
  <1> QED
    BY <1>1, <1>2, <1>3, <1>4, Steps

(* Building adds one clustered list after another, and nothing else changes *)
(* the index.                                                               *)
LEMMA StepsKeepIndex == ASSUME IndexInv, DiskNext PROVE IndexInv'
  <1>1. UNCHANGED <<rows, param, weights, sq>>
    BY OnlyBuildingBuilds
  <1>2. CASE Build /\ Putting
    <2>1. UNCHANGED lists /\ lists = <<>> /\ Len(lists) = 0
      BY <1>2 DEF Build, indexVars
    <2>2. pc' = IF Dim = 0 THEN "idle" ELSE "build"
      BY <1>2 DEF Build
    <2>3. IF pc' = "build" THEN Len(lists') < Dim ELSE lists' = <<>> \/ Len(lists') = Dim
      BY <2>1, <2>2, DimAssumption
    <2> QED
      BY <1>1, <2>1, <2>3 DEF IndexInv
  <1>3. CASE BuildList
    <2> DEFINE n == Len(lists)
    <2>1. n \in 0 .. Dim /\ n < Dim /\ Dim \in Nat
      BY <1>3, DimAssumption DEF BuildList, IndexInv
    <2>2. PICK l \in Clusterings(rows, n, param) : lists' = Append(lists, l)
      BY <1>3 DEF BuildList
    <2>3. IsClustering(l, rows, n, param)
      <3>1. /\ IsCorpus(rows) /\ param.lambda \in Nat /\ param.beta \in Nat
            /\ param.alpha.den \in Nat \ {0}
            /\ \A m \in 1 .. Len(rows) : NClusters(param.beta, m) <= MaxClusters
        BY CorporaAreCorpora, ParamsAssumption, ClustersAssumption DEF IndexInv
      <3> QED
        BY <2>2, <3>1, ClusteringsCluster
    <2>4. l \in PostedLists(rows, param)
      BY <2>1, <2>2 DEF PostedLists, Terms
    <2> DEFINE S == PostedLists(rows, param)
    <2>5. lists \in Seq(S)
      BY DEF IndexInv
    <2> HIDE DEF S
    <2>6. /\ lists' \in Seq(S) /\ Len(lists') = n + 1
          /\ DOMAIN lists' = 1 .. n + 1 /\ lists'[n + 1] = l
          /\ \A t \in 1 .. n : lists'[t] = lists[t]
          /\ DOMAIN lists = 1 .. n
      BY <2>2, <2>4, <2>5 DEF S
    <2>7. ASSUME NEW t \in DOMAIN lists'
          PROVE  IsClustering(lists'[t], rows, t - 1, param)
      <3>1. CASE t = n + 1
        <4>1. t - 1 = n
          BY <2>1, <3>1
        <4> QED
          BY <2>3, <2>6, <3>1, <4>1
      <3>2. CASE t \in 1 .. n
        BY <2>6, <3>2 DEF IndexInv
      <3> QED
        BY <2>1, <2>6, <3>1, <3>2
    <2>8. pc' = IF Len(lists') = Dim THEN "idle" ELSE "build"
      BY <1>3 DEF BuildList
    <2>9. /\ Len(lists') \in 0 .. Dim
          /\ IF pc' = "build" THEN Len(lists') < Dim ELSE lists' = <<>> \/ Len(lists') = Dim
      BY <2>1, <2>6, <2>8
    <2> QED
      BY <1>1, <2>6, <2>7, <2>9 DEF IndexInv, S
  <1>4. CASE UNCHANGED lists /\ pc # "build" /\ pc' # "build"
    BY <1>1, <1>4 DEF IndexInv
  <1> QED
    BY <1>2, <1>3, <1>4, OnlyBuildingBuilds

(* The scatter over a clean vector is the query.                            *)
LEMMA ScatteredOverNothing ==
  ASSUME NEW c, dense = [t \in Terms |-> 0],
         dense' = [t \in Terms |-> IF t \in QueryTerms(c) THEN Weight(c, t) ELSE dense[t]]
  PROVE  dense' = Scattered(c)
  BY DEF Scattered

(* The sparse clear of a vector that has only the query's terms leaves a    *)
(* clean one.                                                               *)
LEMMA ClearedAgain ==
  ASSUME dense = Scattered(call),
         dense' = [t \in Terms |-> IF t \in QueryTerms(call) THEN 0 ELSE dense[t]]
  PROVE  dense' = [t \in Terms |-> 0]
  BY DEF Scattered

(* Every step keeps the search and its dense vector together.               *)
LEMMA StepsKeepCall == ASSUME CallInv, DiskNext PROVE CallInv'
  <1>1. CASE (Build \/ BuildList) /\ Putting
    BY <1>1, NothingIsACall DEF CallInv, Build, BuildList, Putting, Asked
  <1>2. ASSUME NEW q \in Questions, ExactStep(q)
        PROVE  CallInv'
    <2>1. /\ pc = "idle" /\ UNCHANGED <<pc, dense, sq>> /\ call' = CallOf(sq, q) /\ asked' = q
          /\ Asked(CallOf(sq, q), q)
      BY <1>2 DEF ExactStep, ExactMatch, Question
    <2> QED
      BY <2>1 DEF CallInv, Asked
  <1>3. ASSUME NEW q \in Questions, StartStep(q) \/ BudgetStep(q)
        PROVE  CallInv'
    <2> DEFINE c == CallOf(sq, q)
    <2>1. /\ pc = "idle" /\ pc' \in {"list", "collect"} /\ UNCHANGED sq /\ call' = c /\ asked' = q
          /\ Asked(c, q) /\ ~RunsExact(c)
          /\ dense' = [t \in Terms |-> IF t \in QueryTerms(c) THEN Weight(c, t) ELSE dense[t]]
      BY <1>3 DEF StartStep, BudgetStep, StartQuery, AskBudget, Question
    <2>2. dense = [t \in Terms |-> 0]
      BY <2>1 DEF CallInv
    <2> HIDE DEF c
    <2>3. dense' = Scattered(c)
      BY <2>1, <2>2, ScatteredOverNothing
    <2>4. Asked(c, q)'
      BY <2>1 DEF Asked, c
    <2>5. Asked(call, asked)'
      BY <2>1 DEF Asked, c
    <2> QED
      BY <2>1, <2>3, <2>5 DEF CallInv
  <1>4. CASE \/ (OpenList \/ NextCluster \/ ScanDoc \/ ListDone) /\ Searching
             \/ CollectList \/ SelectBlocks \/ NextBlock \/ ScoreDoc
    <2>1. /\ UNCHANGED <<call, dense, asked, sq>>
          /\ pc \in {"list", "cluster", "docs", "collect", "score"}
          /\ pc' \in {"list", "cluster", "docs", "collect", "score"}
      BY <1>4 DEF OpenList, NextCluster, ScanDoc, ListDone, CollectList, SelectBlocks, NextBlock,
                  ScoreDoc, Searching, callerVars
    <2> QED
      BY <2>1 DEF CallInv, Asked
  <1>5. CASE (Finish /\ Searching) \/ FinishBudget
    <2>1. /\ UNCHANGED <<call, asked, sq>> /\ pc \in {"list", "score"} /\ pc' = "idle"
          /\ dense' = [t \in Terms |-> IF t \in QueryTerms(call) THEN 0 ELSE dense[t]]
      BY <1>5 DEF Finish, FinishBudget, Searching, callerVars
    <2>2. dense' = [t \in Terms |-> 0]
      BY <2>1, ClearedAgain DEF CallInv
    <2> QED
      BY <2>1, <2>2 DEF CallInv, Asked
  <1> QED
    BY <1>1, <1>2, <1>3, <1>4, <1>5, Steps

(* What the cut may keep of a query: all of it, if it is long enough.       *)
LEMMA CutsAreTerms ==
  ASSUME NEW c, IsCall(c), NEW s \in CutsOf(c)
  PROVE  /\ s \in Seq(Terms) /\ Range(s) \subseteq QueryTerms(c)
         /\ c.cut >= Len(c.query) => Range(s) = QueryTerms(c)
  <1> DEFINE n == Len(c.query)
  <1>1. n \in Nat /\ DOMAIN c.query = 1 .. n /\ QueryTerms(c) \subseteq Terms
    <2> DEFINE S == [term : Terms, weight : Nat]
    <2>1. c.query \in Seq(S)
      BY DEF IsCall
    <2> HIDE DEF S
    <2>2. n \in Nat /\ DOMAIN c.query = 1 .. n
      BY <2>1
    <2> QED
      BY <2>2, WeightsOfCall
  <1>2. CASE c.cut >= n
    <2>1. s = [i \in 1 .. n |-> c.query[i].term]
      BY <1>1, <1>2 DEF CutsOf
    <2>2. s \in [1 .. n -> QueryTerms(c)] /\ Range(s) = QueryTerms(c)
      BY <1>1, <2>1 DEF QueryTerms, Range
    <2>3. s \in [1 .. n -> Terms]
      BY <1>1, <2>2
    <2> QED
      BY <1>1, <2>2, <2>3, FunctionIsSequence
  <1>3. CASE ~(c.cut >= n)
    <2>1. s \in [1 .. c.cut -> QueryTerms(c)] /\ c.cut \in Nat
      BY <1>3 DEF CutsOf, Arrangements, IsCall
    <2>2. s \in [1 .. c.cut -> Terms] /\ Range(s) \subseteq QueryTerms(c)
      BY <1>1, <2>1 DEF Range
    <2> QED
      BY <1>3, <2>1, <2>2, FunctionIsSequence
  <1> QED
    BY <1>2, <1>3

(* The next term done: those left are still the last.                       *)
LEMMA TailOfSuffix ==
  ASSUME NEW S, NEW s \in Seq(S), NEW u \in Seq(S), Len(u) <= Len(s), u # <<>>,
         \A i \in 1 .. Len(u) : u[i] = s[Len(s) - Len(u) + i],
         NEW v, v = Tail(u)
  PROVE  /\ v \in Seq(S) /\ Len(v) = Len(u) - 1 /\ Len(v) < Len(s) /\ Len(v) \in Nat
         /\ \A i \in 1 .. Len(v) : v[i] = s[Len(s) - Len(v) + i]
         /\ Head(u) = s[Len(s) - Len(v)] /\ Head(u) \in S
  <1>1. /\ Len(u) \in Nat \ {0} /\ Len(s) \in Nat
        /\ v \in Seq(S) /\ Len(v) = Len(u) - 1 /\ \A i \in 1 .. Len(v) : v[i] = u[i + 1]
        /\ Head(u) = u[1] /\ u[1] \in S
    OBVIOUS
  <1>2. ASSUME NEW i \in 1 .. Len(v)
        PROVE  v[i] = s[Len(s) - Len(v) + i]
    <2>1. i + 1 \in 1 .. Len(u) /\ v[i] = u[i + 1]
      BY <1>1
    <2>2. u[i + 1] = s[Len(s) - Len(u) + (i + 1)]
      BY <2>1
    <2>3. Len(s) - Len(u) + (i + 1) = Len(s) - Len(v) + i
      BY <1>1
    <2> QED
      BY <2>1, <2>2, <2>3
  <1>3. Head(u) = s[Len(s) - Len(v)]
    <2>1. 1 \in 1 .. Len(u) /\ Len(s) - Len(u) + 1 = Len(s) - Len(v)
      BY <1>1
    <2> QED
      BY <1>1, <2>1
  <1> QED
    BY <1>1, <1>2, <1>3

(* The next term of those the cut kept.                                     *)
LEMMA NextTerm ==
  ASSUME CutsInv, cuts # <<>>
  PROVE  /\ Tail(cuts) \in Seq(Terms) /\ Len(Tail(cuts)) < Len(chosen) /\ Len(Tail(cuts)) \in Nat
         /\ \A i \in 1 .. Len(Tail(cuts)) : Tail(cuts)[i] = chosen[Len(chosen) - Len(Tail(cuts)) + i]
         /\ Head(cuts) = chosen[Len(chosen) - Len(Tail(cuts))] /\ Head(cuts) \in Terms
  <1>1. /\ chosen \in Seq(Terms) /\ cuts \in Seq(Terms) /\ Len(cuts) <= Len(chosen)
        /\ \A i \in 1 .. Len(cuts) : cuts[i] = chosen[Len(chosen) - Len(cuts) + i]
    BY DEF CutsInv
  <1>2. PICK v : v = Tail(cuts)
    OBVIOUS
  <1>3. /\ v \in Seq(Terms) /\ Len(v) < Len(chosen) /\ Len(v) \in Nat
        /\ \A i \in 1 .. Len(v) : v[i] = chosen[Len(chosen) - Len(v) + i]
    BY <1>1, <1>2, TailOfSuffix
  <1>4. Head(cuts) = chosen[Len(chosen) - Len(v)]
    BY <1>1, <1>2, TailOfSuffix
  <1>5. Head(cuts) \in Terms
    BY <1>1, <1>2, TailOfSuffix
  <1> QED
    BY <1>2, <1>3, <1>4, <1>5

(* Every step keeps the terms still to visit the last of those the cut      *)
(* kept.                                                                    *)
LEMMA StepsKeepCuts == ASSUME IndexInv, CallInv, CutsInv, DiskNext PROVE CutsInv'
  <1>1. CASE Build /\ Putting
    <2>1. /\ chosen' = <<>> /\ UNCHANGED cuts /\ cuts = <<>> /\ call' = NoCall
      BY <1>1 DEF Build, CutsInv
    <2>2. Range(<<>>) = {} /\ <<>> \in Seq(Terms) /\ Len(<<>>) = 0
      BY DEF Range
    <2>3. QueryTerms(NoCall) = {}
      BY NothingIsACall
    <2> QED
      BY <2>1, <2>2, <2>3 DEF CutsInv
  <1>2. CASE BuildList /\ Putting
    BY <1>2 DEF BuildList, CutsInv
  <1>3. ASSUME NEW q \in Questions, ExactStep(q)
        PROVE  CutsInv'
    <2>1. /\ chosen' = <<>> /\ UNCHANGED cuts /\ cuts = <<>> /\ RunsExact(call')
      BY <1>3 DEF ExactStep, ExactMatch, CutsInv
    <2>2. Range(<<>>) = {} /\ <<>> \in Seq(Terms) /\ Len(<<>>) = 0
      BY DEF Range
    <2> QED
      BY <2>1, <2>2 DEF CutsInv
  <1>4. ASSUME NEW q \in Questions, StartStep(q) \/ BudgetStep(q)
        PROVE  CutsInv'
    <2> DEFINE c == CallOf(sq, q)
    <2>1. /\ chosen' \in CutsOf(c) /\ cuts' = chosen' /\ call' = c /\ Asked(c, q)
          /\ pc' \in {"list", "collect"}
      BY <1>4 DEF StartStep, BudgetStep, StartQuery, AskBudget, Question
    <2>2. IsCall(c)
      BY <2>1, AskedIsACall DEF IndexInv
    <2> HIDE DEF c
    <2>3. /\ chosen' \in Seq(Terms) /\ Range(chosen') \subseteq QueryTerms(c)
          /\ c.cut >= Len(c.query) => Range(chosen') = QueryTerms(c)
      BY <2>1, <2>2, CutsAreTerms
    <2>4. /\ Len(cuts') <= Len(chosen')
          /\ \A i \in 1 .. Len(cuts') : cuts'[i] = chosen'[Len(chosen') - Len(cuts') + i]
      BY <2>1, <2>3
    <2> QED
      BY <2>1, <2>3, <2>4 DEF CutsInv
  <1>5. CASE (OpenList /\ Searching) \/ CollectList
    <2>1. /\ UNCHANGED <<chosen, call>> /\ cuts # <<>> /\ cuts' = Tail(cuts)
          /\ pc' \in {"list", "cluster", "collect"}
      BY <1>5 DEF OpenList, CollectList, Searching
    <2>2. /\ cuts' \in Seq(Terms) /\ Len(cuts') <= Len(chosen)
          /\ \A i \in 1 .. Len(cuts') : cuts'[i] = chosen[Len(chosen) - Len(cuts') + i]
      <3>1. /\ Tail(cuts) \in Seq(Terms) /\ Len(Tail(cuts)) < Len(chosen)
            /\ \A i \in 1 .. Len(Tail(cuts)) :
                 Tail(cuts)[i] = chosen[Len(chosen) - Len(Tail(cuts)) + i]
        BY <2>1, NextTerm
      <3>2. Len(Tail(cuts)) \in Nat /\ Len(chosen) \in Nat
        BY <2>1, NextTerm DEF CutsInv
      <3> QED
        BY <2>1, <3>1, <3>2
    <2> QED
      BY <2>1, <2>2 DEF CutsInv
  <1>6. CASE \/ (NextCluster \/ ScanDoc \/ ListDone \/ Finish) /\ Searching
             \/ SelectBlocks \/ NextBlock \/ ScoreDoc \/ FinishBudget
    <2>1. /\ UNCHANGED <<chosen, cuts, call>>
          /\ pc' \in {"idle", "score"} => cuts = <<>>
          /\ pc' # "build"
      BY <1>6 DEF NextCluster, ScanDoc, ListDone, Finish, SelectBlocks, NextBlock, ScoreDoc,
                  FinishBudget, CutsInv
    <2> QED
      BY <2>1 DEF CutsInv
  <1> QED
    BY <1>1, <1>2, <1>3, <1>4, <1>5, <1>6, Steps

(* The documents of a cluster, or of a block, are the index's.              *)
LEMMA ClusterDocs ==
  ASSUME IndexInv, NEW t \in DOMAIN lists, NEW i \in DOMAIN lists[t]
  PROVE  /\ lists[t][i].docs \in Seq(Docs) /\ lists[t][i].docs # <<>>
         /\ Range(lists[t][i].docs) \subseteq Having(rows, t - 1)
         /\ Having(rows, t - 1) \subseteq Docs
  <1> DEFINE H == Having(rows, t - 1)
             s == lists[t][i].docs
  <1>1. s \in Seq(H) /\ s # <<>>
    BY DEF IndexInv, IsClustering
  <1>2. H \subseteq Docs
    BY DEF Having, Docs
  <1> HIDE DEF H, s
  <1>3. s \in Seq(Docs) /\ Range(s) \subseteq H
    BY <1>1, <1>2 DEF Range
  <1> QED
    BY <1>1, <1>2, <1>3 DEF H, s

(* The order clusters are visited in is of the list's own clusters.         *)
LEMMA ListsHaveOrders ==
  ASSUME NEW s, NEW n \in Nat, DOMAIN s = 1 .. n, Len(s) = n, NEW o \in Orders(s)
  PROVE  o \in Seq(DOMAIN s)
  <1>1. CASE first
    BY <1>1, FunctionIsSequence DEF Orders, Arrangements
  <1>2. CASE ~first
    <2>1. o = [i \in 1 .. n |-> i]
      BY <1>2 DEF Orders
    <2>2. o \in [1 .. n -> DOMAIN s]
      BY <2>1
    <2> QED
      BY <2>2, FunctionIsSequence
  <1> QED
    BY <1>1, <1>2

(* Each cluster of a list has a summary score.                              *)
LEMMA SummariesAreScored ==
  ASSUME NEW clusters, NEW n \in Nat, DOMAIN clusters = 1 .. n, NEW c
  PROVE  DOMAIN SummaryScores(clusters, c) = 1 .. n /\ Len(SummaryScores(clusters, c)) = n
  <1>1. Len([i \in DOMAIN clusters |-> clusters[i].summary]) = n
    OBVIOUS
  <1>2. DOMAIN SummaryScores(clusters, c) = 1 .. n
    BY <1>1 DEF SummaryScores, score_summaries_transposed, build_transpose
  <1> QED
    BY <1>2

(* A block is a cluster of a list of the index.                             *)
IsBlock(b) == b.list \in DOMAIN lists /\ b.cluster \in DOMAIN lists[b.list]

(* While blocks are ranked or scored, and once they have been.              *)
Ranking == pc \in {"collect", "score"} \/ SearchedBlocks
Taking  == pc = "score" \/ SearchedBlocks

(* The documents of the first n blocks within the budget. *)
DocsOfFirst(n) == {d \in Docs : \E i \in 1 .. n : d \in Range(DocsOf(taken[i]))}

(* The blocks ranked are those of the lists of the terms that were visited; *)
(* those within the budget are the best of them, and what was visited, or   *)
(* is about to be, are the documents of those that were begun.              *)
BlocksInv ==
  /\ candidates \in Seq(Range(candidates))
  /\ Ranking =>
       /\ asked.budget \in Nat \ {0}
       /\ \A b \in Range(candidates) : IsBlock(b) /\ b.list - 1 \in Range(chosen)
       /\ \A i \in 1 .. Len(chosen) - Len(cuts) : chosen[i] < Len(lists) =>
            \A j \in DOMAIN lists[chosen[i] + 1] :
              \E b \in Range(candidates) : b.list = chosen[i] + 1 /\ b.cluster = j
  /\ pc = "collect" => visited = {}
  /\ Taking =>
       /\ taken \in BestBlocks(asked.budget)
       /\ taken \in Seq(Range(candidates)) /\ blocks \in Seq(Range(candidates))
       /\ Len(blocks) <= Len(taken)
       /\ \A i \in 1 .. Len(blocks) : blocks[i] = taken[Len(taken) - Len(blocks) + i]
       /\ visited \union Range(docs) = DocsOfFirst(Len(taken) - Len(blocks))
  /\ SearchedBlocks => blocks = <<>>

(* The next block to score is one of the index's. *)
LEMMA NextBlockDocs ==
  ASSUME IndexInv, BlocksInv, pc = "score", blocks # <<>>
  PROVE  DocsOf(Head(blocks)) \in Seq(Docs) /\ Head(blocks) \in Range(candidates)
  <1>1. Head(blocks) \in Range(candidates)
    <2> DEFINE S == Range(candidates)
    <2>1. blocks \in Seq(S)
      BY DEF BlocksInv, Taking
    <2> HIDE DEF S
    <2>2. Head(blocks) \in S
      BY <2>1
    <2> QED
      BY <2>2 DEF S
  <1>2. IsBlock(Head(blocks))
    BY <1>1 DEF BlocksInv, Ranking
  <1> QED
    BY <1>1, <1>2, ClusterDocs DEF IsBlock, DocsOf

(* Every step keeps what is visited within the index.                       *)
LEMMA StepsKeepList ==
  ASSUME IndexInv, CutsInv, ListInv, BlocksInv, DiskNext
  PROVE  ListInv'
  <1>1. UNCHANGED <<rows, param>> /\ Docs' = Docs
    BY OnlyBuildingBuilds DEF Docs
  <1>2. CASE (Build \/ BuildList) /\ Putting
    <2>1. /\ UNCHANGED <<first, sums, order, docs>>
          /\ pc \in {"idle", "build"} /\ pc' \in {"idle", "build"}
      BY <1>2 DEF Build, BuildList, listVars
    <2> QED
      BY <1>1, <2>1 DEF ListInv
  <1>3. ASSUME NEW q \in Questions, ExactStep(q) \/ StartStep(q) \/ BudgetStep(q)
        PROVE  ListInv'
    <2>1. /\ UNCHANGED <<sums, order, docs>> /\ first' \in BOOLEAN
          /\ pc = "idle" /\ pc' \in {"idle", "list", "collect"}
          /\ pc' = "list" => ~param.disk
      BY <1>3 DEF ExactStep, StartStep, BudgetStep, ExactMatch, StartQuery, AskBudget, listVars,
                  ListInv
    <2> QED
      BY <1>1, <2>1 DEF ListInv
  <1>4. CASE OpenList /\ Searching
    <2>1. /\ pc = "list" /\ cuts # <<>> /\ cuts' = Tail(cuts)
          /\ UNCHANGED <<chosen, lists, docs>>
      BY <1>4 DEF OpenList, indexVars
    <2>2. docs = <<>> /\ sums = <<>> /\ order = <<>> /\ ~param.disk /\ docs \in Seq(Docs)
      BY <2>1 DEF ListInv
    <2>3. CASE UNCHANGED <<pc, sums, order>> /\ first' \in BOOLEAN
      <3>1. order' \in Seq(DOMAIN sums')
        BY <2>3 DEF ListInv
      <3> QED
        BY <1>1, <2>1, <2>2, <2>3, <3>1 DEF ListInv
    <2>4. CASE ~(UNCHANGED <<pc, sums, order>> /\ first' \in BOOLEAN)
      <3> DEFINE t == Head(cuts)
                 clusters == lists[t + 1]
      <3>1. /\ ~(t >= Len(lists)) /\ sums' = SummaryScores(clusters, call)
            /\ order' \in Orders(sums') /\ pc' = "cluster" /\ UNCHANGED first
        BY <1>4, <2>4 DEF OpenList, ListInv
      <3>2. /\ Len(cuts') < Len(chosen) /\ t \in Terms
            /\ t = chosen[Len(chosen) - Len(cuts')]
        <4>1. /\ Len(Tail(cuts)) < Len(chosen) /\ Head(cuts) \in Terms
              /\ Head(cuts) = chosen[Len(chosen) - Len(Tail(cuts))]
          BY <2>1, NextTerm
        <4> QED
          BY <2>1, <4>1
      <3>3. t < Len(lists) /\ t + 1 \in DOMAIN lists
        <4>1. Len(lists) \in Nat /\ DOMAIN lists = 1 .. Len(lists)
          BY DEF IndexInv
        <4> QED
          BY <3>1, <3>2, <4>1 DEF Terms
      <3>4. Len(clusters) \in Nat /\ DOMAIN clusters = 1 .. Len(clusters)
        BY <3>3 DEF IndexInv, IsClustering
      <3>5. DOMAIN sums' = DOMAIN clusters /\ Len(sums') = Len(clusters)
        BY <3>1, <3>4, SummariesAreScored
      <3>6. order' \in Seq(DOMAIN sums')
        BY <3>1, <3>4, <3>5, ListsHaveOrders
      <3>7. Visiting' = t
        BY <2>1, <3>2 DEF Visiting
      <3> HIDE DEF t, clusters
      <3>8. DOMAIN sums' = DOMAIN lists'[Visiting' + 1] /\ Visiting' < Len(lists')
        BY <2>1, <3>3, <3>5, <3>7 DEF clusters
      <3> QED
        BY <1>1, <2>1, <2>2, <3>1, <3>2, <3>6, <3>8 DEF ListInv
    <2> QED
      BY <2>3, <2>4
  <1>5. CASE NextCluster /\ Searching
    <2>1. /\ pc = "cluster" /\ order # <<>> /\ UNCHANGED <<chosen, cuts, lists, sums, first>>
      BY <1>5 DEF NextCluster, indexVars
    <2>2. UNCHANGED Visiting
      BY <2>1 DEF Visiting
    <2>3. /\ order \in Seq(DOMAIN sums) /\ Tail(order) \in Seq(DOMAIN sums)
          /\ <<>> \in Seq(DOMAIN sums) /\ Head(order) \in DOMAIN sums
      <3> DEFINE S == DOMAIN sums
      <3>1. order \in Seq(S)
        BY DEF ListInv
      <3> HIDE DEF S
      <3>2. Tail(order) \in Seq(S) /\ <<>> \in Seq(S) /\ Head(order) \in S
        BY <2>1, <3>1
      <3> QED
        BY <3>1, <3>2 DEF S
    <2>4. order' \in Seq(DOMAIN sums)
      BY <1>5, <2>3 DEF NextCluster
    <2>5. CASE UNCHANGED <<pc, docs>>
      BY <1>1, <2>1, <2>2, <2>4, <2>5 DEF ListInv
    <2>6. CASE ~UNCHANGED <<pc, docs>>
      <3>1. docs' = CurrentList[Head(order)].docs /\ pc' = "docs"
        BY <1>5, <2>6 DEF NextCluster
      <3>2. /\ CurrentList = lists[Visiting + 1] /\ Head(order) \in DOMAIN lists[Visiting + 1]
            /\ Visiting < Len(lists)
        BY <2>1, <2>3 DEF CurrentList, Visiting, ListInv
      <3>3. Visiting + 1 \in DOMAIN lists
        <4>1. Len(lists) \in Nat /\ DOMAIN lists = 1 .. Len(lists)
          BY DEF IndexInv
        <4>2. Visiting \in Terms
          <5>1. /\ chosen \in Seq(Terms) /\ cuts \in Seq(Terms) /\ Len(cuts) < Len(chosen)
            BY <2>1 DEF CutsInv, ListInv
          <5>2. Len(chosen) - Len(cuts) \in DOMAIN chosen
            BY <5>1
          <5> QED
            BY <5>1, <5>2, SequenceElement DEF Visiting
        <4> QED
          BY <3>2, <4>1, <4>2 DEF Terms
      <3>4. docs' \in Seq(Docs) /\ docs' # <<>>
        BY <3>1, <3>2, <3>3, ClusterDocs
      <3> QED
        BY <1>1, <2>1, <2>2, <2>4, <3>1, <3>4 DEF ListInv
    <2> QED
      BY <2>5, <2>6
  <1>6. CASE ScanDoc /\ Searching
    <2>1. /\ pc = "docs" /\ docs' = Tail(docs) /\ pc' = IF docs' = <<>> THEN "cluster" ELSE "docs"
          /\ UNCHANGED <<chosen, cuts, lists, sums, order, first>>
      BY <1>6 DEF ScanDoc, indexVars
    <2>2. UNCHANGED Visiting
      BY <2>1 DEF Visiting
    <2>3. docs' \in Seq(Docs)
      <3>1. docs \in Seq(Docs) /\ docs # <<>>
        BY <2>1 DEF ListInv
      <3> QED
        BY <2>1, <3>1
    <2> QED
      BY <1>1, <2>1, <2>2, <2>3 DEF ListInv
  <1>7. CASE ListDone /\ Searching
    <2>1. /\ pc = "cluster" /\ pc' = "list" /\ first' = FALSE /\ sums' = <<>> /\ order = <<>>
          /\ UNCHANGED <<order, docs>>
      BY <1>7 DEF ListDone
    <2>2. <<>> \in Seq(DOMAIN <<>>)
      OBVIOUS
    <2> QED
      BY <1>1, <2>1, <2>2 DEF ListInv
  <1>8. CASE Finish /\ Searching
    <2>1. /\ pc = "list" /\ pc' = "idle" /\ UNCHANGED <<first, sums, order, docs>>
      BY <1>8 DEF Finish, listVars
    <2> QED
      BY <1>1, <2>1 DEF ListInv
  <1>9. CASE CollectList \/ SelectBlocks \/ FinishBudget
    <2>1. /\ UNCHANGED <<first, sums, order, docs>> /\ docs = <<>>
          /\ pc \in {"collect", "score"} /\ pc' \in {"collect", "score", "idle"}
      BY <1>9 DEF CollectList, SelectBlocks, FinishBudget, listVars, ListInv
    <2> QED
      BY <1>1, <2>1 DEF ListInv
  <1>10. CASE NextBlock \/ ScoreDoc
    <2>1. /\ pc = "score" /\ pc' = "score" /\ UNCHANGED <<first, sums, order>>
      BY <1>10 DEF NextBlock, ScoreDoc
    <2>2. docs' \in Seq(Docs)
      <3>1. CASE NextBlock
        BY <2>1, <3>1, NextBlockDocs DEF NextBlock
      <3>2. CASE ScoreDoc
        <4>1. docs \in Seq(Docs) /\ docs # <<>> /\ docs' = Tail(docs)
          BY <3>2 DEF ScoreDoc, ListInv
        <4> QED
          BY <4>1
      <3> QED
        BY <1>10, <3>1, <3>2
    <2> QED
      BY <1>1, <2>1, <2>2 DEF ListInv
  <1> QED
    BY <1>2, <1>3, <1>4, <1>5, <1>6, <1>7, <1>8, <1>9, <1>10, Steps

(* A document offered to the heap, unless it was visited or is not wanted.  *)
LEMMA OfferedDoc ==
  ASSUME NEW f \in [Docs -> Nat], NEW k \in Nat \ {0}, NEW ids, NEW v, v \subseteq Docs,
         NEW h, IsTop(h, f, k, v \intersect ids), NEW d \in Docs, NEW g,
         IF d \in v \/ d \notin ids THEN g = h ELSE g \in Added(h, k, ItemOf(f, d))
  PROVE  IsTop(g, f, k, (v \union {d}) \intersect ids)
  <1>1. CASE d \in v \/ d \notin ids
    <2>1. (v \union {d}) \intersect ids = v \intersect ids
      BY <1>1
    <2> QED
      BY <1>1, <2>1
  <1>2. CASE ~(d \in v \/ d \notin ids)
    <2> DEFINE D == v \intersect ids
    <2>1. D \in SUBSET Docs /\ d \in Docs \ D /\ (v \union {d}) \intersect ids = D \union {d}
      BY <1>2
    <2> HIDE DEF D
    <2>2. IsTop(h, f, k, D) /\ g \in Added(h, k, ItemOf(f, d))
      BY <1>2 DEF D
    <2>3. IsTop(g, f, k, D \union {d})
      BY <2>1, <2>2, AddedIsTop
    <2> QED
      BY <2>1, <2>3
  <1> QED
    BY <1>1, <1>2

(* Scores are the corpus's and the search's.                                *)
LEMMA ScoresStay ==
  ASSUME UNCHANGED <<rows, call>>
  PROVE  ScoreOf' = ScoreOf /\ Docs' = Docs
  BY DEF ScoreOf, Score, Docs

(* Every step keeps the heap a top k of what was visited: a document is     *)
(* offered the first time it is met and no other                            *)
(* (seismic_index.cpp:104-115, disk_seismic_search.cpp:188-193).            *)
LEMMA StepsKeepHeap ==
  ASSUME IndexInv, CallInv, ListInv, HeapInv, DiskNext
  PROVE  HeapInv'
  <1>1. UNCHANGED rows /\ Docs' = Docs
    BY OnlyBuildingBuilds DEF Docs
  <1>2. CASE (Build \/ BuildList) /\ Putting
    <2>1. /\ UNCHANGED <<visited, heap>> /\ pc \in {"idle", "build"} /\ pc' \in {"idle", "build"}
          /\ call' = NoCall /\ result' = EmptyBag
      BY <1>2 DEF Build, BuildList, CallInv, HeapInv
    <2>2. NoCall.ids = {} /\ NoCall.k \in Nat \ {0} /\ ~RunsExact(NoCall)
      BY NothingIsACall DEF NoCall
    <2>3. visited' \intersect NoCall.ids = {}
      BY <2>2
    <2>4. IsTop(EmptyBag, ScoreOf', NoCall.k, {})
      BY <2>2, NoneIsTop
    <2> HIDE DEF NoCall
    <2>5. IsTop(result', ScoreOf', call'.k, visited' \intersect call'.ids)
      BY <2>1, <2>3, <2>4
    <2> QED
      BY <1>1, <2>1, <2>2, <2>5 DEF HeapInv
  <1>3. ASSUME NEW q \in Questions, ExactStep(q)
        PROVE  HeapInv'
    <2> DEFINE c == CallOf(sq, q)
               H == c.ids \intersect Docs
    <2>1. /\ pc = "idle" /\ UNCHANGED <<pc, visited, heap>> /\ call' = c /\ RunsExact(c)
          /\ Asked(c, q)
      BY <1>3 DEF ExactStep, ExactMatch, Question
    <2> DEFINE query == [t \in Terms |-> IF t \in QueryTerms(c) THEN Weight(c, t) ELSE 0]
               item(d) == [score |-> dot_product_dense(param.isa, param.type, Row(rows, d), query),
                           doc |-> d]
    <2>2. result' = SetToBag({item(d) : d \in H})
      BY <1>3 DEF ExactStep, ExactMatch
    <2>3. \A d \in H : item(d) = ItemOf(ScoreOf', d)
      <3>1. ASSUME NEW d \in H
            PROVE  item(d) = ItemOf(ScoreOf', d)
        <4>1. query = Scattered(c)
          BY DEF Scattered
        <4> HIDE DEF c, query
        <4>2. dot_product_dense(param.isa, param.type, Row(rows, d), query)
                = Inner(Row(rows, d), QueryRow(c))
          BY <2>1, <4>1, KernelScores
        <4>3. ScoreOf'[d] = Inner(Row(rows, d), QueryRow(c))
          BY <1>1, <2>1 DEF ScoreOf, Score
        <4> QED
          BY <4>2, <4>3 DEF ItemOf
      <3> QED
        BY <3>1
    <2>4. {item(d) : d \in H} = ItemsOf(ScoreOf', H)
      <3> HIDE DEF item, H
      <3> QED
        BY <2>3 DEF ItemsOf
    <2>5. Holds(result', ScoreOf', H)
      <3> HIDE DEF item, H
      <3> QED
        BY <2>2, <2>4 DEF Holds, SetToBag
    <2> HIDE DEF c
    <2> QED
      BY <1>1, <2>1, <2>5 DEF HeapInv
  <1>4. ASSUME NEW q \in Questions, StartStep(q) \/ BudgetStep(q)
        PROVE  HeapInv'
    <2> DEFINE c == CallOf(sq, q)
    <2>1. /\ pc' \in {"list", "collect"} /\ visited' = {} /\ heap' = EmptyBag /\ result' = EmptyBag
          /\ call' = c /\ Asked(c, q)
      BY <1>4 DEF StartStep, BudgetStep, StartQuery, AskBudget, Question
    <2>2. c.k \in Nat \ {0}
      BY <2>1, AskedIsACall DEF IndexInv, IsCall
    <2> HIDE DEF c
    <2>3. IsTop(heap', ScoreOf', call'.k, visited' \intersect call'.ids)
      <3>1. visited' \intersect call'.ids = {}
        BY <2>1
      <3> QED
        BY <2>1, <2>2, <3>1, NoneIsTop
    <2> QED
      BY <2>1, <2>3 DEF HeapInv
  <1>5. CASE (ScanDoc /\ Searching) \/ ScoreDoc
    <2> DEFINE d == Head(docs)
    <2>1. /\ pc \in {"docs", "score"} /\ pc' \in {"docs", "cluster", "score"} /\ docs # <<>>
          /\ UNCHANGED <<call, result>> /\ visited' = visited \union {d}
          /\ IF d \in visited \/ d \notin call.ids
               THEN UNCHANGED heap
               ELSE heap' \in Added(heap, call.k, [score |-> Dot(d), doc |-> d])
      BY <1>5 DEF ScanDoc, ScoreDoc, ListInv
    <2>2. d \in Docs
      <3>1. docs \in Seq(Docs)
        BY DEF ListInv
      <3> QED
        BY <2>1, <3>1
    <2>3. ScoreOf \in [Docs -> Nat] /\ IsCall(call)
      BY ScoresAreNatural
    <2>4. [score |-> Dot(d), doc |-> d] = ItemOf(ScoreOf, d)
      <3>1. dense = Scattered(call)
        BY <2>1 DEF CallInv
      <3> HIDE DEF d
      <3>2. Dot(d) = Inner(Row(rows, d), QueryRow(call))
        BY <2>2, <3>1, KernelScores DEF CallInv, Dot
      <3>3. ScoreOf[d] = Inner(Row(rows, d), QueryRow(call))
        BY <2>2 DEF ScoreOf, Score
      <3> QED
        BY <3>2, <3>3 DEF ItemOf
    <2>5. IsTop(heap, ScoreOf, call.k, visited \intersect call.ids) /\ visited \subseteq Docs
      BY <2>1 DEF HeapInv
    <2>6. call.k \in Nat \ {0}
      BY <2>3 DEF IsCall
    <2> HIDE DEF d
    <2>7. IF d \in visited \/ d \notin call.ids
            THEN heap' = heap
            ELSE heap' \in Added(heap, call.k, ItemOf(ScoreOf, d))
      BY <2>1, <2>4
    <2>8. IsTop(heap', ScoreOf, call.k, (visited \union {d}) \intersect call.ids)
      BY <2>2, <2>3, <2>5, <2>6, <2>7, OfferedDoc
    <2>9. ScoreOf' = ScoreOf
      BY <1>1, <2>1, ScoresStay
    <2>10. result = EmptyBag
      BY <2>1 DEF HeapInv
    <2> QED
      BY <1>1, <2>1, <2>2, <2>5, <2>8, <2>9, <2>10 DEF HeapInv
  <1>6. CASE (Finish /\ Searching) \/ FinishBudget
    <2>1. /\ pc \in {"list", "score"} /\ pc' = "idle" /\ result' = heap /\ heap' = EmptyBag
          /\ UNCHANGED <<visited, call>>
      BY <1>6 DEF Finish, FinishBudget
    <2>2. ScoreOf' = ScoreOf /\ ~RunsExact(call)
      BY <1>1, <2>1, ScoresStay DEF CallInv
    <2> QED
      BY <1>1, <2>1, <2>2 DEF HeapInv
  <1>7. CASE \/ (OpenList \/ NextCluster \/ ListDone) /\ Searching
             \/ CollectList \/ SelectBlocks \/ NextBlock
    <2>1. /\ UNCHANGED <<visited, call, heap, result>>
          /\ pc \notin {"idle", "build"} /\ pc' \notin {"idle", "build"}
      BY <1>7 DEF OpenList, NextCluster, ListDone, CollectList, SelectBlocks, NextBlock
    <2>2. ScoreOf' = ScoreOf
      BY <1>1, <2>1, ScoresStay
    <2> QED
      BY <1>1, <2>1, <2>2 DEF HeapInv
  <1> QED
    BY <1>2, <1>3, <1>4, <1>5, <1>6, <1>7, Steps

(* One sequence after another. *)
LEMMA OneAfterAnother ==
  ASSUME NEW s, s \in Seq(Range(s)), NEW n \in Nat, NEW u, u \in [1 .. n -> Range(u)]
  PROVE  /\ Range(s \o u) = Range(s) \union Range(u)
         /\ s \o u \in Seq(Range(s \o u))
  <1> DEFINE S == Range(s)
             U == Range(u)
             m == Len(s)
             v == s \o u
  <1>1. u \in Seq(U) /\ Len(u) = n /\ DOMAIN u = 1 .. n
    BY FunctionIsSequence
  <1>2. s \in Seq(S)
    OBVIOUS
  <1> HIDE DEF S, U
  <1>3. m \in Nat /\ DOMAIN s = 1 .. m
    BY <1>2
  <1>4. /\ DOMAIN v = 1 .. m + n /\ Len(v) = m + n
        /\ \A i \in 1 .. m : v[i] = s[i]
        /\ \A i \in 1 .. n : v[m + i] = u[i]
    BY <1>1, <1>2
  <1> HIDE DEF v
  <1>5. ASSUME NEW i \in 1 .. m + n
        PROVE  v[i] \in S \union U
    <2>1. CASE i \in 1 .. m
      BY <1>3, <1>4, <2>1 DEF S, Range
    <2>2. CASE i \notin 1 .. m
      <3>1. i - m \in 1 .. n /\ m + (i - m) = i
        BY <1>3, <2>2
      <3>2. v[i] = u[i - m]
        BY <1>4, <3>1
      <3> QED
        BY <1>1, <3>1, <3>2 DEF U, Range
    <2> QED
      BY <2>1, <2>2
  <1>6. ASSUME NEW x \in S
        PROVE  x \in Range(v)
    <2>1. PICK i \in 1 .. m : s[i] = x
      BY <1>3 DEF S, Range
    <2>2. i \in 1 .. m + n /\ v[i] = x
      BY <1>3, <1>4, <2>1
    <2> QED
      BY <1>4, <2>2 DEF Range
  <1>7. ASSUME NEW x \in U
        PROVE  x \in Range(v)
    <2>1. PICK i \in 1 .. n : u[i] = x
      BY <1>1 DEF U, Range
    <2>2. m + i \in 1 .. m + n /\ v[m + i] = x
      BY <1>3, <1>4, <2>1
    <2> QED
      BY <1>4, <2>2 DEF Range
  <1>8. Range(v) = S \union U
    BY <1>4, <1>5, <1>6, <1>7 DEF Range
  <1>9. v \in Seq(Range(v))
    <2> DEFINE W == S \union U
    <2>1. s \in Seq(W) /\ u \in Seq(W)
      <3>1. (\A i \in 1 .. m : s[i] \in W) /\ \A i \in 1 .. n : u[i] \in W
        BY <1>1, <1>2, <1>3
      <3>2. s \in [1 .. m -> W] /\ u \in [1 .. n -> W]
        BY <1>1, <1>2, <1>3, <3>1
      <3> HIDE DEF W
      <3> QED
        BY <1>3, <3>2, FunctionIsSequence
    <2> HIDE DEF W
    <2>2. v \in Seq(W)
      BY <2>1 DEF v
    <2> QED
      BY <1>8, <2>2 DEF W
  <1> QED
    BY <1>8, <1>9 DEF v, S, U

(* A sequence has its first element and those after it. *)
LEMMA HeadAndTail ==
  ASSUME NEW S, NEW s \in Seq(S), s # <<>>
  PROVE  Range(s) = {Head(s)} \union Range(Tail(s)) /\ Range(<<>>) = {}
  <1>1. /\ Len(s) \in Nat \ {0} /\ DOMAIN s = 1 .. Len(s) /\ Head(s) = s[1]
        /\ DOMAIN Tail(s) = 1 .. Len(s) - 1
        /\ \A i \in 1 .. Len(s) - 1 : Tail(s)[i] = s[i + 1]
    OBVIOUS
  <1> DEFINE u == Tail(s)
  <1> HIDE DEF u
  <1>2. ASSUME NEW i \in 1 .. Len(s)
        PROVE  s[i] \in {Head(s)} \union Range(u)
    <2>1. CASE i = 1
      BY <1>1, <2>1
    <2>2. CASE i # 1
      <3>1. i - 1 \in 1 .. Len(s) - 1 /\ (i - 1) + 1 = i
        BY <1>1, <2>2
      <3>2. u[i - 1] = s[i] /\ i - 1 \in DOMAIN u
        BY <1>1, <3>1 DEF u
      <3> QED
        BY <3>2 DEF Range
    <2> QED
      BY <2>1, <2>2
  <1>3. ASSUME NEW i \in 1 .. Len(s) - 1
        PROVE  u[i] \in Range(s)
    <2>1. i + 1 \in 1 .. Len(s) /\ u[i] = s[i + 1]
      BY <1>1 DEF u
    <2> QED
      BY <1>1, <2>1 DEF Range
  <1>4. Head(s) \in Range(s)
    BY <1>1 DEF Range
  <1>5. DOMAIN u = 1 .. Len(s) - 1
    BY <1>1 DEF u
  <1>6. Range(s) = {Head(s)} \union Range(u)
    BY <1>1, <1>2, <1>3, <1>4, <1>5 DEF Range
  <1>7. Range(<<>>) = {}
    BY DEF Range
  <1> QED
    BY <1>6, <1>7 DEF u

(* What the budget may allow is of the blocks that were ranked. *)
LEMMA BestAreRanked ==
  ASSUME BlocksInv, NEW n \in Nat, NEW s \in BestBlocks(n)
  PROVE  s \in Seq(Range(candidates))
  <1>1. CASE n >= Len(candidates)
    BY <1>1 DEF BestBlocks, BlocksInv
  <1>2. CASE ~(n >= Len(candidates))
    BY <1>2, FunctionIsSequence DEF BestBlocks, Arrangements
  <1> QED
    BY <1>1, <1>2

(* Documents and blocks are the corpus's and the lists'.                    *)
LEMMA IndexSteady ==
  ASSUME UNCHANGED <<rows, lists>>
  PROVE  /\ Docs' = Docs
         /\ \A b : IsBlock(b)' = IsBlock(b) /\ DocsOf(b)' = DocsOf(b)
  BY DEF Docs, IsBlock, DocsOf

(* The best blocks and their documents depend on nothing else.              *)
LEMMA BlocksSteady ==
  ASSUME UNCHANGED <<rows, lists, candidates, taken>>
  PROVE  /\ \A n : BestBlocks(n)' = BestBlocks(n)
         /\ \A n : DocsOfFirst(n)' = DocsOfFirst(n)
  BY DEF Docs, DocsOf, BestBlocks, DocsOfFirst

(* One more block, one more block's documents. *)
LEMMA OneMoreBlock ==
  ASSUME NEW n \in Nat, Range(DocsOf(taken[n + 1])) \subseteq Docs
  PROVE  DocsOfFirst(n + 1) = DocsOfFirst(n) \union Range(DocsOf(taken[n + 1]))
  <1>1. 1 .. n + 1 = (1 .. n) \union {n + 1}
    OBVIOUS
  <1> QED
    BY <1>1 DEF DocsOfFirst

(* An index in memory has no blocks ranked: what is left of others does not *)
(* count.                                                                   *)
LEMMA MemoryKeepsBlocks ==
  ASSUME BlocksInv, UNCHANGED candidates, pc' \notin {"collect", "score"}, ~SearchedBlocks'
  PROVE  BlocksInv'
  BY DEF BlocksInv, Ranking, Taking

(* Every step keeps the blocks ranked, those within the budget, and what    *)
(* was visited together (disk_seismic_search.cpp:174-193).                  *)
LEMMA StepsKeepBlocks ==
  ASSUME IndexInv, CallInv, CutsInv, ListInv, HeapInv, BlocksInv, DiskNext
  PROVE  BlocksInv'
  <1>1. UNCHANGED <<rows, param>>
    BY OnlyBuildingBuilds
  <1>2. CASE (Build \/ BuildList) /\ Putting
    <2>1. /\ UNCHANGED candidates /\ pc' \in {"idle", "build"} /\ call' = NoCall
      BY <1>2 DEF Build, BuildList, Putting, blockVars, CallInv
    <2> QED
      BY <2>1, MemoryKeepsBlocks DEF SearchedBlocks
  <1>3. ASSUME NEW q \in Questions, ExactStep(q) \/ StartStep(q)
        PROVE  BlocksInv'
    <2>1. /\ UNCHANGED candidates /\ pc' \in {"idle", "list"}
          /\ pc' = "idle" => RunsExact(call')
      BY <1>3 DEF ExactStep, StartStep, ExactMatch, StartQuery, blockVars
    <2> QED
      BY <2>1, MemoryKeepsBlocks DEF SearchedBlocks
  <1>4. CASE (OpenList \/ NextCluster \/ ScanDoc \/ ListDone \/ Finish) /\ Searching
    <2>1. /\ UNCHANGED candidates /\ pc \in {"list", "cluster", "docs"}
          /\ pc' \in {"list", "cluster", "docs", "idle"}
      BY <1>4 DEF OpenList, NextCluster, ScanDoc, ListDone, Finish, Searching, blockVars
    <2>2. ~param.disk
      BY <2>1 DEF ListInv
    <2> QED
      BY <1>1, <2>1, <2>2, MemoryKeepsBlocks DEF SearchedBlocks
  <1>5. ASSUME NEW q \in Questions, BudgetStep(q)
        PROVE  BlocksInv'
    <2>1. /\ pc' = "collect" /\ visited' = {} /\ candidates' = <<>> /\ cuts' = chosen'
          /\ asked' = q /\ q.budget > 0
      BY <1>5 DEF BudgetStep, AskBudget, Question
    <2>2. /\ chosen' \in Seq(Terms)
      <3>1. chosen' \in CutsOf(CallOf(sq, q)) /\ Asked(CallOf(sq, q), q)
        BY <1>5 DEF BudgetStep, AskBudget, Question
      <3>2. IsCall(CallOf(sq, q))
        BY <3>1, AskedIsACall DEF IndexInv
      <3> QED
        BY <3>1, <3>2, CutsAreTerms
    <2>3. 1 .. Len(chosen') - Len(cuts') = {} /\ Range(<<>>) = {} /\ <<>> \in Seq({})
      BY <2>1, <2>2 DEF Range
    <2>4. asked'.budget \in Nat \ {0}
      BY <2>1, BudgetsAssumption
    <2> QED
      BY <2>1, <2>3, <2>4 DEF BlocksInv, Ranking, Taking, SearchedBlocks
  <1>6. CASE CollectList
    <2> DEFINE t        == Head(cuts)
               clusters == lists[t + 1]
               scores   == SummaryScores(clusters, call)
               block(i) == [list |-> t + 1, cluster |-> i, score |-> scores[i]]
               new      == [i \in DOMAIN clusters |-> block(i)]
               C        == Range(candidates)
    <2>1. /\ pc = "collect" /\ pc' = "collect" /\ cuts # <<>> /\ cuts' = Tail(cuts)
          /\ UNCHANGED <<lists, call, visited, chosen, asked>>
          /\ IF t >= Len(lists) THEN UNCHANGED candidates ELSE candidates' = candidates \o new
      BY <1>6 DEF CollectList, indexVars, callerVars
    <2>2. /\ candidates \in Seq(C) /\ asked.budget \in Nat \ {0} /\ visited = {}
          /\ \A b \in C : IsBlock(b) /\ b.list - 1 \in Range(chosen)
          /\ \A i \in 1 .. Len(chosen) - Len(cuts) : chosen[i] < Len(lists) =>
               \A j \in DOMAIN lists[chosen[i] + 1] :
                 \E b \in C : b.list = chosen[i] + 1 /\ b.cluster = j
      BY <2>1 DEF BlocksInv, Ranking
    <2>3. /\ Len(cuts') \in Nat /\ Len(cuts) = Len(cuts') + 1 /\ Len(cuts') < Len(chosen)
          /\ Len(chosen) \in Nat /\ DOMAIN chosen = 1 .. Len(chosen)
          /\ t = chosen[Len(chosen) - Len(cuts')] /\ t \in Terms
      <3>1. /\ Len(Tail(cuts)) \in Nat /\ Len(Tail(cuts)) < Len(chosen)
            /\ Head(cuts) = chosen[Len(chosen) - Len(Tail(cuts))] /\ Head(cuts) \in Terms
        BY <2>1, NextTerm
      <3>2. cuts \in Seq(Terms) /\ chosen \in Seq(Terms)
        BY DEF CutsInv
      <3>3. Len(cuts) = Len(Tail(cuts)) + 1
        BY <2>1, <3>2
      <3> QED
        BY <2>1, <3>1, <3>2, <3>3
    <2> DEFINE n == Len(chosen) - Len(cuts)
    <2>4. n \in Nat /\ Len(chosen) - Len(cuts') = n + 1 /\ t = chosen[n + 1] /\ n + 1 \in DOMAIN chosen
      BY <2>3
    <2>5. ~(t >= Len(lists)) <=> t < Len(lists)
      BY <2>3 DEF IndexInv, Terms
    <2>6. /\ C \subseteq Range(candidates') /\ candidates' \in Seq(Range(candidates'))
          /\ \A b \in Range(candidates') : IsBlock(b) /\ b.list - 1 \in Range(chosen)
          /\ t < Len(lists) =>
               \A j \in DOMAIN clusters : \E b \in Range(candidates') : b.list = t + 1 /\ b.cluster = j
      <3>1. CASE t >= Len(lists)
        BY <2>1, <2>2, <2>5, <3>1
      <3>2. CASE ~(t >= Len(lists))
        <4>1. t + 1 \in DOMAIN lists
          <5>1. Len(lists) \in Nat /\ DOMAIN lists = 1 .. Len(lists)
            BY DEF IndexInv
          <5> QED
            BY <2>3, <2>5, <3>2, <5>1 DEF Terms
        <4>2. Len(clusters) \in Nat /\ DOMAIN clusters = 1 .. Len(clusters)
          BY <4>1 DEF IndexInv, IsClustering
        <4>3. candidates' = candidates \o new
          BY <2>1, <3>2
        <4>4. /\ new \in [1 .. Len(clusters) -> Range(new)]
              /\ \A j \in DOMAIN clusters : block(j) \in Range(new)
              /\ \A b \in Range(new) : \E j \in DOMAIN clusters : b = block(j)
          <5> HIDE DEF clusters, block
          <5> QED
            BY <4>2 DEF Range
        <4>5. \A j \in DOMAIN clusters : /\ block(j).list = t + 1 /\ block(j).cluster = j
                                          /\ IsBlock(block(j)) /\ block(j).list - 1 \in Range(chosen)
          <5>1. ASSUME NEW j \in DOMAIN clusters
                PROVE  /\ block(j).list = t + 1 /\ block(j).cluster = j
                       /\ IsBlock(block(j)) /\ block(j).list - 1 \in Range(chosen)
            <6>1. block(j).list = t + 1 /\ block(j).cluster = j
              OBVIOUS
            <6>2. (t + 1) - 1 = t
              BY <2>3 DEF Terms
            <6>3. t \in Range(chosen)
              BY <2>4 DEF Range
            <6> HIDE DEF block, t
            <6>4. IsBlock(block(j))
              BY <4>1, <6>1 DEF IsBlock
            <6> QED
              BY <6>1, <6>2, <6>3, <6>4
          <5> QED
            BY <5>1
        <4> HIDE DEF new, block, clusters, t
        <4>6. /\ Range(candidates') = C \union Range(new)
              /\ candidates' \in Seq(Range(candidates'))
          BY <2>2, <4>2, <4>3, <4>4, OneAfterAnother
        <4> QED
          BY <2>2, <4>4, <4>5, <4>6
      <3> QED
        BY <3>1, <3>2
    <2>7. ASSUME NEW i \in 1 .. n + 1, chosen[i] < Len(lists), NEW j \in DOMAIN lists[chosen[i] + 1]
          PROVE  \E b \in Range(candidates') : b.list = chosen[i] + 1 /\ b.cluster = j
      <3>1. CASE i \in 1 .. n
        <4>1. PICK b \in C : b.list = chosen[i] + 1 /\ b.cluster = j
          BY <2>2, <2>7, <3>1
        <4> QED
          BY <2>6, <4>1
      <3>2. CASE i = n + 1
        <4>1. chosen[i] = t
          BY <2>4, <3>2
        <4> HIDE DEF t
        <4> QED
          BY <2>6, <2>7, <4>1
      <3> QED
        BY <2>4, <3>1, <3>2
    <2> HIDE DEF C, n, t
    <2>8. \A b : IsBlock(b)' = IsBlock(b)
      BY <1>1, <2>1, IndexSteady
    <2>9. /\ \A b \in Range(candidates') : IsBlock(b)' /\ b.list - 1 \in Range(chosen')
          /\ \A i \in 1 .. Len(chosen') - Len(cuts') : chosen'[i] < Len(lists') =>
               \A j \in DOMAIN lists'[chosen'[i] + 1] :
                 \E b \in Range(candidates') : b.list = chosen'[i] + 1 /\ b.cluster = j
      <3>1. \A b \in Range(candidates') : IsBlock(b)' /\ b.list - 1 \in Range(chosen')
        BY <2>1, <2>6, <2>8
      <3>2. Len(chosen') - Len(cuts') = n + 1 /\ UNCHANGED <<chosen, lists>>
        BY <2>1, <2>4
      <3>3. \A i \in 1 .. n + 1 : chosen[i] < Len(lists) =>
              \A j \in DOMAIN lists[chosen[i] + 1] :
                \E b \in Range(candidates') : b.list = chosen[i] + 1 /\ b.cluster = j
        BY <2>7
      <3> QED
        BY <3>1, <3>2, <3>3
    <2> QED
      BY <2>1, <2>2, <2>6, <2>9 DEF BlocksInv, Ranking, Taking, SearchedBlocks
  <1>7. CASE SelectBlocks
    <2>1. /\ pc = "collect" /\ cuts = <<>> /\ taken' \in BestBlocks(asked.budget)
          /\ blocks' = taken' /\ pc' = "score"
          /\ UNCHANGED <<lists, visited, chosen, cuts, docs, asked, candidates>>
      BY <1>7 DEF SelectBlocks, indexVars, listVars, callerVars
    <2>2. docs = <<>> /\ visited = {}
      BY <2>1 DEF ListInv, BlocksInv
    <2>3. taken' \in Seq(Range(candidates))
      BY <2>1, BestAreRanked DEF BlocksInv, Ranking
    <2>4. BestBlocks(asked.budget)' = BestBlocks(asked.budget)
      BY <2>1 DEF BestBlocks
    <2>5. /\ Len(taken') - Len(blocks') = 0 /\ Len(blocks') <= Len(taken')
          /\ \A i \in 1 .. Len(blocks') : blocks'[i] = taken'[Len(taken') - Len(blocks') + i]
      BY <2>1, <2>3
    <2>6. DocsOfFirst(0)' = {} /\ visited' \union Range(docs') = {}
      <3>1. 1 .. 0 = {}
        OBVIOUS
      <3> QED
        BY <2>1, <2>2, <3>1 DEF DocsOfFirst, Range
    <2>7. visited' \union Range(docs') = DocsOfFirst(Len(taken) - Len(blocks))'
      BY <2>5, <2>6 DEF DocsOfFirst
    <2>8. \A b : IsBlock(b)' = IsBlock(b)
      BY <1>1, <2>1, IndexSteady
    <2>9. Ranking /\ ~SearchedBlocks' /\ pc' # "collect"
      BY <2>1 DEF Ranking, SearchedBlocks
    <2> QED
      BY <2>1, <2>3, <2>4, <2>5, <2>7, <2>8, <2>9 DEF BlocksInv
  <1>8. CASE NextBlock \/ ScoreDoc \/ FinishBudget
    <2>1. /\ pc = "score" /\ pc' \in {"score", "idle"}
          /\ UNCHANGED <<lists, chosen, cuts, asked, candidates, taken>>
      BY <1>8 DEF NextBlock, ScoreDoc, FinishBudget, indexVars, callerVars, blockVars
    <2>2. /\ (\A n : BestBlocks(n)' = BestBlocks(n)) /\ \A n : DocsOfFirst(n)' = DocsOfFirst(n)
          /\ \A b : IsBlock(b)' = IsBlock(b)
      BY <1>1, <2>1, BlocksSteady, IndexSteady
    <2> DEFINE C == Range(candidates)
               n == Len(taken) - Len(blocks)
    <2>3. /\ taken \in BestBlocks(asked.budget) /\ taken \in Seq(C) /\ blocks \in Seq(C)
          /\ Len(blocks) <= Len(taken)
          /\ \A i \in 1 .. Len(blocks) : blocks[i] = taken[Len(taken) - Len(blocks) + i]
          /\ visited \union Range(docs) = DocsOfFirst(n)
      BY <2>1 DEF BlocksInv, Taking
    <2>4. /\ blocks' \in Seq(C) /\ Len(blocks') <= Len(taken)
          /\ \A i \in 1 .. Len(blocks') : blocks'[i] = taken[Len(taken) - Len(blocks') + i]
          /\ visited' \union Range(docs') = DocsOfFirst(Len(taken) - Len(blocks'))
          /\ SearchedBlocks' => blocks' = <<>>
      <3>1. CASE NextBlock
        <4>1. /\ docs = <<>> /\ blocks # <<>> /\ docs' = DocsOf(Head(blocks))
              /\ blocks' = Tail(blocks) /\ UNCHANGED visited /\ pc' = "score"
          BY <2>1, <3>1 DEF NextBlock
        <4> HIDE DEF C
        <4>2. PICK v : v = Tail(blocks)
          OBVIOUS
        <4>3. /\ v \in Seq(C) /\ Len(v) = Len(blocks) - 1 /\ Len(v) < Len(taken) /\ Len(v) \in Nat
              /\ \A i \in 1 .. Len(v) : v[i] = taken[Len(taken) - Len(v) + i]
              /\ Head(blocks) = taken[Len(taken) - Len(v)]
          BY <2>3, <4>1, <4>2, TailOfSuffix
        <4>4. n \in Nat /\ Len(taken) - Len(v) = n + 1
          BY <2>3, <4>3
        <4>5. docs' = DocsOf(taken[n + 1]) /\ docs' \in Seq(Docs)
          BY <2>1, <4>1, <4>3, <4>4, NextBlockDocs
        <4> HIDE DEF n
        <4>6. Range(docs') \subseteq Docs
          <5>1. \A i \in DOMAIN docs' : docs'[i] \in Docs
            BY <4>5
          <5> QED
            BY <5>1 DEF Range
        <4>7. DocsOfFirst(n + 1) = DocsOfFirst(n) \union Range(docs')
          BY <4>4, <4>5, <4>6, OneMoreBlock
        <4>8. visited = DocsOfFirst(n)
          <5>1. Range(docs) = {}
            BY <4>1 DEF Range
          <5> QED
            BY <2>3, <5>1
        <4>9. ~SearchedBlocks'
          BY <4>1 DEF SearchedBlocks
        <4>10. visited' \union Range(docs') = DocsOfFirst(Len(taken) - Len(v))
          BY <4>1, <4>4, <4>7, <4>8
        <4>11. Len(v) <= Len(taken)
          BY <2>3, <4>3
        <4> QED
          BY <4>1, <4>2, <4>3, <4>9, <4>10, <4>11
      <3>2. CASE ScoreDoc
        <4>1. /\ docs # <<>> /\ docs' = Tail(docs) /\ UNCHANGED blocks /\ pc' = "score"
              /\ visited' = visited \union {Head(docs)}
          BY <2>1, <3>2 DEF ScoreDoc, blockVars
        <4>2. docs \in Seq(Docs)
          BY DEF ListInv
        <4>3. Range(docs) = {Head(docs)} \union Range(docs')
          BY <4>1, <4>2, HeadAndTail
        <4>4. ~SearchedBlocks'
          BY <4>1 DEF SearchedBlocks
        <4> HIDE DEF n
        <4>5. visited' \union Range(docs') = DocsOfFirst(n)
          BY <2>3, <4>1, <4>3
        <4> QED
          BY <2>3, <4>1, <4>4, <4>5 DEF n
      <3>3. CASE FinishBudget
        <4>1. UNCHANGED <<visited, docs, blocks>> /\ blocks = <<>>
          BY <3>3 DEF FinishBudget, listVars, blockVars
        <4> QED
          BY <2>3, <4>1
      <3> QED
        BY <1>8, <3>1, <3>2, <3>3
    <2>5. visited' \union Range(docs') = DocsOfFirst(Len(taken) - Len(blocks))'
      BY <1>1, <2>1, <2>4 DEF DocsOfFirst, Docs, DocsOf
    <2>6. Ranking /\ pc' # "collect"
      BY <2>1 DEF Ranking
    <2>7. /\ candidates \in Seq(C) /\ asked.budget \in Nat \ {0}
          /\ \A b \in C : IsBlock(b) /\ b.list - 1 \in Range(chosen)
          /\ \A i \in 1 .. Len(chosen) - Len(cuts) : chosen[i] < Len(lists) =>
               \A j \in DOMAIN lists[chosen[i] + 1] :
                 \E b \in C : b.list = chosen[i] + 1 /\ b.cluster = j
      BY <2>6 DEF BlocksInv
    <2>8. taken \in BestBlocks(asked.budget)'
      BY <2>1, <2>2, <2>3 DEF BestBlocks
    <2> QED
      BY <2>1, <2>2, <2>3, <2>4, <2>5, <2>6, <2>7, <2>8 DEF BlocksInv
  <1> QED
    BY <1>2, <1>3, <1>4, <1>5, <1>6, <1>7, <1>8, Steps

-----------------------------------------------------------------------------
(* What follows.                                                            *)

(* The invariant of the search: building, in memory or by budget.           *)
SearchInv == IndexInv /\ CallInv /\ CutsInv /\ ListInv /\ HeapInv /\ BlocksInv

(* It holds of an index that was just given its corpus.                     *)
LEMMA SearchStarts == DiskInit => SearchInv
  <1> SUFFICES ASSUME DiskInit PROVE SearchInv
    OBVIOUS
  <1> USE DEF DiskInit, QuantizedInit, Init
  <1>1. /\ <<>> \in Seq(PostedLists(rows, param)) /\ <<>> \in Seq(Terms) /\ <<>> \in Seq(Docs)
        /\ <<>> \in Seq(DOMAIN <<>>) /\ <<>> \in Seq(Range(<<>>))
        /\ Len(<<>>) = 0 /\ DOMAIN <<>> = {} /\ Range(<<>>) = {} /\ 1 .. 0 = {}
    BY DEF Range
  <1>2. QueryTerms(NoCall) = {} /\ ~RunsExact(NoCall) /\ NoCall.k \in Nat \ {0} /\ NoCall.ids = {}
    BY NothingIsACall DEF NoCall
  <1>3. IndexInv
    BY <1>1, DimAssumption DEF IndexInv
  <1>4. CallInv
    BY <1>1 DEF CallInv
  <1>5. CutsInv
    BY <1>1, <1>2 DEF CutsInv
  <1>6. ListInv
    BY <1>1 DEF ListInv
  <1>7. HeapInv
    <2>1. IsTop(EmptyBag, ScoreOf, NoCall.k, {})
      BY <1>2, NoneIsTop
    <2>2. visited \intersect NoCall.ids = {}
      BY <1>2
    <2> HIDE DEF NoCall
    <2>3. IsTop(result, ScoreOf, call.k, visited \intersect call.ids)
      BY <2>1, <2>2
    <2> QED
      BY <1>2, <2>3 DEF HeapInv
  <1>8. BlocksInv
    BY <1>1, <1>2 DEF BlocksInv, Ranking, Taking, SearchedBlocks
  <1> QED
    BY <1>3, <1>4, <1>5, <1>6, <1>7, <1>8 DEF SearchInv

(* It is about the search's own state.                                      *)
LEMMA SearchStutters == ASSUME SearchInv, UNCHANGED diskVars PROVE SearchInv'
  <1> USE DEF SearchInv, diskVars, quantizedVars, vars, indexVars, listVars, callerVars, blockVars
  <1>1. Docs' = Docs /\ ScoreOf' = ScoreOf
    BY ScoresStay
  <1>2. /\ \A n : BestBlocks(n)' = BestBlocks(n)
        /\ \A n : DocsOfFirst(n)' = DocsOfFirst(n)
        /\ \A b : IsBlock(b)' = IsBlock(b)
    BY BlocksSteady, IndexSteady
  <1>3. IndexInv' /\ CallInv' /\ CutsInv'
    BY DEF IndexInv, CallInv, CutsInv, Asked
  <1>4. ListInv'
    BY <1>1 DEF ListInv, Visiting
  <1>5. HeapInv'
    BY <1>1 DEF HeapInv
  <1>6. BlocksInv'
    <2>1. /\ UNCHANGED <<pc, lists, chosen, cuts, asked, candidates, taken, blocks, visited, docs>>
          /\ (SearchedBlocks' <=> SearchedBlocks)
      BY DEF SearchedBlocks
    <2>2. (Ranking' <=> Ranking) /\ (Taking' <=> Taking)
      BY <2>1 DEF Ranking, Taking
    <2>3. BlocksInv
      OBVIOUS
    <2>4. Taking => taken \in BestBlocks(asked.budget)'
      BY <2>3 DEF BlocksInv, BestBlocks
    <2>5. Taking => visited' \union Range(docs') = DocsOfFirst(Len(taken) - Len(blocks))'
      BY <2>3 DEF BlocksInv, DocsOfFirst, Docs, DocsOf
    <2> HIDE DEF SearchInv, diskVars, quantizedVars, vars, indexVars, listVars, callerVars, blockVars
    <2> QED
      BY <1>2, <2>1, <2>2, <2>3, <2>4, <2>5 DEF BlocksInv
  <1> QED
    BY <1>3, <1>4, <1>5, <1>6

(* For every corpus, parameters, quantizer and sequence of questions the    *)
(* invariant holds of build(), of single_query (seismic_index.cpp:229-272), *)
(* of the exact match and of block_budget_query                             *)
(* (disk_seismic_search.cpp:135-205).                                       *)
THEOREM SearchHolds == DiskSpec => []SearchInv
  <1>1. DiskInit => SearchInv
    BY SearchStarts
  <1>2. SearchInv /\ [DiskNext]_diskVars => SearchInv'
    <2> SUFFICES ASSUME SearchInv, [DiskNext]_diskVars PROVE SearchInv'
      OBVIOUS
    <2>1. CASE DiskNext
      BY <2>1, StepsKeepIndex, StepsKeepCall, StepsKeepCuts, StepsKeepList, StepsKeepHeap,
         StepsKeepBlocks DEF SearchInv
    <2>2. CASE UNCHANGED diskVars
      BY <2>2, SearchStutters
    <2> QED
      BY <2>1, <2>2
  <1> QED
    BY <1>1, <1>2, PTL DEF DiskSpec

(* An index has finitely many documents.                                    *)
LEMMA DocsAreFinite ==
  ASSUME IndexInv
  PROVE  IsFiniteSet(Docs) /\ \A D \in SUBSET Docs : IsFiniteSet(D) /\ Cardinality(D) \in Nat
  <1>1. Len(rows) \in Nat
    BY CorporaAreCorpora DEF IndexInv, IsCorpus
  <1>2. Docs \subseteq 0 .. Len(rows)
    BY <1>1 DEF Docs
  <1>3. ASSUME NEW D \in SUBSET Docs
        PROVE  IsFiniteSet(D) /\ Cardinality(D) \in Nat
    <2>1. D \subseteq 0 .. Len(rows)
      BY <1>2
    <2> QED
      BY <1>1, <2>1, AscendingAscends
  <1> QED
    BY <1>3

(* What a holder holds of documents of the index. *)
Held(h, D, k) ==
  /\ BagToSet(h) \subseteq Item /\ Size(h) <= k
  /\ \A x \in BagToSet(h) : x.doc \in D /\ x.score = Score(x.doc)
  /\ Cardinality(HeldDocs(h)) = Size(h)

(* A top k is held: k items at most, one per document, each with its        *)
(* document's score.                                                        *)
LEMMA TopIsHeld ==
  ASSUME SearchInv, NEW D \in SUBSET Docs, NEW h, IsTop(h, ScoreOf, call.k, D)
  PROVE  Held(h, D, call.k)
  <1>1. ScoreOf \in [Docs -> Nat] /\ call.k \in Nat \ {0} /\ IsFiniteSet(D) /\ Cardinality(D) \in Nat
    BY ScoresAreNatural, DocsAreFinite DEF SearchInv, IsCall
  <1>2. IsTopOf(h, ScoreOf, call.k, D, Docs)
    BY <1>1, TopIsTop
  <1>3. Cardinality(HeldDocs(h)) = Size(h) /\ Size(h) <= call.k
    BY <1>1, <1>2 DEF IsTopOf
  <1>4. ASSUME NEW x \in BagToSet(h)
        PROVE  x \in Item /\ x.doc \in D /\ x.score = Score(x.doc)
    <2>1. x \in [score : Nat, doc : Docs] /\ x.score = ScoreOf[x.doc] /\ x.doc \in HeldDocs(h)
      BY <1>2 DEF IsTopOf, HeldDocs
    <2>2. x.doc \in D /\ x.doc \in Docs
      BY <1>2, <2>1 DEF IsTopOf
    <2> QED
      BY <2>1, <2>2 DEF Item, ScoreOf
  <1> QED
    BY <1>3, <1>4 DEF Held

(* So are the selected documents of an exact match, which are no more than  *)
(* k.                                                                       *)
LEMMA AllAreHeld ==
  ASSUME SearchInv, NEW D \in SUBSET Docs, NEW h, Holds(h, ScoreOf, D), Cardinality(D) <= call.k
  PROVE  Held(h, D, call.k)
  <1>1. ScoreOf \in [Docs -> Nat] /\ IsFiniteSet(D)
    BY ScoresAreNatural, DocsAreFinite DEF SearchInv
  <1>2. Size(h) = Cardinality(D) /\ BagToSet(h) = ItemsOf(ScoreOf, D)
    BY <1>1, HolderSize
  <1>3. ASSUME NEW x \in BagToSet(h)
        PROVE  x \in Item /\ x.doc \in D /\ x.score = Score(x.doc)
    <2>1. PICK d \in D : x = ItemOf(ScoreOf, d)
      BY <1>2 DEF ItemsOf
    <2>2. d \in Docs /\ ScoreOf[d] \in Nat /\ ScoreOf[d] = Score(d)
      BY <1>1 DEF ScoreOf
    <2> QED
      BY <2>1, <2>2 DEF ItemOf, Item
  <1>4. HeldDocs(h) = D
    <2>1. \A d \in D : ItemOf(ScoreOf, d) \in BagToSet(h) /\ ItemOf(ScoreOf, d).doc = d
      BY <1>2 DEF ItemsOf, ItemOf
    <2> QED
      BY <1>3, <2>1 DEF HeldDocs
  <1> QED
    BY <1>2, <1>3, <1>4 DEF Held

(* What was returned last. *)
LEMMA ResultIsHeld ==
  ASSUME SearchInv, pc = "idle"
  PROVE  Held(result, call.ids \intersect Docs, call.k)
  <1>1. CASE RunsExact(call)
    <2> DEFINE D == call.ids \intersect Docs
    <2>1. Holds(result, ScoreOf, D) /\ D \in SUBSET Docs
      BY <1>1 DEF SearchInv, HeapInv
    <2>2. Cardinality(D) <= call.k
      <3>1. Cardinality(call.ids) <= call.k /\ IsFiniteSet(call.ids) /\ call.k \in Nat
        BY <1>1, ScoresAreNatural DEF RunsExact, SearchInv, IsCall
      <3>2. Cardinality(D) <= Cardinality(call.ids)
        BY <3>1, FS_Subset
      <3>3. Cardinality(D) \in Nat /\ Cardinality(call.ids) \in Nat
        BY <3>1, FS_Subset, FS_CardinalityType
      <3> QED
        BY <3>1, <3>2, <3>3
    <2> HIDE DEF D
    <2> QED
      BY <2>1, <2>2, AllAreHeld DEF D
  <1>2. CASE ~RunsExact(call)
    <2>1. IsTop(result, ScoreOf, call.k, visited \intersect call.ids) /\ visited \subseteq Docs
      BY <1>2 DEF SearchInv, HeapInv
    <2>2. Held(result, visited \intersect call.ids, call.k)
      <3>1. visited \intersect call.ids \in SUBSET Docs
        BY <2>1
      <3> QED
        BY <2>1, <3>1, TopIsHeld
    <2> QED
      BY <2>1, <2>2 DEF Held
  <1> QED
    BY <1>1, <1>2

(* And so is nothing.                                                       *)
LEMMA NothingIsHeld ==
  ASSUME SearchInv
  PROVE  Held(EmptyBag, {}, call.k)
  <1>1. call.k \in Nat \ {0}
    BY ScoresAreNatural DEF SearchInv, IsCall
  <1>2. IsTop(EmptyBag, ScoreOf, call.k, {})
    BY <1>1, NoneIsTop
  <1> QED
    BY <1>2, TopIsHeld

(* The invariant implies the type invariant.                                *)
LEMMA SearchTyped == SearchInv => TypeOK
  <1> SUFFICES ASSUME SearchInv PROVE TypeOK
    OBVIOUS
  <1>1. Len(lists) <= Dim
    BY DimAssumption DEF SearchInv, IndexInv
  <1>2. \A t \in DOMAIN lists : \A i \in DOMAIN lists[t] : Range(lists[t][i].docs) \subseteq Docs
    <2>1. ASSUME NEW t \in DOMAIN lists, NEW i \in DOMAIN lists[t]
          PROVE  Range(lists[t][i].docs) \subseteq Docs
      BY ClusterDocs DEF SearchInv
    <2> QED
      BY <2>1
  <1>3. dense \in [Terms -> Nat]
    <2>1. IsVector(Scattered(call), sq.type)
      BY CallVector DEF SearchInv, CallInv, IndexInv
    <2> QED
      BY <2>1 DEF SearchInv, CallInv, IsVector
  <1>4. Range(chosen) \subseteq Terms /\ Range(cuts) \subseteq Range(chosen)
    <2>1. /\ chosen \in Seq(Terms) /\ cuts \in Seq(Terms) /\ Len(cuts) <= Len(chosen)
          /\ \A i \in 1 .. Len(cuts) : cuts[i] = chosen[Len(chosen) - Len(cuts) + i]
      BY DEF SearchInv, CutsInv
    <2>2. ASSUME NEW i \in DOMAIN cuts
          PROVE  cuts[i] \in Range(chosen)
      <3>1. Len(chosen) - Len(cuts) + i \in DOMAIN chosen /\ i \in 1 .. Len(cuts)
        BY <2>1
      <3> QED
        BY <2>1, <3>1 DEF Range
    <2>3. \A i \in DOMAIN chosen : chosen[i] \in Terms
      BY <2>1
    <2> QED
      BY <2>2, <2>3 DEF Range
  <1>5. Range(order) \subseteq DOMAIN sums /\ Range(docs) \subseteq Docs
    <2>1. order \in Seq(DOMAIN sums) /\ docs \in Seq(Docs)
      BY DEF SearchInv, ListInv
    <2>2. (\A i \in DOMAIN order : order[i] \in DOMAIN sums) /\ \A i \in DOMAIN docs : docs[i] \in Docs
      BY <2>1, SequenceElement
    <2> QED
      BY <2>2 DEF Range
  <1>6. BagToSet(heap) \subseteq Item /\ Size(heap) <= call.k
    <2>1. CASE pc \in {"idle", "build"}
      BY <2>1, NothingIsHeld DEF SearchInv, HeapInv, Held
    <2>2. CASE pc \notin {"idle", "build"}
      <3>1. IsTop(heap, ScoreOf, call.k, visited \intersect call.ids) /\ visited \subseteq Docs
        BY <2>2 DEF SearchInv, HeapInv
      <3>2. visited \intersect call.ids \in SUBSET Docs
        BY <3>1
      <3> QED
        BY <3>1, <3>2, TopIsHeld DEF Held
    <2> QED
      BY <2>1, <2>2
  <1>7. BagToSet(result) \subseteq Item /\ Size(result) <= call.k
    <2>1. CASE pc = "idle"
      BY <2>1, ResultIsHeld DEF Held
    <2>2. CASE pc # "idle"
      BY <2>2, NothingIsHeld DEF SearchInv, HeapInv, Held
    <2> QED
      BY <2>1, <2>2
  <1>8. first \in BOOLEAN /\ visited \subseteq Docs
    BY DEF SearchInv, ListInv, HeapInv
  <1> QED
    BY <1>1, <1>2, <1>3, <1>4, <1>5, <1>6, <1>7, <1>8 DEF TypeOK

(* For every corpus, parameters, quantizer and questions: lists and         *)
(* clusters stay within the index's dimension and documents, the dense      *)
(* vector has a weight per term, and neither heap nor result ever holds     *)
(* more than the k asked for.                                               *)
THEOREM TypesHold == DiskSpec => []TypeOK
  BY SearchHolds, SearchTyped, PTL

(* The rows and the query of a search are codes of what was given and asked. *)
LEMMA CodesOfTheCaller ==
  ASSUME SearchInv, call # NoCall, NEW d \in Docs
  PROVE  LET r == QueryQuantizer(sq, asked)
         IN  /\ IsRange(sq) /\ IsRange(r) /\ r.type = sq.type
             /\ IsRow(Row(weights, d)) /\ IsRow(QueryRow(asked))
             /\ Row(rows, d) = EncodedRow(sq, Row(weights, d))
             /\ QueryRow(call) = EncodedRow(r, QueryRow(asked))
  <1> DEFINE r == QueryQuantizer(sq, asked)
  <1>1. Asked(call, asked) /\ sq \in Quantizers /\ weights \in Given /\ rows = EncodedCorpus(sq, weights)
    BY DEF SearchInv, CallInv, IndexInv
  <1>2. IsRange(sq) /\ IsRange(r) /\ r.type = sq.type
    BY <1>1, QuantizersAreRanges DEF Asked
  <1>3. IsCorpus(rows) /\ d + 1 \in DOMAIN rows
    BY CorporaAreCorpora DEF SearchInv, IndexInv, IsCorpus, Docs
  <1>4. Row(rows, d) = EncodedRow(sq, Row(weights, d)) /\ d + 1 \in DOMAIN weights
    BY <1>1, <1>3 DEF EncodedCorpus, EncodedRow, Row
  <1>5. IsRow(Row(weights, d))
    <2>1. DOMAIN Row(weights, d) = DOMAIN Row(rows, d)
      BY <1>4 DEF EncodedRow
    <2>2. DOMAIN Row(rows, d) \subseteq Terms
      BY <1>3 DEF IsCorpus, IsRow, Row
    <2>3. \A t \in DOMAIN Row(weights, d) : Row(weights, d)[t] \in Nat
      BY <1>1, <1>4, GivenAssumption DEF Row
    <2> QED
      BY <2>1, <2>2, <2>3 DEF IsRow
  <1>6. /\ IsCall(call) /\ DOMAIN call.query = DOMAIN asked.query
        /\ \A i \in DOMAIN call.query :
             /\ call.query[i].term = asked.query[i].term
             /\ asked.query[i].weight \in Nat
             /\ call.query[i].weight = Encode(r, asked.query[i].weight)
    BY <1>1, AskedIsACall
  <1>7. QueryTerms(asked) = QueryTerms(call) /\ QueryTerms(call) \subseteq Terms
    BY <1>6, WeightsOfCall DEF QueryTerms
  <1>8. ASSUME NEW t \in QueryTerms(call)
        PROVE  Weight(asked, t) \in Nat /\ Weight(call, t) = Encode(r, Weight(asked, t))
    <2>1. PICK i \in DOMAIN call.query : call.query[i].term = t
      BY DEF QueryTerms
    <2>2. Weight(call, t) = call.query[i].weight
      BY <1>6, <2>1, WeightsOfCall
    <2> DEFINE j == CHOOSE j \in DOMAIN asked.query : asked.query[j].term = t
    <2>3. j \in DOMAIN asked.query /\ asked.query[j].term = t
      BY <1>6, <2>1
    <2>4. Weight(asked, t) = asked.query[j].weight
      BY DEF Weight
    <2> HIDE DEF j
    <2>5. j = i
      BY <1>6, <2>1, <2>3 DEF IsCall
    <2> HIDE DEF r
    <2> QED
      BY <1>6, <2>1, <2>2, <2>4, <2>5
  <1> HIDE DEF r
  <1>9. QueryRow(call) = EncodedRow(r, QueryRow(asked))
    BY <1>7, <1>8 DEF QueryRow, EncodedRow
  <1>10. IsRow(QueryRow(asked))
    BY <1>7, <1>8 DEF QueryRow, IsRow
  <1> QED
    BY <1>2, <1>4, <1>5, <1>9, <1>10 DEF r

(* What a document's codes score, decoded over ranges that start at 0, is   *)
(* what the caller's weights do, give or take their rounding.               *)
LEMMA DecodedScoreIsNear ==
  ASSUME SearchInv, call # NoCall, FromZero, NEW d \in Docs
  PROVE  LET decoded == decode_dot_product(Score(d))
             exact   == ClampedScore(d) * Unit
         IN  /\ decoded \in Nat /\ exact \in Nat /\ RoundingError(d) \in Nat
             /\ decoded <= exact + RoundingError(d)
             /\ exact <= decoded + RoundingError(d)
  <1> DEFINE r == QueryQuantizer(sq, asked)
             w == Row(weights, d)
             q == QueryRow(asked)
             m == MaxCode[sq.type]
  <1>1. /\ IsRange(sq) /\ IsRange(r) /\ r.type = sq.type
        /\ IsRow(w) /\ IsRow(q)
        /\ Row(rows, d) = EncodedRow(sq, w) /\ QueryRow(call) = EncodedRow(r, q)
    BY CodesOfTheCaller
  <1>2. Score(d) = Inner(EncodedRow(sq, w), EncodedRow(r, q)) /\ Score(d) \in Nat
    <2>1. Score(d) \in Nat
      BY ScoresAreNatural DEF SearchInv, ScoreOf
    <2> HIDE DEF w, q, r
    <2> QED
      BY <1>1, <2>1 DEF Score
  <1>3. ClampedScore(d) = Inner(Clamped(sq, w), Clamped(r, q))
    BY DEF ClampedScore
  <1>4. CASE sq.type = "float"
    <2>1. EncodedRow(sq, w) = Clamped(sq, w) /\ EncodedRow(r, q) = Clamped(r, q)
      BY <1>1, <1>4 DEF EncodedRow, Clamped, Encode
    <2>2. ClampedScore(d) = Score(d)
      BY <1>2, <1>3, <2>1
    <2>3. Unit = 1 /\ RoundingError(d) = 0 /\ decode_dot_product(Score(d)) = Score(d)
      BY <1>4 DEF Unit, RoundingError, decode_dot_product
    <2> QED
      BY <1>2, <2>2, <2>3
  <1>5. CASE sq.type # "float"
    <2>1. sq.vmin = 0 /\ r.vmin = 0
      BY DEF FromZero
    <2> DEFINE e == RowSlack(sq, w, r, q)
               u == 4 * Inner(EncodedRow(sq, w), EncodedRow(r, q)) * Extent(sq) * Extent(r)
               v == Inner(Clamped(sq, w), Clamped(r, q)) * (4 * m * m)
    <2>2. u \in Nat /\ v \in Nat /\ e \in Nat /\ u <= v + e /\ v <= u + e
      <3> HIDE DEF w, q, r
      <3> QED
        BY <1>1, <1>5, <2>1, DecodedIsNear
    <2>3. RoundingError(d) = e
      BY <1>5 DEF RoundingError, RowSlack, Slack
    <2>4. decode_dot_product(Score(d)) = u
      BY <1>2, <1>5 DEF decode_dot_product
    <2>5. ClampedScore(d) * Unit = v
      BY <1>3, <1>5 DEF Unit
    <2> HIDE DEF u, v, e
    <2> QED
      BY <2>2, <2>3, <2>4, <2>5
  <1> QED
    BY <1>4, <1>5

(* The invariant implies that answers are sound.                            *)
LEMMA AnswersAreSound == SearchInv => SoundAnswer
  <1> SUFFICES ASSUME SearchInv PROVE SoundAnswer
    OBVIOUS
  <1>1. SoundResult
    <2> SUFFICES ASSUME pc = "idle"
                 PROVE  /\ \A x \in BagToSet(result) : x.doc \in call.ids /\ x.score = Score(x.doc)
                        /\ Cardinality(Returned) = Size(result)
      BY DEF SoundResult
    <2>1. Held(result, call.ids \intersect Docs, call.k) /\ Returned = HeldDocs(result)
      BY ResultIsHeld DEF Returned, HeldDocs
    <2> QED
      BY <2>1 DEF Held
  <1>2. ASSUME pc = "idle", call # NoCall, FromZero, NEW x \in BagToSet(result)
        PROVE  LET decoded == decode_dot_product(x.score)
                   exact   == ClampedScore(x.doc) * Unit
               IN  /\ decoded <= exact + RoundingError(x.doc)
                   /\ decoded >= exact - RoundingError(x.doc)
    <2> DEFINE d == x.doc
    <2>1. d \in Docs /\ x.score = Score(d)
      BY <1>2, ResultIsHeld DEF Held
    <2>2. /\ decode_dot_product(Score(d)) \in Nat /\ RoundingError(d) \in Nat
          /\ ClampedScore(d) * Unit \in Nat
          /\ decode_dot_product(Score(d)) <= ClampedScore(d) * Unit + RoundingError(d)
          /\ ClampedScore(d) * Unit <= decode_dot_product(Score(d)) + RoundingError(d)
      BY <1>2, <2>1, DecodedScoreIsNear
    <2> HIDE DEF d
    <2>3. /\ decode_dot_product(x.score) <= ClampedScore(d) * Unit + RoundingError(d)
          /\ decode_dot_product(x.score) >= ClampedScore(d) * Unit - RoundingError(d)
      BY <2>1, <2>2
    <2> QED
      BY <2>3 DEF d
  <1> QED
    BY <1>1, <1>2 DEF SoundAnswer

(* What a search returns -- exact match, in memory or by budget, of floats  *)
(* or of codes -- are selected documents, each once however many lists it   *)
(* is in, with the scores their codes have under whatever kernel the index  *)
(* is compiled for (seismic_index.cpp:104-115); and decoded over ranges     *)
(* that start at 0 these are the scores of the caller's weights give or     *)
(* take their rounding ("approximate original scale",                       *)
(* scalar_quantizer.h:83-93).                                               *)
THEOREM AnswersHold == DiskSpec => []SoundAnswer
  BY SearchHolds, AnswersAreSound, PTL

(* A top k by the holder is one by what search() promises of its answer.    *)
LEMMA TopKOfThem ==
  ASSUME SearchInv, NEW D \in SUBSET Docs, IsTop(result, ScoreOf, call.k, D)
  PROVE  IsTopKOf(D)
  <1>1. ScoreOf \in [Docs -> Nat] /\ call.k \in Nat \ {0}
    BY ScoresAreNatural DEF SearchInv, IsCall
  <1>2. IsFiniteSet(D) /\ Cardinality(D) \in Nat
    BY DocsAreFinite DEF SearchInv
  <1>3. Held(result, D, call.k) /\ Returned = HeldDocs(result)
    BY TopIsHeld DEF Returned, HeldDocs
  <1>4. PICK H \in SUBSET D : Holds(result, ScoreOf, H) /\ AreBest(H, ScoreOf, call.k, D)
    BY DEF IsTop
  <1>5. IsFiniteSet(H) /\ Cardinality(H) \in Nat /\ Cardinality(H) <= Cardinality(D)
    BY <1>2, FS_Subset, FS_CardinalityType
  <1>6. BagToSet(result) = ItemsOf(ScoreOf, H)
    BY <1>4, <1>5, HolderSize
  <1>7. Returned = H
    <2>1. \A x \in BagToSet(result) : x.doc \in H
      BY <1>6 DEF ItemsOf, ItemOf
    <2>2. \A e \in H : ItemOf(ScoreOf, e) \in BagToSet(result) /\ ItemOf(ScoreOf, e).doc = e
      BY <1>6 DEF ItemsOf, ItemOf
    <2> QED
      BY <2>1, <2>2 DEF Returned
  <1>8. Cardinality(H) = Min({call.k, Cardinality(D)})
    <2>1. CASE H = D /\ Cardinality(H) <= call.k
      BY <1>1, <1>2, <2>1, LeastOfTwo
    <2>2. CASE Cardinality(H) = call.k
      BY <1>1, <1>2, <1>5, <2>2, LeastOfTwo
    <2> QED
      BY <1>4, <2>1, <2>2 DEF AreBest
  <1>9. ASSUME NEW d \in D \ Returned, NEW x \in BagToSet(result)
        PROVE  Score(d) <= x.score
    <2>1. H # D
      BY <1>7, <1>9
    <2>2. PICK e \in H : x = ItemOf(ScoreOf, e)
      BY <1>6, <1>9 DEF ItemsOf
    <2>3. ScoreOf[d] <= ScoreOf[e]
      BY <1>4, <1>7, <2>1, <2>2 DEF AreBest
    <2>4. ScoreOf[d] = Score(d)
      BY DEF ScoreOf
    <2> QED
      BY <2>2, <2>3, <2>4 DEF ItemOf
  <1> QED
    BY <1>3, <1>7, <1>8, <1>9 DEF IsTopKOf, Held

(* After a search what was visited is all there is in the blocks the budget *)
(* allowed.                                                                 *)
LEMMA BudgetIsVisited ==
  ASSUME SearchInv, SearchedBlocks
  PROVE  /\ visited \intersect call.ids = Among(Range(taken))
         /\ taken \in BestBlocks(asked.budget) /\ taken \in Seq(Range(candidates))
         /\ asked.budget \in Nat \ {0} /\ candidates \in Seq(Range(candidates))
         /\ \A b \in Range(candidates) : IsBlock(b) /\ b.list - 1 \in Range(chosen)
  <1>1. /\ taken \in BestBlocks(asked.budget) /\ taken \in Seq(Range(candidates))
        /\ asked.budget \in Nat \ {0} /\ candidates \in Seq(Range(candidates))
        /\ \A b \in Range(candidates) : IsBlock(b) /\ b.list - 1 \in Range(chosen)
        /\ blocks = <<>> /\ visited \union Range(docs) = DocsOfFirst(Len(taken) - Len(blocks))
    BY DEF SearchInv, BlocksInv, Ranking, Taking
  <1>2. docs = <<>> /\ Range(<<>>) = {} /\ Len(<<>>) = 0
    BY DEF SearchInv, ListInv, SearchedBlocks, Range
  <1>3. Len(taken) \in Nat /\ DOMAIN taken = 1 .. Len(taken)
    BY <1>1
  <1>4. visited = DocsOfFirst(Len(taken))
    <2>1. Len(blocks) = 0 /\ Range(docs) = {}
      BY <1>1, <1>2
    <2>2. Len(taken) - Len(blocks) = Len(taken)
      BY <1>3, <2>1
    <2> QED
      BY <1>1, <2>1, <2>2
  <1>5. ASSUME NEW i \in DOMAIN taken
        PROVE  Range(DocsOf(taken[i])) \subseteq Docs
    <2>1. taken[i] \in Range(candidates)
      BY <1>1, <1>5, SequenceElement
    <2>2. IsBlock(taken[i])
      BY <1>1, <2>1
    <2> QED
      BY <2>2, ClusterDocs DEF SearchInv, IsBlock, DocsOf
  <1>6. DocsOfFirst(Len(taken)) = {d \in Docs : \E b \in Range(taken) : d \in Range(DocsOf(b))}
    BY <1>3 DEF DocsOfFirst, Range
  <1>7. \A b \in Range(taken) : Range(DocsOf(b)) \subseteq Docs
    BY <1>5 DEF Range
  <1> QED
    BY <1>1, <1>4, <1>6, <1>7 DEF Among

(* With nothing pruned and no term cut, the lists visited have what matches.*)
LEMMA AllThatMatch ==
  ASSUME SearchInv, SearchedBlocks, Unpruned
  PROVE  Among(Range(candidates)) = Matching
  <1>1. /\ rows \in Corpora /\ IsCorpus(rows) /\ pc = "idle" /\ ~RunsExact(call)
        /\ Len(lists) \in Nat /\ DOMAIN lists = 1 .. Len(lists) /\ Len(lists) = Dim
    BY CorporaAreCorpora DEF SearchInv, IndexInv, SearchedBlocks, Unpruned
  <1>2. cuts = <<>> /\ chosen \in Seq(Terms) /\ Range(chosen) = QueryTerms(call) /\ QueryTerms(call) \subseteq Terms
    <2>1. /\ cuts = <<>> /\ chosen \in Seq(Terms)
          /\ Range(chosen) \subseteq QueryTerms(call) /\ QueryTerms(call) \subseteq Range(chosen)
      BY <1>1 DEF SearchInv, CutsInv, Unpruned
    <2>2. \A i \in DOMAIN chosen : chosen[i] \in Terms
      BY <2>1, SequenceElement
    <2> QED
      BY <2>1, <2>2 DEF Range
  <1>3. ASSUME NEW d \in Among(Range(candidates))
        PROVE  d \in Matching
    <2>1. PICK b \in Range(candidates) : d \in Range(DocsOf(b))
      BY <1>3 DEF Among
    <2>2. IsBlock(b) /\ b.list - 1 \in QueryTerms(call)
      BY <1>2, BudgetIsVisited
    <2>3. d \in Having(rows, b.list - 1) /\ d \in Docs
      BY <2>1, <2>2, ClusterDocs DEF SearchInv, IsBlock, DocsOf
    <2>4. b.list - 1 \in DOMAIN Row(rows, d)
      BY <2>3 DEF Having
    <2> QED
      BY <1>3, <2>2, <2>3, <2>4 DEF Matching, Among
  <1>4. ASSUME NEW d \in Matching
        PROVE  d \in Among(Range(candidates))
    <2>1. PICK t \in QueryTerms(call) : t \in DOMAIN Row(rows, d)
      BY <1>4 DEF Matching
    <2>2. d \in Docs /\ d \in call.ids /\ d \in Having(rows, t)
      BY <1>4, <2>1 DEF Matching, Having, Docs
    <2>3. t \in Terms /\ t \in Nat /\ t < Dim /\ Dim \in Nat
      BY <1>2, DimAssumption DEF Terms
    <2>4. t < Len(lists) /\ t + 1 \in DOMAIN lists /\ (t + 1) - 1 = t
      BY <1>1, <2>3
    <2>5. IsClustering(lists[t + 1], rows, t, param)
      BY <2>4 DEF SearchInv, IndexInv
    <2>6. PICK j \in DOMAIN lists[t + 1] : d \in Range(lists[t + 1][j].docs)
      BY <2>2, <2>5 DEF IsClustering, Unpruned
    <2>7. PICK i \in 1 .. Len(chosen) : chosen[i] = t
      BY <1>2 DEF Range
    <2>8. i \in 1 .. Len(chosen) - Len(cuts)
      BY <1>2, <2>7
    <2>9. \E b \in Range(candidates) : b.list = chosen[i] + 1 /\ b.cluster = j
      BY <2>4, <2>6, <2>7, <2>8 DEF SearchInv, BlocksInv, Ranking
    <2>10. PICK b \in Range(candidates) : b.list = t + 1 /\ b.cluster = j
      BY <2>7, <2>9
    <2>11. d \in Range(DocsOf(b))
      BY <2>6, <2>10 DEF DocsOf
    <2> QED
      BY <2>2, <2>11 DEF Among
  <1> QED
    BY <1>3, <1>4

(* The invariant implies that search is exact within its budget.            *)
LEMMA BudgetIsExact == SearchInv => ExactWithinBudget
  <1> SUFFICES ASSUME SearchInv, SearchedBlocks PROVE
        /\ Len(taken) = Min({asked.budget, Len(candidates)})
        /\ IsTopKOf(Among(Range(taken)))
        /\ asked.budget >= Len(candidates) => IsTopKOf(Among(Range(candidates)))
        /\ asked.budget >= Len(candidates) /\ Unpruned => IsTopKOf(Matching)
        /\ \A d \in Among(Range(candidates)) \ Returned : \A x \in BagToSet(result) :
             Score(d) > Score(x.doc) =>
               \A b \in Range(candidates) : \A a \in Range(taken) :
                 d \in Range(DocsOf(b)) => b.score <= a.score
    BY DEF ExactWithinBudget
  <1>1. /\ visited \intersect call.ids = Among(Range(taken))
        /\ taken \in BestBlocks(asked.budget) /\ taken \in Seq(Range(candidates))
        /\ asked.budget \in Nat /\ candidates \in Seq(Range(candidates))
        /\ \A b \in Range(candidates) : IsBlock(b)
    BY BudgetIsVisited
  <1>2. Len(candidates) \in Nat
    <2> DEFINE C == Range(candidates)
    <2>1. candidates \in Seq(C)
      BY <1>1
    <2> HIDE DEF C
    <2> QED
      BY <2>1
  <1>3. asked.budget >= Len(candidates) => taken = candidates
    BY <1>1 DEF BestBlocks
  <1>4. ~(asked.budget >= Len(candidates)) =>
          /\ Len(taken) = asked.budget
          /\ \A x \in Range(candidates) \ Range(taken) : \A y \in Range(taken) : x.score <= y.score
    <2>1. ASSUME ~(asked.budget >= Len(candidates))
          PROVE  /\ taken \in [1 .. asked.budget -> Range(candidates)]
                 /\ \A x \in Range(candidates) \ Range(taken) : \A y \in Range(taken) :
                      x.score <= y.score
      BY <1>1, <2>1 DEF BestBlocks, Arrangements
    <2> QED
      BY <1>1, <2>1, FunctionIsSequence
  <1>5. Len(taken) = Min({asked.budget, Len(candidates)})
    <2>1. CASE asked.budget >= Len(candidates)
      BY <1>1, <1>2, <1>3, <2>1, LeastOfTwo
    <2>2. CASE ~(asked.budget >= Len(candidates))
      BY <1>1, <1>2, <1>4, <2>2, LeastOfTwo
    <2> QED
      BY <2>1, <2>2
  <1>6. IsTopKOf(Among(Range(taken)))
    <2>1. IsTop(result, ScoreOf, call.k, visited \intersect call.ids) /\ visited \subseteq Docs
      BY DEF SearchInv, HeapInv, SearchedBlocks
    <2>2. visited \intersect call.ids \in SUBSET Docs
      BY <2>1
    <2> QED
      BY <1>1, <2>1, <2>2, TopKOfThem
  <1>7. asked.budget >= Len(candidates) /\ Unpruned => IsTopKOf(Matching)
    BY <1>3, <1>6, AllThatMatch
  <1>8. ASSUME NEW d \in Among(Range(candidates)) \ Returned, NEW x \in BagToSet(result),
               Score(d) > Score(x.doc),
               NEW b \in Range(candidates), NEW a \in Range(taken), d \in Range(DocsOf(b))
        PROVE  b.score <= a.score
    <2>1. b \notin Range(taken)
      <3> SUFFICES ASSUME b \in Range(taken) PROVE FALSE
        OBVIOUS
      <3>1. d \in Among(Range(taken)) \ Returned
        BY <1>8 DEF Among
      <3>2. Score(d) <= x.score /\ x.score = Score(x.doc) /\ x.doc \in Docs
        <4>1. x.doc \in Among(Range(taken))
          BY <1>6 DEF IsTopKOf, Returned
        <4>2. visited \subseteq Docs
          BY DEF SearchInv, HeapInv
        <4> QED
          BY <1>1, <1>6, <3>1, <4>1, <4>2 DEF IsTopKOf
      <3>3. d \in Docs
        BY <1>1, <1>8, ClusterDocs DEF SearchInv, IsBlock, DocsOf
      <3>4. Score(d) \in Nat /\ Score(x.doc) \in Nat
        BY <3>2, <3>3, ScoresAreNatural DEF SearchInv, ScoreOf
      <3> QED
        BY <1>8, <3>2, <3>4
    <2>2. ~(asked.budget >= Len(candidates))
      BY <1>3, <2>1
    <2> QED
      BY <1>4, <2>1, <2>2
  <1> QED
    BY <1>3, <1>5, <1>6, <1>7, <1>8

(* For every clustering and every budget: as many blocks are scored as the  *)
(* budget and the candidates allow, and the result is a top k of their      *)
(* documents; "once K' reaches the candidate-block count"                   *)
(* (disk_seismic_index_test.cpp:226) it is one of all documents of the      *)
(* lists visited, and of all that match if nothing is pruned or cut; and a  *)
(* document better than one returned is missed only if all its blocks rank  *)
(* no higher than any that was scored (disk_seismic_search.cpp:174-193).    *)
THEOREM BudgetsHold == DiskSpec => []ExactWithinBudget
  BY SearchHolds, BudgetIsExact, PTL

-----------------------------------------------------------------------------
(* What the search in memory passes over.                                   *)

(* A cluster whose summary had nothing left out scores no less than any of  *)
(* its documents: the search may pass it over on its summary's word         *)
(* (seismic_index.cpp:78-92, inverted_list_clusters.cpp:302-330).           *)
LEMMA SummaryCovers ==
  ASSUME NEW c, IsCorpus(c), NEW t, NEW p, NEW clusters, IsClustering(clusters, c, t, p),
         NEW q, IsCall(q), NEW i \in DOMAIN clusters
  PROVE  /\ SummaryScores(clusters, q)[i] \in Nat
         /\ p.alpha.num = p.alpha.den =>
              \A d \in Range(clusters[i].docs) :
                Inner(Row(c, d), QueryRow(q)) <= SummaryScores(clusters, q)[i]
  <1> DEFINE n         == Len(clusters)
             summaries == [j \in DOMAIN clusters |-> clusters[j].summary]
             s         == build_transpose(summaries)
             hits      == {h \in (DOMAIN q.query) \X (DOMAIN s.csc_cluster) :
                             /\ h[2] \in EntriesOf(s, q.query[h[1]].term)
                             /\ s.csc_cluster[h[2]] = i - 1}
             f         == [h \in hits |-> q.query[h[1]].weight * s.csc_value[h[2]]]
  <1>1. n \in Nat /\ i \in 1 .. n /\ DOMAIN clusters = 1 .. n
    BY DEF IsClustering
  <1>2. AreSummaries(summaries, n)
    <2>1. \A j \in 1 .. n : IsRow(summaries[j])
      BY <1>1 DEF IsClustering, IsSummary
    <2>2. DOMAIN summaries = 1 .. n /\ Len(summaries) = n
      BY <1>1
    <2> HIDE DEF summaries
    <2> QED
      BY <1>1, <2>1, <2>2 DEF AreSummaries, IsClustering
  <1>3. /\ s.n_clusters = n
        /\ IsFiniteSet(DOMAIN s.csc_cluster)
        /\ \A e \in DOMAIN s.csc_cluster : s.csc_value[e] \in Nat
        /\ \A u \in DOMAIN summaries[i] :
             \E e \in DOMAIN s.csc_cluster :
               /\ e \in EntriesOf(s, u)
               /\ s.csc_cluster[e] = i - 1
               /\ s.csc_value[e] = summaries[i][u]
    <2> HIDE DEF summaries
    <2> QED
      BY <1>1, <1>2, TransposeHasEach
  <1>4. SummaryScores(clusters, q)[i] = SumOf(f)
    <2>1. SummaryScores(clusters, q) = score_summaries_transposed(s, q.query)
      BY DEF SummaryScores
    <2> HIDE DEF s
    <2>2. score_summaries_transposed(s, q.query)[i] = SumOf(f)
      BY <1>1, <1>3 DEF score_summaries_transposed
    <2> QED
      BY <2>1, <2>2
  <1>5. /\ IsFiniteSet(DOMAIN q.query)
        /\ \A j \in DOMAIN q.query : q.query[j].weight \in Nat
    <2>1. \A j \in DOMAIN q.query : q.query[j] \in [term : Terms, weight : Nat]
      BY SequenceElement DEF IsCall
    <2> DEFINE S == [term : Terms, weight : Nat]
    <2>2. q.query \in Seq(S)
      BY DEF IsCall
    <2> HIDE DEF S
    <2>3. Len(q.query) \in Nat /\ DOMAIN q.query = 1 .. Len(q.query)
      BY <2>2
    <2>4. IsFiniteSet(DOMAIN q.query)
      BY <2>3, FS_Interval
    <2> QED
      BY <2>1, <2>4
  <1> HIDE DEF s
  <1>6. IsFiniteSet(hits)
    <2>1. IsFiniteSet((DOMAIN q.query) \X (DOMAIN s.csc_cluster))
      BY <1>3, <1>5, FS_Product
    <2>2. hits \in SUBSET ((DOMAIN q.query) \X (DOMAIN s.csc_cluster))
      OBVIOUS
    <2> HIDE DEF hits
    <2> QED
      BY <2>1, <2>2, FS_Subset
  <1>7. f \in [hits -> Nat]
    <2>1. ASSUME NEW h \in hits
          PROVE  q.query[h[1]].weight * s.csc_value[h[2]] \in Nat
      <3>1. q.query[h[1]].weight \in Nat /\ s.csc_value[h[2]] \in Nat
        BY <1>3, <1>5
      <3> QED
        BY <3>1
    <2> HIDE DEF hits
    <2> QED
      BY <2>1
  <1>8. SumOf(f) \in Nat
    <2> HIDE DEF f, hits
    <2> QED
      BY <1>6, <1>7, SumType
  <1>9. ASSUME p.alpha.num = p.alpha.den, NEW d \in Range(clusters[i].docs)
        PROVE  Inner(Row(c, d), QueryRow(q)) <= SumOf(f)
    <2> DEFINE r == Row(c, d)
               A == DOMAIN r \intersect DOMAIN QueryRow(q)
               P == {u \in A : r[u] > 0}
               g == [u \in A |-> r[u] * QueryRow(q)[u]]
               gP == [u \in P |-> r[u] * QueryRow(q)[u]]
    <2>1. IsRow(r) /\ d \in 0 .. Len(c) - 1
      <3>1. d \in Having(c, t)
        <4> DEFINE H == Having(c, t)
        <4>1. clusters[i].docs \in Seq(H)
          BY DEF IsClustering
        <4> HIDE DEF H
        <4>2. d \in H
          BY <4>1, SequenceElement DEF Range
        <4> QED
          BY <4>2 DEF H
      <3>2. d \in 0 .. Len(c) - 1 /\ d + 1 \in DOMAIN c
        BY <3>1 DEF Having, IsCorpus
      <3> QED
        BY <3>2 DEF IsCorpus, Row
    <2>2. /\ A = DOMAIN r \intersect QueryTerms(q)
          /\ \A u \in A : r[u] \in Nat /\ QueryRow(q)[u] = Weight(q, u) /\ Weight(q, u) \in Nat
      BY <2>1, WeightsOfCall DEF QueryRow, IsRow
    <2>3. g \in [A -> Nat] /\ gP \in [P -> Nat] /\ P \in SUBSET A
      <3>1. \A u \in A : r[u] * QueryRow(q)[u] \in Nat
        BY <2>2
      <3> QED
        BY <3>1
    <2>4. IsFiniteSet(A)
      <3>1. A \subseteq 0 .. Dim /\ Dim \in Nat
        BY <2>1, DimAssumption DEF IsRow, Terms
      <3> HIDE DEF A
      <3> QED
        BY <3>1, AscendingAscends
    <2>5. SumOf(g) = SumOf(gP)
      <3>1. \A u \in P : gP[u] = g[u]
        OBVIOUS
      <3>2. \A u \in A \ P : g[u] = 0
        BY <2>2
      <3> HIDE DEF g, gP, A, P
      <3> QED
        BY <2>3, <2>4, <3>1, <3>2, SumOverSupport
    <2>6. ASSUME NEW u \in P
          PROVE  \E h \in hits : q.query[h[1]].term = u /\ gP[u] <= f[h]
      <3>1. PICK j \in DOMAIN q.query : q.query[j].term = u
        BY <2>2 DEF QueryTerms
      <3>2. Weight(q, u) = q.query[j].weight
        BY <3>1, WeightsOfCall
      <3>3. u \in DOMAIN summaries[i] /\ r[u] <= summaries[i][u]
        BY <1>9 DEF IsClustering, IsSummary
      <3>4. PICK e \in DOMAIN s.csc_cluster :
              e \in EntriesOf(s, u) /\ s.csc_cluster[e] = i - 1 /\ s.csc_value[e] = summaries[i][u]
        BY <1>3, <3>3
      <3> DEFINE h == <<j, e>>
      <3>5. h \in hits /\ q.query[h[1]].term = u
        BY <3>1, <3>4
      <3>6. f[h] = q.query[j].weight * s.csc_value[e]
        BY <3>5
      <3>7. gP[u] = r[u] * q.query[j].weight
        BY <2>2, <3>2
      <3>8. r[u] \in Nat /\ q.query[j].weight \in Nat /\ s.csc_value[e] \in Nat /\ r[u] <= s.csc_value[e]
        BY <1>3, <1>5, <2>2, <3>3, <3>4
      <3> HIDE DEF h, hits, f, gP, r, summaries
      <3>9. r[u] * q.query[j].weight <= q.query[j].weight * s.csc_value[e]
        <4>1. q.query[j].weight * r[u] <= q.query[j].weight * s.csc_value[e]
          BY <3>8, ProductGrows
        <4> QED
          BY <3>8, <4>1
      <3> QED
        BY <3>5, <3>6, <3>7, <3>9
    <2> DEFINE choice(u) == CHOOSE h \in hits : q.query[h[1]].term = u /\ gP[u] <= f[h]
               pick      == [u \in P |-> choice(u)]
    <2>7. ASSUME NEW u \in P
          PROVE  /\ choice(u) \in hits /\ q.query[choice(u)[1]].term = u
                 /\ gP[u] <= f[choice(u)]
      <3> HIDE DEF hits, f, gP, P
      <3> QED
        BY <2>6
    <2> HIDE DEF choice
    <2>8. /\ pick \in [P -> hits]
          /\ \A u \in P : q.query[pick[u][1]].term = u /\ gP[u] <= f[pick[u]]
      <3> HIDE DEF hits, f, gP, P
      <3> QED
        BY <2>7
    <2>9. \A u, v \in P : pick[u] = pick[v] => u = v
      <3> HIDE DEF pick, P, hits
      <3> QED
        BY <2>8
    <2>10. SumOf(gP) <= SumOf(f)
      <3> HIDE DEF pick, P, hits, gP, f
      <3> QED
        BY <1>6, <1>7, <2>3, <2>8, <2>9, SumWithin
    <2>11. Inner(Row(c, d), QueryRow(q)) = SumOf(g)
      BY DEF Inner
    <2> QED
      BY <2>5, <2>10, <2>11
  <1> QED
    BY <1>4, <1>8, <1>9

(* Nothing was left out of summaries. *)
Whole == param.alpha.num = param.alpha.den

(* What the search has found so far. *)
Holder == IF pc = "idle" THEN result ELSE heap

(* While lists are visited, and once they have been.                        *)
Walking == pc \in {"list", "cluster", "docs"} \/ Searched

(* The terms that were begun, by their places among those the cut kept; the *)
(* clusters of the n-th; and the documents of one of them.                  *)
Begun         == 1 .. Len(chosen) - Len(cuts)
ClustersOf(n) == IF chosen[n] < Len(lists) THEN DOMAIN lists[chosen[n] + 1] ELSE {}
Members(n, i) == Range(lists[chosen[n] + 1][i].docs)

(* A full holder has no use for a document; of one that was left out by     *)
(* summaries that were whole, its score says so.                            *)
WorthNothing(d) ==
  /\ IsFull(Holder, call.k)
  /\ Whole => Score(d) * call.factor.num < LeastScore(Holder) * call.factor.den

(* Document d of cluster i of the n-th term is still to come. *)
Ahead(d, n, i) ==
  /\ pc \in {"cluster", "docs"} /\ n = Len(chosen) - Len(cuts)
  /\ i \in Range(order) \/ d \in Range(docs)

Descending(o, s) == \A i, j \in DOMAIN o : i < j => s[o[i]] >= s[o[j]]

(* Clusters are ranked by what their summaries score, and in the first list *)
(* those still to visit are in that order.                                  *)
RankedInv ==
  pc \in {"cluster", "docs"} =>
    sums = SummaryScores(lists[Visiting + 1], call) /\ (first => Descending(order, sums))

(* What was visited is of the lists that were begun.                        *)
OriginInv ==
  Walking => \A d \in visited \union Range(docs) :
               \E n \in Begun : \E i \in ClustersOf(n) : d \in Members(n, i)

(* A document of those lists was visited, or is still to come, or was passed*)
(* over because it is worth nothing.                                        *)
PassedInv ==
  Walking => \A n \in Begun : \A i \in ClustersOf(n) : \A d \in Members(n, i) :
               d \in visited \/ WorthNothing(d) \/ Ahead(d, n, i)

SkipInv ==
  /\ RankedInv /\ OriginInv /\ PassedInv
  /\ pc \in {"collect", "score"} => param.disk
  /\ Searched => cuts = <<>>

(* The order clusters are visited in has each of them; the first list's     *)
(* descends throughout.                                                     *)
LEMMA OrdersHaveAll ==
  ASSUME NEW n \in Nat, NEW s \in [1 .. n -> Nat], NEW o \in Orders(s)
  PROVE  /\ o \in Seq(1 .. n) /\ Range(o) = 1 .. n
         /\ first => Descending(o, s)
  <1>1. Len(s) = n /\ DOMAIN s = 1 .. n
    OBVIOUS
  <1>2. CASE first
    <2>1. /\ o \in [1 .. n -> 1 .. n] /\ IsInjective(o)
          /\ \A i \in 1 .. n - 1 : s[o[i]] >= s[o[i + 1]]
      BY <1>1, <1>2 DEF Orders, Arrangements
    <2>2. Range(o) = 1 .. n
      <3> DEFINE S == 1 .. n
      <3>1. IsFiniteSet(S)
        BY FS_Interval
      <3>2. o \in Injection(S, S)
        BY <2>1 DEF IsInjective, Injection
      <3> HIDE DEF S
      <3>3. o \in Surjection(S, S)
        BY <3>1, <3>2, FS_Injection
      <3> QED
        BY <3>3 DEF Surjection, Range, S
    <2>3. ASSUME NEW i \in 1 .. n, NEW j \in 1 .. n, i < j
          PROVE  s[o[i]] >= s[o[j]]
      <3> DEFINE Q == {m \in Nat : i + m <= n => s[o[i]] >= s[o[i + m]]}
      <3>1. 0 \in Q
        BY <2>1
      <3>2. ASSUME NEW m \in Nat, m \in Q
            PROVE  m + 1 \in Q
        <4>1. CASE i + (m + 1) <= n
          <5>1. i + m \in 1 .. n - 1 /\ i + m \in 1 .. n /\ (i + m) + 1 = i + (m + 1)
                /\ i + (m + 1) \in 1 .. n
            BY <4>1
          <5>2. PICK a \in 1 .. n - 1 : a = i + m
            BY <5>1
          <5>3. a \in 1 .. n /\ a + 1 \in 1 .. n /\ a + 1 = i + (m + 1)
            BY <5>1, <5>2
          <5>4. s[o[i]] >= s[o[a]]
            BY <3>2, <5>2, <5>3
          <5>5. s[o[a]] >= s[o[a + 1]]
            BY <2>1, <5>2
          <5>6. o[i] \in 1 .. n /\ o[a] \in 1 .. n /\ o[a + 1] \in 1 .. n
            BY <2>1, <5>3
          <5>7. s[o[i]] \in Nat /\ s[o[a]] \in Nat /\ s[o[a + 1]] \in Nat
            BY <5>6
          <5>8. s[o[i]] >= s[o[a + 1]]
            BY <5>4, <5>5, <5>7
          <5>9. s[o[i]] >= s[o[i + (m + 1)]]
            BY <5>3, <5>8
          <5>10. m + 1 \in Nat
            OBVIOUS
          <5> QED
            BY <5>9, <5>10
        <4>2. CASE ~(i + (m + 1) <= n)
          BY <4>2
        <4> QED
          BY <4>1, <4>2
      <3>3. \A m \in Nat : m \in Q
        <4> HIDE DEF Q
        <4> QED
          BY <3>1, <3>2, NatSetInduction
      <3>4. j - i \in Nat /\ i + (j - i) = j
        BY <2>3
      <3>5. j - i \in Q
        BY <3>3, <3>4
      <3>6. i + (j - i) <= n => s[o[i]] >= s[o[i + (j - i)]]
        BY <3>5
      <3> QED
        BY <3>4, <3>6
    <2> QED
      BY <2>1, <2>2, <2>3, FunctionIsSequence DEF Descending
  <1>3. CASE ~first
    <2>1. o = [i \in 1 .. n |-> i]
      BY <1>1, <1>3 DEF Orders
    <2>2. o \in [1 .. n -> 1 .. n] /\ Range(o) = 1 .. n
      BY <2>1 DEF Range
    <2> QED
      BY <1>3, <2>2, FunctionIsSequence
  <1> QED
    BY <1>2, <1>3

(* Lists, their clusters and what documents score stay while a search runs. *)
LEMMA WalkSteady ==
  ASSUME UNCHANGED <<rows, param, lists, chosen, call>>
  PROVE  /\ \A n : ClustersOf(n)' = ClustersOf(n)
         /\ \A n, i : Members(n, i)' = Members(n, i)
         /\ \A d : Score(d)' = Score(d)
         /\ Whole' = Whole /\ Docs' = Docs
  BY DEF ClustersOf, Members, Score, Whole, Docs

(* The clusters of a list that was begun, and their documents.              *)
LEMMA BegunLists ==
  ASSUME IndexInv, CallInv, CutsInv, NEW n \in Begun, NEW i \in ClustersOf(n)
  PROVE  /\ chosen[n] \in Terms /\ chosen[n] < Len(lists) /\ chosen[n] + 1 \in DOMAIN lists
         /\ i \in DOMAIN lists[chosen[n] + 1]
         /\ Members(n, i) \subseteq Docs
         /\ SummaryScores(lists[chosen[n] + 1], call)[i] \in Nat
         /\ Whole => \A d \in Members(n, i) :
                       Score(d) <= SummaryScores(lists[chosen[n] + 1], call)[i]
  <1>1. /\ n \in DOMAIN chosen /\ chosen[n] \in Terms
    <2>1. chosen \in Seq(Terms) /\ cuts \in Seq(Terms)
      BY DEF CutsInv
    <2>2. n \in DOMAIN chosen
      BY <2>1 DEF Begun
    <2> QED
      BY <2>1, <2>2, SequenceElement
  <1>2. chosen[n] < Len(lists) /\ i \in DOMAIN lists[chosen[n] + 1]
    BY DEF ClustersOf
  <1>3. chosen[n] + 1 \in DOMAIN lists
    <2>1. Len(lists) \in Nat /\ DOMAIN lists = 1 .. Len(lists)
      BY DEF IndexInv
    <2> QED
      BY <1>1, <1>2, <2>1 DEF Terms
  <1> DEFINE t == chosen[n] + 1
  <1>4. Members(n, i) \subseteq Docs
    BY <1>2, <1>3, ClusterDocs DEF Members
  <1>5. IsCorpus(rows) /\ IsCall(call) /\ IsClustering(lists[t], rows, t - 1, param)
    BY <1>3, CorporaAreCorpora, ScoresAreNatural DEF IndexInv
  <1>6. /\ SummaryScores(lists[t], call)[i] \in Nat
        /\ Whole => \A d \in Range(lists[t][i].docs) :
             Inner(Row(rows, d), QueryRow(call)) <= SummaryScores(lists[t], call)[i]
    <2> HIDE DEF t
    <2> QED
      BY <1>2, <1>5, SummaryCovers DEF Whole, t
  <1> QED
    BY <1>1, <1>2, <1>3, <1>4, <1>6 DEF Members, Score

(* A full top k has a least score, and what it left out scores no more.     *)
LEMMA FullHasLeast ==
  ASSUME NEW N, NEW f \in [N -> Nat], NEW k \in Nat \ {0}, NEW D \in SUBSET N,
         NEW h, IsTop(h, f, k, D), IsFull(h, k)
  PROVE  /\ LeastScore(h) \in Nat
         /\ \A d \in D : ItemOf(f, d) \notin BagToSet(h) => f[d] <= LeastScore(h)
         /\ \A x \in BagToSet(h) : LeastScore(h) <= x.score
  <1>1. PICK H \in SUBSET D : Holds(h, f, H) /\ AreBest(H, f, k, D)
    BY DEF IsTop
  <1>2. IsFiniteSet(H) /\ H \in SUBSET N
    BY <1>1 DEF AreBest
  <1>3. Cardinality(H) = k /\ BagToSet(h) = ItemsOf(f, H)
    BY <1>1, <1>2, HolderSize DEF IsFull
  <1>4. H # {}
    BY <1>3, FS_EmptySet
  <1>5. /\ LeastScore(h) \in Nat
        /\ \E e \in H : f[e] = LeastScore(h)
        /\ \A e \in H : LeastScore(h) <= f[e]
    BY <1>1, <1>2, <1>4, LeastIsLeast
  <1>6. ASSUME NEW d \in D, ItemOf(f, d) \notin BagToSet(h)
        PROVE  f[d] <= LeastScore(h)
    <2>1. d \notin H
      BY <1>3, <1>6 DEF ItemsOf
    <2>2. \A e \in H : f[d] <= f[e]
      BY <1>1, <1>3, <1>6, <2>1 DEF AreBest
    <2> QED
      BY <1>5, <2>2
  <1>7. \A x \in BagToSet(h) : LeastScore(h) <= x.score
    BY <1>3, <1>5 DEF ItemsOf, ItemOf
  <1> QED
    BY <1>5, <1>6, <1>7

(* The next term's list is begun: all its clusters are still to come.       *)
LEMMA OpenKeepsSkip ==
  ASSUME SearchInv, SkipInv, OpenList
  PROVE  SkipInv'
  <1>0. PICK m : m = Len(chosen) - Len(Tail(cuts))
    OBVIOUS
  <1>1. /\ pc = "list" /\ cuts # <<>> /\ cuts' = Tail(cuts) /\ pc' \in {"list", "cluster"}
        /\ UNCHANGED <<rows, param, lists, chosen, call, visited, docs, heap>>
    BY DEF OpenList, indexVars
  <1>2. docs = <<>> /\ Range(docs) = {} /\ Range(docs') = {}
    BY <1>1 DEF SearchInv, ListInv, Range
  <1>3. /\ m \in Nat \ {0} /\ Head(cuts) = chosen[m] /\ Begun = 1 .. m - 1 /\ Begun' = 1 .. m
        /\ Visiting' = chosen[m] /\ chosen[m] \in Terms
    <2>1. /\ Len(Tail(cuts)) < Len(chosen) /\ Len(Tail(cuts)) \in Nat /\ Head(cuts) = chosen[m]
          /\ Head(cuts) \in Terms
      BY <1>0, <1>1, NextTerm DEF SearchInv
    <2>2. Len(chosen) \in Nat /\ Len(cuts) \in Nat /\ Len(cuts) = Len(Tail(cuts)) + 1
      BY <1>1 DEF SearchInv, CutsInv
    <2>3. m \in Nat \ {0} /\ Len(chosen) - Len(cuts) = m - 1
      BY <1>0, <2>1, <2>2
    <2>4. Len(chosen') - Len(cuts') = m
      BY <1>0, <1>1
    <2>5. Begun = 1 .. m - 1
      BY <2>3 DEF Begun
    <2>6. Begun' = 1 .. m /\ Visiting' = chosen[m]
      BY <1>1, <2>4 DEF Begun, Visiting
    <2> QED
      BY <2>1, <2>3, <2>5, <2>6
  <1>4. /\ \A n : ClustersOf(n)' = ClustersOf(n)
        /\ \A n, i : Members(n, i)' = Members(n, i)
        /\ \A d : Score(d)' = Score(d)
    BY <1>1, WalkSteady
  <1>5. \A d : WorthNothing(d) => WorthNothing(d)'
    BY <1>1, <1>4 DEF WorthNothing, Holder, Whole
  <1>6. Walking /\ \A d, n, i : ~Ahead(d, n, i)
    BY <1>1 DEF Walking, Ahead
  <1>7. OriginInv'
    <2>1. \A d \in visited' \union Range(docs') :
            \E n \in Begun : \E i \in ClustersOf(n) : d \in Members(n, i)
      BY <1>1, <1>6 DEF SkipInv, OriginInv
    <2> QED
      BY <1>3, <1>4, <2>1 DEF OriginInv
  <1>8. \A n \in Begun : \A i \in ClustersOf(n)' : \A d \in Members(n, i)' :
          d \in visited' \/ WorthNothing(d)'
    BY <1>1, <1>4, <1>5, <1>6 DEF SkipInv, PassedInv
  <1>9. CASE pc' = "list"
    <2>1. chosen[m] >= Len(lists) \/ lists[chosen[m] + 1] = <<>>
      BY <1>1, <1>3, <1>9 DEF OpenList
    <2>2. ClustersOf(m)' = {}
      <3>1. Len(lists) \in Nat /\ DOMAIN <<>> = {}
        BY DEF SearchInv, IndexInv
      <3>2. chosen[m] \in Nat
        BY <1>3 DEF Terms
      <3>3. ClustersOf(m) = {}
        BY <2>1, <3>1, <3>2 DEF ClustersOf
      <3> QED
        BY <1>4, <3>3
    <2>3. \A n \in Begun' : n \in Begun \/ n = m
      BY <1>3
    <2>4. PassedInv'
      BY <1>8, <2>2, <2>3 DEF PassedInv
    <2>5. RankedInv' /\ ~Searched'
      BY <1>9 DEF RankedInv, Searched
    <2> QED
      BY <1>7, <1>9, <2>4, <2>5 DEF SkipInv
  <1>10. CASE pc' = "cluster"
    <2> DEFINE clusters == lists[chosen[m] + 1]
               k        == Len(clusters)
    <2>1. /\ ~(chosen[m] >= Len(lists)) /\ sums' = SummaryScores(clusters, call)
          /\ order' \in Orders(sums') /\ UNCHANGED first
      BY <1>1, <1>3, <1>10 DEF OpenList
    <2>2. chosen[m] < Len(lists) /\ chosen[m] + 1 \in DOMAIN lists
      <3>1. Len(lists) \in Nat /\ DOMAIN lists = 1 .. Len(lists)
        BY DEF SearchInv, IndexInv
      <3> QED
        BY <1>3, <2>1, <3>1 DEF Terms
    <2>3. IsClustering(clusters, rows, (chosen[m] + 1) - 1, param) /\ k \in Nat /\ DOMAIN clusters = 1 .. k
      BY <2>2 DEF SearchInv, IndexInv, IsClustering
    <2>4. sums' \in [1 .. k -> Nat]
      <3>1. IsCorpus(rows) /\ IsCall(call)
        BY CorporaAreCorpora, ScoresAreNatural DEF SearchInv, IndexInv
      <3> HIDE DEF clusters, k
      <3>2. \A i \in 1 .. k : SummaryScores(clusters, call)[i] \in Nat
        BY <2>3, <3>1, SummaryCovers
      <3>3. DOMAIN SummaryScores(clusters, call) = 1 .. k
        BY <2>3, SummariesAreScored
      <3>4. sums' = [i \in 1 .. k |-> sums'[i]]
        <4>1. SummaryScores(clusters, call) = [i \in 1 .. k |-> SummaryScores(clusters, call)[i]]
          BY <3>3 DEF SummaryScores, score_summaries_transposed
        <4> QED
          BY <2>1, <4>1
      <3> QED
        BY <2>1, <3>2, <3>4
    <2>5. Range(order') = 1 .. k /\ (first' => Descending(order', sums'))
      <3> HIDE DEF k
      <3> QED
        BY <2>1, <2>3, <2>4, OrdersHaveAll
    <2>6. RankedInv'
      BY <1>1, <1>3, <2>1, <2>5 DEF RankedInv, Descending
    <2>7. ClustersOf(m)' = 1 .. k
      BY <1>4, <2>2, <2>3 DEF ClustersOf
    <2>8. m = Len(chosen') - Len(cuts')
      BY <1>0, <1>1
    <2> HIDE DEF k
    <2>9. \A i \in ClustersOf(m)' : \A d : Ahead(d, m, i)'
      BY <1>10, <2>5, <2>7, <2>8 DEF Ahead
    <2>10. \A n \in Begun' : n \in Begun \/ n = m
      BY <1>3
    <2>11. PassedInv'
      BY <1>8, <2>9, <2>10 DEF PassedInv
    <2> QED
      BY <1>7, <1>10, <2>6, <2>11 DEF SkipInv, Searched
  <1> QED
    BY <1>1, <1>9, <1>10

(* A cluster that is hopeless has nothing worth a full holder's while.      *)
LEMMA HopelessIsWorthNothing ==
  ASSUME SearchInv, SkipInv, pc = "cluster", NEW i \in DOMAIN sums, NEW h \in DOMAIN sums,
         sums[i] <= sums[h], Hopeless(h),
         NEW m, m = Len(chosen) - Len(cuts)
  PROVE  /\ m \in Begun /\ ClustersOf(m) = DOMAIN sums
         /\ \A d \in Members(m, i) : WorthNothing(d)
  <1>1. /\ m \in Begun /\ m \in DOMAIN chosen /\ Visiting = chosen[m]
    <2>1. /\ Len(chosen) \in Nat /\ Len(cuts) \in Nat /\ DOMAIN chosen = 1 .. Len(chosen)
          /\ Len(cuts) < Len(chosen)
      BY DEF SearchInv, CutsInv, ListInv
    <2> QED
      BY <2>1 DEF Begun, Visiting
  <1>2. chosen[m] < Len(lists) /\ DOMAIN sums = DOMAIN lists[chosen[m] + 1]
    BY <1>1 DEF SearchInv, ListInv
  <1>3. ClustersOf(m) = DOMAIN sums
    BY <1>2 DEF ClustersOf
  <1>4. sums = SummaryScores(lists[chosen[m] + 1], call)
    BY <1>1 DEF SkipInv, RankedInv
  <1>5. /\ sums[i] \in Nat /\ sums[h] \in Nat
        /\ Whole => \A d \in Members(m, i) : Score(d) <= sums[i]
        /\ Members(m, i) \subseteq Docs
    <2>1. IndexInv /\ CallInv /\ CutsInv
      BY DEF SearchInv
    <2> QED
      BY <1>1, <1>3, <1>4, <2>1, BegunLists
  <1>6. call \in Calls \/ call = NoCall
    BY AskedIsACall DEF SearchInv, IndexInv, CallInv
  <1>7. call.factor.num \in Nat
    BY <1>6, CallsAssumption DEF NoCall
  <1>8. Holder = heap
    BY DEF Holder
  <1>9. ASSUME NEW d \in Members(m, i)
        PROVE  WorthNothing(d)
    <2>1. IsFull(heap, call.k) /\ sums[h] * call.factor.num < LeastScore(heap) * call.factor.den
      BY DEF Hopeless
    <2>2. CASE ~Whole
      BY <1>8, <2>1, <2>2 DEF WorthNothing
    <2>3. CASE Whole
      <3>1. Score(d) \in Nat /\ Score(d) <= sums[h]
        <4>1. ScoreOf[d] \in Nat /\ ScoreOf[d] = Score(d)
          BY <1>5, ScoresAreNatural DEF SearchInv, ScoreOf
        <4> QED
          BY <1>5, <2>3, <4>1
      <3> DEFINE a == Score(d) * call.factor.num
                 b == sums[h] * call.factor.num
                 l == LeastScore(heap) * call.factor.den
      <3>2. a <= b /\ a \in Nat /\ b \in Nat
        BY <1>5, <1>7, <3>1, ProductGrows
      <3>3. LeastScore(heap) \in Nat /\ call.factor.den \in Nat
        <4>1. ScoreOf \in [Docs -> Nat] /\ call.k \in Nat \ {0}
          BY ScoresAreNatural DEF SearchInv, IsCall
        <4>2. IsTop(heap, ScoreOf, call.k, visited \intersect call.ids) /\ visited \subseteq Docs
          BY DEF SearchInv, HeapInv
        <4>3. visited \intersect call.ids \in SUBSET Docs
          BY <4>2
        <4>4. LeastScore(heap) \in Nat
          BY <2>1, <4>1, <4>2, <4>3, FullHasLeast
        <4> QED
          BY <1>6, <4>4, CallsAssumption DEF NoCall
      <3>4. b < l /\ l \in Nat
        BY <2>1, <3>3
      <3> HIDE DEF a, b, l
      <3>5. a < l
        BY <3>2, <3>4
      <3> QED
        BY <1>8, <2>1, <3>5 DEF WorthNothing, a, l
    <2> QED
      BY <2>2, <2>3
  <1> QED
    BY <1>1, <1>3, <1>9

(* A hopeless cluster, and in the first list all after it, has nothing that *)
(* is worth it; another is scanned next.                                    *)
LEMMA ClusterKeepsSkip ==
  ASSUME SearchInv, SkipInv, NextCluster
  PROVE  SkipInv'
  <1>0. PICK m : m = Len(chosen) - Len(cuts)
    OBVIOUS
  <1> DEFINE h == Head(order)
  <1>1. /\ pc = "cluster" /\ order # <<>> /\ pc' \in {"cluster", "docs"}
        /\ UNCHANGED <<rows, param, lists, chosen, cuts, call, visited, heap, sums, first>>
    BY DEF NextCluster, indexVars
  <1>2. docs = <<>> /\ Range(docs) = {}
    BY <1>1 DEF SearchInv, ListInv, Range
  <1>3. /\ order \in Seq(DOMAIN sums) /\ h \in DOMAIN sums /\ h = order[1]
        /\ DOMAIN order = 1 .. Len(order) /\ Len(order) \in Nat \ {0}
        /\ Tail(order) \in Seq(DOMAIN sums) /\ Len(Tail(order)) = Len(order) - 1
        /\ \A i \in 1 .. Len(order) - 1 : Tail(order)[i] = order[i + 1]
    <2> DEFINE S == DOMAIN sums
    <2>1. order \in Seq(S)
      BY DEF SearchInv, ListInv
    <2> HIDE DEF S
    <2>2. /\ order \in Seq(S) /\ h \in S /\ h = order[1]
          /\ DOMAIN order = 1 .. Len(order) /\ Len(order) \in Nat \ {0}
          /\ Tail(order) \in Seq(S) /\ Len(Tail(order)) = Len(order) - 1
          /\ \A i \in 1 .. Len(order) - 1 : Tail(order)[i] = order[i + 1]
      BY <1>1, <2>1
    <2> QED
      BY <2>2 DEF S
  <1>4. /\ \A n : ClustersOf(n)' = ClustersOf(n)
        /\ \A n, i : Members(n, i)' = Members(n, i)
        /\ \A d : Score(d)' = Score(d)
        /\ Begun' = Begun /\ Visiting' = Visiting
    BY <1>1, WalkSteady DEF Begun, Visiting
  <1>5. \A d : WorthNothing(d) => WorthNothing(d)'
    BY <1>1, <1>4 DEF WorthNothing, Holder, Whole
  <1>6. Walking /\ m \in Begun /\ ClustersOf(m) = DOMAIN sums /\ CurrentList = lists[chosen[m] + 1]
    <2>1. /\ Len(chosen) \in Nat /\ Len(cuts) \in Nat /\ Len(cuts) < Len(chosen)
          /\ Visiting < Len(lists) /\ DOMAIN sums = DOMAIN lists[Visiting + 1]
      BY <1>1 DEF SearchInv, CutsInv, ListInv
    <2> QED
      BY <1>0, <1>1, <2>1 DEF Walking, Begun, Visiting, ClustersOf, CurrentList
  <1>7. \A n \in Begun : \A i \in ClustersOf(n) : \A d \in Members(n, i) :
          d \in visited \/ WorthNothing(d) \/ (n = m /\ i \in Range(order))
    BY <1>0, <1>2, <1>6 DEF SkipInv, PassedInv, Ahead
  <1>8. \A i \in Range(order) : i = h \/ i \in Range(Tail(order))
    <2>1. ASSUME NEW j \in 1 .. Len(order), j # 1
          PROVE  order[j] \in Range(Tail(order))
      <3>1. j - 1 \in 1 .. Len(order) - 1 /\ (j - 1) + 1 = j
        BY <1>3, <2>1
      <3>2. j - 1 \in DOMAIN Tail(order) /\ Tail(order)[j - 1] = order[j]
        BY <1>3, <3>1
      <3> QED
        BY <3>2 DEF Range
    <2> QED
      BY <1>3, <2>1 DEF Range
  <1>9. /\ Descending(<<>>, sums)
        /\ first => Descending(Tail(order), sums) /\ \A i \in Range(order) : sums[i] <= sums[h]
    <2>1. Descending(<<>>, sums)
      BY DEF Descending
    <2>2. ASSUME first
          PROVE  Descending(Tail(order), sums) /\ \A i \in Range(order) : sums[i] <= sums[h]
      <3>1. Descending(order, sums)
        BY <1>1, <2>2 DEF SkipInv, RankedInv
      <3>2. Descending(Tail(order), sums)
        <4> SUFFICES ASSUME NEW i \in DOMAIN Tail(order), NEW j \in DOMAIN Tail(order), i < j
                     PROVE  sums[Tail(order)[i]] >= sums[Tail(order)[j]]
          BY DEF Descending
        <4>1. i \in 1 .. Len(order) - 1 /\ j \in 1 .. Len(order) - 1
          BY <1>3
        <4>2. i + 1 \in DOMAIN order /\ j + 1 \in DOMAIN order /\ i + 1 < j + 1
          BY <1>3, <4>1
        <4>3. sums[order[i + 1]] >= sums[order[j + 1]]
          BY <3>1, <4>2 DEF Descending
        <4> QED
          BY <1>3, <4>1, <4>3
      <3>3. ASSUME NEW i \in Range(order)
            PROVE  sums[i] <= sums[h]
        <4>1. PICK j \in 1 .. Len(order) : order[j] = i
          BY <1>3 DEF Range
        <4>2. i \in DOMAIN sums /\ \A x \in DOMAIN sums : sums[x] \in Nat
          <5>1. i \in DOMAIN sums
            BY <1>3, <4>1, SequenceElement
          <5>2. IndexInv /\ CallInv /\ CutsInv
            BY DEF SearchInv
          <5>3. sums = SummaryScores(lists[chosen[m] + 1], call)
            BY <1>0, <1>1 DEF SkipInv, RankedInv, Visiting
          <5> QED
            BY <1>6, <5>1, <5>2, <5>3, BegunLists
        <4>3. CASE j = 1
          BY <1>3, <4>1, <4>2, <4>3
        <4>4. CASE j # 1
          <5>1. 1 \in DOMAIN order /\ j \in DOMAIN order /\ 1 < j
            BY <1>3, <4>4
          <5>2. sums[order[1]] >= sums[order[j]]
            BY <3>1, <5>1 DEF Descending
          <5> QED
            BY <1>3, <4>1, <4>2, <5>2
        <4> QED
          BY <4>3, <4>4
      <3> QED
        BY <3>2, <3>3
    <2> QED
      BY <2>1, <2>2
  <1> HIDE DEF h
  <1>10. RankedInv'
    <2>1. order' = <<>> \/ order' = Tail(order)
      BY DEF NextCluster
    <2>2. first => Descending(order', sums)
      BY <1>9, <2>1
    <2>3. sums = SummaryScores(lists[Visiting + 1], call)
      BY <1>1 DEF SkipInv, RankedInv
    <2> QED
      BY <1>1, <1>4, <2>2, <2>3 DEF RankedInv, Descending
  <1>11. ~Searched' /\ pc' \notin {"collect", "score"}
    BY <1>1 DEF Searched
  <1>12. CASE Hopeless(h)
    <2>1. order' = (IF first THEN <<>> ELSE Tail(order)) /\ UNCHANGED <<pc, docs>>
      BY <1>12 DEF NextCluster, h
    <2>2. OriginInv'
      BY <1>1, <1>4, <1>6, <2>1 DEF SkipInv, OriginInv
    <2>3. ASSUME NEW i \in Range(order), i \notin Range(order'), NEW d \in Members(m, i)
          PROVE  WorthNothing(d)
      <3>1. i \in DOMAIN sums
        BY <1>3, SequenceElement DEF Range
      <3>2. sums[i] <= sums[h]
        <4>1. CASE first
          BY <1>9, <4>1
        <4>2. CASE ~first
          <5>1. i = h
            BY <1>8, <2>1, <2>3, <4>2
          <5>2. sums[h] \in Nat
            <6>1. IndexInv /\ CallInv /\ CutsInv
              BY DEF SearchInv
            <6>2. sums = SummaryScores(lists[chosen[m] + 1], call)
              BY <1>0, <1>1 DEF SkipInv, RankedInv, Visiting
            <6> QED
              BY <1>3, <1>6, <6>1, <6>2, BegunLists
          <5> QED
            BY <5>1, <5>2
        <4> QED
          BY <4>1, <4>2
      <3> QED
        BY <1>0, <1>1, <1>3, <1>12, <3>1, <3>2, HopelessIsWorthNothing
    <2>4. m = Len(chosen') - Len(cuts')
      BY <1>0, <1>1
    <2>5. ASSUME NEW n \in Begun, NEW i \in ClustersOf(n), NEW d \in Members(n, i)
          PROVE  d \in visited \/ WorthNothing(d) \/ Ahead(d, n, i)'
      <3>1. CASE n = m /\ i \in Range(order) /\ i \in Range(order')
        BY <1>1, <2>4, <3>1 DEF Ahead
      <3>2. CASE n = m /\ i \in Range(order) /\ i \notin Range(order')
        BY <2>3, <3>2
      <3> QED
        BY <1>7, <3>1, <3>2
    <2>6. PassedInv'
      BY <1>1, <1>4, <1>5, <2>5 DEF PassedInv
    <2> QED
      BY <1>10, <1>11, <2>2, <2>6 DEF SkipInv
  <1>13. CASE ~Hopeless(h)
    <2>1. order' = Tail(order) /\ docs' = CurrentList[h].docs /\ pc' = "docs"
      BY <1>13 DEF NextCluster, h
    <2>2. Range(docs') = Members(m, h)
      BY <1>6, <2>1 DEF Members
    <2>3. OriginInv'
      <3>1. \A d \in visited : \E n \in Begun : \E i \in ClustersOf(n) : d \in Members(n, i)
        BY <1>6 DEF SkipInv, OriginInv
      <3>2. \A d \in Range(docs') : \E n \in Begun : \E i \in ClustersOf(n) : d \in Members(n, i)
        BY <1>3, <1>6, <2>2
      <3> QED
        BY <1>1, <1>4, <3>1, <3>2 DEF OriginInv
    <2>4. m = Len(chosen') - Len(cuts')
      BY <1>0, <1>1
    <2>5. ASSUME NEW n \in Begun, NEW i \in ClustersOf(n), NEW d \in Members(n, i)
          PROVE  d \in visited \/ WorthNothing(d) \/ Ahead(d, n, i)'
      <3>1. CASE n = m /\ i = h
        BY <2>1, <2>2, <2>4, <2>5, <3>1 DEF Ahead
      <3>2. CASE n = m /\ i \in Range(Tail(order))
        BY <2>1, <2>4, <3>2 DEF Ahead
      <3> QED
        BY <1>7, <1>8, <3>1, <3>2
    <2>6. PassedInv'
      BY <1>1, <1>4, <1>5, <2>5 DEF PassedInv
    <2> QED
      BY <1>10, <1>11, <2>3, <2>6 DEF SkipInv
  <1> QED
    BY <1>12, <1>13

(* A document is scored, and the holder is no emptier and no worse for it.  *)
LEMMA ScanKeepsSkip ==
  ASSUME SearchInv, SkipInv, ScanDoc
  PROVE  SkipInv'
  <1> DEFINE e == Head(docs)
  <1>1. /\ pc = "docs" /\ docs' = Tail(docs) /\ pc' \in {"cluster", "docs"}
        /\ visited' = visited \union {e}
        /\ IF e \in visited \/ e \notin call.ids
             THEN UNCHANGED heap
             ELSE heap' \in Added(heap, call.k, [score |-> Dot(e), doc |-> e])
        /\ UNCHANGED <<rows, param, lists, chosen, cuts, call, order, sums, first>>
    BY DEF ScanDoc, indexVars
  <1>2. /\ docs \in Seq(Docs) /\ docs # <<>> /\ e \in Docs /\ e \in Range(docs)
        /\ \A d \in Range(docs) : d = e \/ d \in Range(docs')
        /\ Range(docs') \subseteq Range(docs)
    <2>1. docs \in Seq(Docs) /\ docs # <<>> /\ e \in Docs
      BY <1>1 DEF SearchInv, ListInv
    <2> HIDE DEF e
    <2>2. Range(docs) = {e} \union Range(docs')
      BY <1>1, <2>1, HeadAndTail DEF e
    <2> QED
      BY <2>1, <2>2
  <1>3. /\ \A n : ClustersOf(n)' = ClustersOf(n)
        /\ \A n, i : Members(n, i)' = Members(n, i)
        /\ \A d : Score(d)' = Score(d)
        /\ Begun' = Begun /\ Visiting' = Visiting
    BY <1>1, WalkSteady DEF Begun, Visiting
  <1> HIDE DEF e
  <1>4. /\ ScoreOf \in [Docs -> Nat] /\ call.k \in Nat \ {0}
        /\ IsTop(heap, ScoreOf, call.k, visited \intersect call.ids) /\ visited \subseteq Docs
    BY <1>1, ScoresAreNatural DEF SearchInv, HeapInv, IsCall
  <1>5. IsFull(heap, call.k) =>
          /\ IsFull(heap', call.k)
          /\ LeastScore(heap) \in Nat
          /\ LeastScore(heap') \in Nat /\ LeastScore(heap) <= LeastScore(heap')
    <2> SUFFICES ASSUME IsFull(heap, call.k)
                 PROVE  /\ IsFull(heap', call.k)
                        /\ LeastScore(heap) \in Nat
                        /\ LeastScore(heap') \in Nat /\ LeastScore(heap) <= LeastScore(heap')
      OBVIOUS
    <2> DEFINE D == visited \intersect call.ids
    <2>1. LeastScore(heap) \in Nat
      <3>1. D \in SUBSET Docs /\ IsTop(heap, ScoreOf, call.k, D)
        BY <1>4
      <3> HIDE DEF D
      <3> QED
        BY <1>4, <3>1, FullHasLeast
    <2>2. CASE e \in visited \/ e \notin call.ids
      BY <1>1, <2>1, <2>2
    <2>3. CASE ~(e \in visited \/ e \notin call.ids)
      <3>1. [score |-> Dot(e), doc |-> e] = ItemOf(ScoreOf, e)
        <4>1. dense = Scattered(call)
          BY <1>1 DEF SearchInv, CallInv
        <4>2. Dot(e) = Inner(Row(rows, e), QueryRow(call))
          BY <1>2, <4>1, KernelScores DEF SearchInv, CallInv, Dot
        <4>3. ScoreOf[e] = Inner(Row(rows, e), QueryRow(call))
          BY <1>2 DEF ScoreOf, Score
        <4> QED
          BY <4>2, <4>3 DEF ItemOf
      <3>2. heap' \in Added(heap, call.k, ItemOf(ScoreOf, e))
        BY <1>1, <2>3, <3>1
      <3>3. D \in SUBSET Docs /\ e \in Docs \ D /\ IsTop(heap, ScoreOf, call.k, D)
        BY <1>2, <1>4, <2>3
      <3> HIDE DEF D
      <3>4. /\ IsTop(heap', ScoreOf, call.k, D \union {e})
            /\ IsFull(heap', call.k) /\ LeastScore(heap) <= LeastScore(heap')
        BY <1>4, <3>2, <3>3, AddedIsTop
      <3>5. LeastScore(heap') \in Nat
        <4>1. D \union {e} \in SUBSET Docs
          BY <3>3
        <4> QED
          BY <1>4, <3>4, <4>1, FullHasLeast
      <3> QED
        BY <2>1, <3>4, <3>5
    <2> QED
      BY <2>2, <2>3
  <1>6. \A d \in Docs : WorthNothing(d) => WorthNothing(d)'
    <2> SUFFICES ASSUME NEW d \in Docs, WorthNothing(d) PROVE WorthNothing(d)'
      OBVIOUS
    <2>1. Holder = heap /\ Holder' = heap'
      BY <1>1 DEF Holder
    <2>2. IsFull(heap, call.k)
      BY <2>1 DEF WorthNothing
    <2>3. /\ IsFull(heap', call.k) /\ LeastScore(heap) \in Nat /\ LeastScore(heap') \in Nat
          /\ LeastScore(heap) <= LeastScore(heap')
      BY <1>5, <2>2
    <2>4. ASSUME Whole
          PROVE  Score(d) * call.factor.num < LeastScore(heap') * call.factor.den
      <3>1. call.factor.den \in Nat
        <4>1. call \in Calls \/ call = NoCall
          BY AskedIsACall DEF SearchInv, IndexInv, CallInv
        <4> QED
          BY <4>1, CallsAssumption DEF NoCall
      <3> DEFINE a == LeastScore(heap) * call.factor.den
                 b == LeastScore(heap') * call.factor.den
                 s == Score(d) * call.factor.num
      <3>2. a <= b /\ a \in Nat /\ b \in Nat
        BY <2>3, <3>1, ProductGrows
      <3>3. s < a
        BY <2>1, <2>4 DEF WorthNothing
      <3>4. s < b
        <4>1. call.factor.num \in Nat
          <5>1. call \in Calls \/ call = NoCall
            BY AskedIsACall DEF SearchInv, IndexInv, CallInv
          <5> QED
            BY <5>1, CallsAssumption DEF NoCall
        <4>2. Score(d) \in Nat
          BY <1>4 DEF ScoreOf
        <4>3. s \in Nat
          BY <4>1, <4>2
        <4> HIDE DEF a, b, s
        <4> QED
          BY <3>2, <3>3, <4>3
      <3> QED
        BY <3>4
    <2> QED
      BY <1>1, <1>3, <2>1, <2>3, <2>4 DEF WorthNothing, Whole
  <1>7. Walking
    BY <1>1 DEF Walking
  <1>8. RankedInv'
    BY <1>1, <1>3 DEF SkipInv, RankedInv, Descending
  <1>9. OriginInv'
    <2>1. visited' \union Range(docs') \subseteq visited \union Range(docs)
      BY <1>1, <1>2
    <2>2. \A d \in visited \union Range(docs) :
            \E n \in Begun : \E i \in ClustersOf(n) : d \in Members(n, i)
      BY <1>7 DEF SkipInv, OriginInv
    <2> QED
      BY <1>3, <2>1, <2>2 DEF OriginInv
  <1>10. PassedInv'
    <2>1. \A d, n, i : Ahead(d, n, i) => d \in visited' \/ Ahead(d, n, i)'
      BY <1>1, <1>2 DEF Ahead
    <2>2. \A n \in Begun : \A i \in ClustersOf(n) : \A d \in Members(n, i) :
            d \in visited \/ WorthNothing(d) \/ Ahead(d, n, i)
      BY <1>7 DEF SkipInv, PassedInv
    <2>3. visited \subseteq visited'
      BY <1>1
    <2>4. \A n \in Begun : \A i \in ClustersOf(n) : Members(n, i) \subseteq Docs
      BY BegunLists DEF SearchInv
    <2> QED
      BY <1>3, <1>6, <2>1, <2>2, <2>3, <2>4 DEF PassedInv
  <1> QED
    BY <1>1, <1>8, <1>9, <1>10 DEF SkipInv, Searched

(* A list is done, or the search: nothing was still to come.                *)
LEMMA DoneKeepsSkip ==
  ASSUME SearchInv, SkipInv, ListDone \/ Finish
  PROVE  SkipInv'
  <1>1. /\ pc \in {"list", "cluster"} /\ pc' \in {"list", "idle"}
        /\ UNCHANGED <<rows, param, lists, chosen, cuts, call, visited, docs>>
        /\ pc = "cluster" => order = <<>>
        /\ pc' = "idle" => cuts = <<>>
        /\ Holder' = Holder
    BY DEF ListDone, Finish, indexVars, listVars, Holder
  <1>2. docs = <<>> /\ Range(docs) = {}
    BY <1>1 DEF SearchInv, ListInv, Range
  <1>3. /\ \A n : ClustersOf(n)' = ClustersOf(n)
        /\ \A n, i : Members(n, i)' = Members(n, i)
        /\ \A d : Score(d)' = Score(d)
        /\ Begun' = Begun
    BY <1>1, WalkSteady DEF Begun
  <1>4. \A d : WorthNothing(d) => WorthNothing(d)'
    BY <1>1, <1>3 DEF WorthNothing, Whole
  <1>5. Walking
    BY <1>1 DEF Walking
  <1>6. \A d, n, i : ~Ahead(d, n, i)
    <2>1. Range(<<>>) = {}
      BY DEF Range
    <2> QED
      BY <1>1, <1>2, <2>1 DEF Ahead
  <1>7. OriginInv'
    <2>1. \A d \in visited' \union Range(docs') :
            \E n \in Begun : \E i \in ClustersOf(n) : d \in Members(n, i)
      BY <1>1, <1>5 DEF SkipInv, OriginInv
    <2> QED
      BY <1>3, <2>1 DEF OriginInv
  <1>8. PassedInv'
    <2>1. \A n \in Begun : \A i \in ClustersOf(n) : \A d \in Members(n, i) :
            d \in visited' \/ WorthNothing(d)'
      BY <1>1, <1>4, <1>5, <1>6 DEF SkipInv, PassedInv
    <2> QED
      BY <1>3, <2>1 DEF PassedInv
  <1> QED
    BY <1>1, <1>7, <1>8 DEF SkipInv, RankedInv, Searched

(* Every step keeps it, of a search in memory (seismic_index.cpp:74-118) or *)
(* of anything else.                                                        *)
LEMMA StepsKeepSkip == ASSUME SearchInv, SkipInv, DiskNext PROVE SkipInv'
  <1> USE DEF SkipInv, RankedInv, OriginInv, PassedInv, Walking, Searched
  <1>1. CASE (Build \/ BuildList) /\ Putting
    <2>1. pc' \in {"idle", "build"} /\ call' = NoCall
      BY <1>1 DEF Build, BuildList, SearchInv, CallInv
    <2> QED
      BY <2>1
  <1>2. ASSUME NEW q \in Questions, ExactStep(q)
        PROVE  SkipInv'
    <2>1. pc' = "idle" /\ RunsExact(call)'
      BY <1>2 DEF ExactStep, ExactMatch, RunsExact
    <2> QED
      BY <2>1
  <1>3. ASSUME NEW q \in Questions, StartStep(q)
        PROVE  SkipInv'
    <2>1. pc' = "list" /\ visited' = {} /\ cuts' = chosen' /\ docs' = docs /\ pc = "idle"
          /\ chosen' \in CutsOf(CallOf(sq, q)) /\ Asked(CallOf(sq, q), q)
      BY <1>3 DEF StartStep, StartQuery, Question, listVars
    <2>2. Range(docs') = {}
      BY <2>1 DEF SearchInv, ListInv, Range
    <2>3. chosen' \in Seq(Terms)
      <3>1. IsCall(CallOf(sq, q))
        BY <2>1, AskedIsACall DEF SearchInv, IndexInv
      <3> QED
        BY <2>1, <3>1, CutsAreTerms
    <2>4. Begun' = {}
      BY <2>1, <2>3 DEF Begun
    <2> QED
      BY <2>1, <2>2, <2>4
  <1>4. ASSUME NEW q \in Questions, BudgetStep(q)
        PROVE  SkipInv'
    <2>1. pc' = "collect" /\ param' = param /\ param.disk
      BY <1>4 DEF BudgetStep, AskBudget, indexVars
    <2> QED
      BY <2>1
  <1>5. CASE CollectList \/ SelectBlocks \/ NextBlock \/ ScoreDoc \/ FinishBudget
    <2>1. /\ pc \in {"collect", "score"} /\ pc' \in {"collect", "score", "idle"}
          /\ UNCHANGED param
      BY <1>5 DEF CollectList, SelectBlocks, NextBlock, ScoreDoc, FinishBudget, indexVars
    <2> QED
      BY <2>1
  <1> HIDE DEF SkipInv, RankedInv, OriginInv, PassedInv, Walking, Searched
  <1>6. CASE (OpenList \/ NextCluster \/ ScanDoc \/ ListDone \/ Finish) /\ Searching
    BY <1>6, OpenKeepsSkip, ClusterKeepsSkip, ScanKeepsSkip, DoneKeepsSkip
  <1> QED
    BY <1>1, <1>2, <1>3, <1>4, <1>5, <1>6, Steps

(* No query runs before the first one (seismic_index.cpp:74).               *)
LEMMA SkipStarts == DiskInit => SkipInv
  BY DEF DiskInit, QuantizedInit, Init, SkipInv, RankedInv, OriginInv, PassedInv, Walking, Searched

(* A step that changes nothing keeps it. *)
LEMMA SkipStutters == ASSUME SkipInv, UNCHANGED diskVars PROVE SkipInv'
  <1>1. UNCHANGED <<rows, param, lists, pc, call, visited, chosen, cuts, first, sums, order, docs, heap, result>>
    BY DEF diskVars, quantizedVars, vars, indexVars, listVars
  <1>2. /\ \A n : ClustersOf(n)' = ClustersOf(n)
        /\ \A n, i : Members(n, i)' = Members(n, i)
        /\ \A d : Score(d)' = Score(d)
        /\ Begun' = Begun /\ Visiting' = Visiting /\ Walking' = Walking /\ Searched' = Searched
    BY <1>1, WalkSteady DEF Begun, Visiting, Walking, Searched, RunsExact
  <1>3. /\ \A d : WorthNothing(d)' = WorthNothing(d)
        /\ \A d, n, i : Ahead(d, n, i)' = Ahead(d, n, i)
    BY <1>1, <1>2 DEF WorthNothing, Holder, Whole, Ahead
  <1>4. RankedInv'
    BY <1>1, <1>2 DEF SkipInv, RankedInv, Descending
  <1>5. OriginInv'
    BY <1>1, <1>2 DEF SkipInv, OriginInv
  <1>6. PassedInv'
    BY <1>1, <1>2, <1>3 DEF SkipInv, PassedInv
  <1> QED
    BY <1>1, <1>2, <1>4, <1>5, <1>6 DEF SkipInv

(* For every corpus, clustering and sequence of searches: a document of the *)
(* lists that were begun was visited, is still to come, or was passed over  *)
(* and worth nothing to a full holder, whose worst only grows               *)
(* (seismic_index.cpp:74-118).                                              *)
THEOREM SkipHolds == DiskSpec => []SkipInv
  <1>1. DiskInit => SkipInv
    BY SkipStarts
  <1>2. SearchInv /\ SkipInv /\ [DiskNext]_diskVars => SkipInv'
    BY StepsKeepSkip, SkipStutters
  <1> QED
    BY <1>1, <1>2, SearchHolds, PTL DEF DiskSpec

(* What the search in memory visited is all it reached, but for what was    *)
(* worth nothing to it.                                                     *)
LEMMA ReachedOrWorthNothing ==
  ASSUME SearchInv, SkipInv, Searched
  PROVE  /\ visited \intersect call.ids \subseteq Reached
         /\ \A d \in Reached : d \in Docs /\ (d \in visited \/ WorthNothing(d))
         /\ Reached \subseteq Docs
  <1>1. /\ pc = "idle" /\ cuts = <<>> /\ Walking /\ chosen \in Seq(Terms)
        /\ IndexInv /\ CallInv /\ CutsInv
    BY DEF Searched, Walking, SkipInv, SearchInv, CutsInv
  <1>2. Len(chosen) \in Nat /\ DOMAIN chosen = 1 .. Len(chosen) /\ Begun = DOMAIN chosen
    BY <1>1 DEF Begun
  <1>3. ASSUME NEW d \in visited, d \in call.ids
        PROVE  d \in Reached
    <2>1. PICK n \in Begun : \E i \in ClustersOf(n) : d \in Members(n, i)
      BY <1>1 DEF SkipInv, OriginInv
    <2>2. PICK i \in ClustersOf(n) : d \in Members(n, i)
      BY <2>1
    <2>3. chosen[n] < Len(lists) /\ i \in DOMAIN lists[chosen[n] + 1] /\ chosen[n] \in Range(chosen)
      BY <1>1, <1>2, BegunLists DEF Range
    <2> QED
      BY <1>3, <2>2, <2>3 DEF Reached, Members
  <1>4. ASSUME NEW d \in Reached
        PROVE  d \in Docs /\ (d \in visited \/ WorthNothing(d))
    <2>1. PICK t \in Range(chosen) :
            t < Len(lists) /\ \E i \in DOMAIN lists[t + 1] : d \in Range(lists[t + 1][i].docs)
      BY DEF Reached
    <2>2. PICK n \in DOMAIN chosen : chosen[n] = t
      BY DEF Range
    <2>3. PICK i \in DOMAIN lists[t + 1] : d \in Range(lists[t + 1][i].docs)
      BY <2>1
    <2>4. n \in Begun /\ i \in ClustersOf(n) /\ d \in Members(n, i)
      BY <1>2, <2>1, <2>2, <2>3 DEF ClustersOf, Members
    <2>5. d \in Docs
      BY <1>1, <2>4, BegunLists
    <2>6. ~Ahead(d, n, i)
      BY <1>1 DEF Ahead
    <2> QED
      BY <1>1, <2>4, <2>5, <2>6 DEF SkipInv, PassedInv
  <1> QED
    BY <1>3, <1>4

(* What a search in memory returned.                                        *)
LEMMA SearchedResult ==
  ASSUME SearchInv, Searched
  PROVE  /\ ScoreOf \in [Docs -> Nat] /\ call.k \in Nat \ {0}
         /\ visited \intersect call.ids \in SUBSET Docs
         /\ IsTop(result, ScoreOf, call.k, visited \intersect call.ids)
         /\ Returned \subseteq visited \intersect call.ids
         /\ IsFiniteSet(Returned) /\ Cardinality(Returned) = Size(result)
         /\ Size(result) <= call.k
         /\ IsFull(result, call.k) \/ Returned = visited \intersect call.ids
         /\ \A d \in Docs \ Returned : ItemOf(ScoreOf, d) \notin BagToSet(result)
         /\ \A x \in BagToSet(result) :
              x.doc \in Docs /\ x.score = Score(x.doc) /\ x = ItemOf(ScoreOf, x.doc)
         /\ IsFull(result, call.k) => LeastScore(result) \in Nat
  <1> DEFINE D == visited \intersect call.ids
  <1>1. /\ ScoreOf \in [Docs -> Nat] /\ call.k \in Nat \ {0} /\ D \in SUBSET Docs
        /\ IsTop(result, ScoreOf, call.k, D)
    BY ScoresAreNatural DEF SearchInv, HeapInv, IsCall, Searched
  <1> HIDE DEF D
  <1>2. PICK H \in SUBSET D : Holds(result, ScoreOf, H) /\ AreBest(H, ScoreOf, call.k, D)
    BY <1>1 DEF IsTop
  <1>3. IsFiniteSet(H) /\ Size(result) = Cardinality(H) /\ BagToSet(result) = ItemsOf(ScoreOf, H)
    BY <1>2, HolderSize DEF AreBest
  <1>4. Returned = H
    <2>1. \A x \in BagToSet(result) : x.doc \in H
      BY <1>3 DEF ItemsOf, ItemOf
    <2>2. \A e \in H : ItemOf(ScoreOf, e) \in BagToSet(result) /\ ItemOf(ScoreOf, e).doc = e
      BY <1>3 DEF ItemsOf, ItemOf
    <2> QED
      BY <2>1, <2>2 DEF Returned
  <1>5. Cardinality(H) = call.k \/ (H = D /\ Cardinality(H) <= call.k)
    BY <1>2 DEF AreBest
  <1>6. \A d \in Docs \ H : ItemOf(ScoreOf, d) \notin BagToSet(result)
    BY <1>3 DEF ItemsOf, ItemOf
  <1>7. \A x \in BagToSet(result) :
          x.doc \in Docs /\ x.score = Score(x.doc) /\ x = ItemOf(ScoreOf, x.doc)
    <2>1. H \subseteq Docs
      BY <1>1
    <2> QED
      BY <1>3, <2>1 DEF ItemsOf, ItemOf, ScoreOf
  <1>8. IsFull(result, call.k) => LeastScore(result) \in Nat
    BY <1>1, FullHasLeast
  <1> QED
    BY <1>1, <1>2, <1>3, <1>4, <1>5, <1>6, <1>7, <1>8 DEF IsFull, D

(* What it reached and does not return scores no more than all it returned, *)
(* if it was visited; else it was worth nothing.                            *)
LEMMA MissedScores ==
  ASSUME SearchInv, SkipInv, Searched, NEW d \in Reached \ Returned
  PROVE  /\ IsFull(result, call.k) /\ Score(d) \in Nat
         /\ Score(d) <= LeastScore(result) \/ WorthNothing(d)
  <1>1. d \in Docs /\ (d \in visited \/ WorthNothing(d)) /\ d \in call.ids
    BY ReachedOrWorthNothing DEF Reached
  <1>2. Score(d) \in Nat /\ ScoreOf[d] = Score(d)
    BY <1>1, SearchedResult DEF ScoreOf
  <1>3. CASE WorthNothing(d)
    BY <1>2, <1>3 DEF WorthNothing, Holder, Searched
  <1>4. CASE d \in visited
    <2> DEFINE D == visited \intersect call.ids
    <2>1. d \in D /\ ItemOf(ScoreOf, d) \notin BagToSet(result)
      BY <1>1, <1>4, SearchedResult
    <2>2. IsFull(result, call.k)
      BY <2>1, SearchedResult
    <2>3. /\ ScoreOf \in [Docs -> Nat] /\ call.k \in Nat \ {0} /\ D \in SUBSET Docs
          /\ IsTop(result, ScoreOf, call.k, D)
      BY SearchedResult
    <2> HIDE DEF D
    <2>4. ScoreOf[d] <= LeastScore(result)
      BY <2>1, <2>2, <2>3, FullHasLeast
    <2> QED
      BY <1>2, <2>2, <2>4
  <1> QED
    BY <1>1, <1>3, <1>4

(* So the search misses nothing by more than its factor.                    *)
LEMMA SkipIsWithinFactor == SearchInv /\ SkipInv => WithinFactor
  <1> SUFFICES ASSUME SearchInv, SkipInv, Searched
               PROVE  /\ IsFull(result, call.k) \/ Returned = Reached
                      /\ Whole => \A d \in Reached \ Returned :
                           \/ Score(d) <= LeastScore(result)
                           \/ Score(d) * call.factor.num < LeastScore(result) * call.factor.den
    BY DEF WithinFactor, Whole
  <1>1. IsFull(result, call.k) \/ Returned = Reached
    <2>1. Returned \subseteq Reached
      BY SearchedResult, ReachedOrWorthNothing
    <2> QED
      BY <2>1, MissedScores
  <1>2. ASSUME Whole, NEW d \in Reached \ Returned
        PROVE  \/ Score(d) <= LeastScore(result)
               \/ Score(d) * call.factor.num < LeastScore(result) * call.factor.den
    BY <1>2, MissedScores DEF WorthNothing, Holder, Searched
  <1> QED
    BY <1>1, <1>2

(* With nothing pruned and no term cut, the lists visited have what matches.*)
LEMMA AllIsReached ==
  ASSUME SearchInv, Searched, Unpruned
  PROVE  Reached = Matching
  <1>1. /\ IsCorpus(rows) /\ pc = "idle" /\ ~RunsExact(call)
        /\ Len(lists) \in Nat /\ DOMAIN lists = 1 .. Len(lists) /\ Len(lists) = Dim
    BY CorporaAreCorpora DEF SearchInv, IndexInv, Searched, Unpruned
  <1>2. Range(chosen) = QueryTerms(call) /\ Range(chosen) \subseteq Terms
    <2>1. /\ chosen \in Seq(Terms)
          /\ Range(chosen) \subseteq QueryTerms(call) /\ QueryTerms(call) \subseteq Range(chosen)
      BY <1>1 DEF SearchInv, CutsInv, Unpruned
    <2>2. \A i \in DOMAIN chosen : chosen[i] \in Terms
      BY <2>1, SequenceElement
    <2> QED
      BY <2>1, <2>2 DEF Range
  <1>3. ASSUME NEW t \in Range(chosen)
        PROVE  t < Len(lists) /\ t + 1 \in DOMAIN lists /\ (t + 1) - 1 = t
    <2>1. t \in Nat /\ t < Dim /\ Dim \in Nat
      BY <1>2, DimAssumption DEF Terms
    <2> QED
      BY <1>1, <2>1
  <1>4. ASSUME NEW d \in Reached
        PROVE  d \in Matching
    <2>1. PICK t \in Range(chosen) : \E i \in DOMAIN lists[t + 1] : d \in Range(lists[t + 1][i].docs)
      BY DEF Reached
    <2>2. PICK i \in DOMAIN lists[t + 1] : d \in Range(lists[t + 1][i].docs)
      BY <2>1
    <2>3. IndexInv /\ t + 1 \in DOMAIN lists /\ (t + 1) - 1 = t
      BY <1>3 DEF SearchInv
    <2>4. d \in Having(rows, t) /\ d \in Docs
      BY <2>2, <2>3, ClusterDocs
    <2> QED
      BY <1>2, <2>4 DEF Matching, Having, Reached
  <1>5. ASSUME NEW d \in Matching
        PROVE  d \in Reached
    <2>1. PICK t \in QueryTerms(call) : t \in DOMAIN Row(rows, d)
      BY DEF Matching
    <2>2. d \in call.ids /\ d \in Having(rows, t)
      BY <2>1 DEF Matching, Having, Docs
    <2>3. t \in Range(chosen) /\ t < Len(lists) /\ t + 1 \in DOMAIN lists /\ (t + 1) - 1 = t
      BY <1>2, <1>3
    <2>4. IsClustering(lists[t + 1], rows, t, param)
      BY <2>3 DEF SearchInv, IndexInv
    <2>5. PICK j \in DOMAIN lists[t + 1] : d \in Range(lists[t + 1][j].docs)
      BY <2>2, <2>4 DEF IsClustering, Unpruned
    <2> QED
      BY <2>2, <2>3, <2>5 DEF Reached
  <1> QED
    BY <1>4, <1>5

(* And where nothing is pruned and the factor passes nothing over, nothing. *)
LEMMA SkipIsLossless == SearchInv /\ SkipInv => LosslessIsExact
  <1> SUFFICES ASSUME SearchInv, SkipInv, Searched, Exhaustive
               PROVE  /\ Returned \subseteq Matching
                      /\ Cardinality(Returned) = Min({Cardinality(Matching), call.k})
                      /\ \A d \in Matching \ Returned : Score(d) <= LeastScore(result)
    BY DEF LosslessIsExact
  <1>1. /\ Reached = Matching /\ Returned \subseteq Matching
        /\ Matching \in SUBSET Docs
    BY AllIsReached, SearchedResult, ReachedOrWorthNothing DEF Exhaustive
  <1>2. /\ call.k \in Nat /\ Cardinality(Returned) = Size(result) /\ Size(result) <= call.k
        /\ IsFiniteSet(Matching) /\ Cardinality(Matching) \in Nat
        /\ Cardinality(Returned) <= Cardinality(Matching)
    <2>1. IsFiniteSet(Matching) /\ Cardinality(Matching) \in Nat
      BY <1>1, DocsAreFinite DEF SearchInv
    <2> QED
      BY <1>1, <2>1, SearchedResult, FS_Subset
  <1>3. IsFull(result, call.k) \/ Returned = Matching
    BY <1>1, SkipIsWithinFactor DEF WithinFactor
  <1>4. Cardinality(Returned) = Min({Cardinality(Matching), call.k})
    <2>1. CASE IsFull(result, call.k)
      BY <1>2, <2>1, LeastOfTwo DEF IsFull
    <2>2. CASE Returned = Matching
      BY <1>2, <2>2, LeastOfTwo
    <2> QED
      BY <1>3, <2>1, <2>2
  <1>5. ASSUME NEW d \in Matching \ Returned
        PROVE  Score(d) <= LeastScore(result)
    <2>1. /\ IsFull(result, call.k) /\ Score(d) \in Nat
          /\ Score(d) <= LeastScore(result) \/ WorthNothing(d)
      BY <1>1, MissedScores
    <2>2. CASE WorthNothing(d)
      <3>1. Score(d) * call.factor.num < LeastScore(result) * call.factor.den
        BY <2>2 DEF WorthNothing, Holder, Searched, Exhaustive, Whole
      <3>2. /\ call.factor.num \in Nat /\ call.factor.den \in Nat \ {0}
            /\ call.factor.den <= call.factor.num
        <4>1. call \in Calls \/ call = NoCall
          BY AskedIsACall DEF SearchInv, IndexInv, CallInv
        <4> QED
          BY <4>1, CallsAssumption DEF NoCall, Exhaustive
      <3>3. LeastScore(result) \in Nat
        BY <2>1, SearchedResult
      <3> DEFINE n == call.factor.num
                 e == call.factor.den
                 s == Score(d)
                 l == LeastScore(result)
      <3>4. n \in Nat /\ e \in Nat /\ e <= n /\ s \in Nat /\ l \in Nat /\ s * n < l * e
        BY <2>1, <3>1, <3>2, <3>3
      <3> HIDE DEF n, e, s, l
      <3>5. s * e <= s * n /\ s * e \in Nat /\ s * n \in Nat /\ l * e \in Nat
        BY <3>4, ProductGrows
      <3>6. s * e < l * e
        BY <3>4, <3>5
      <3>7. s <= l
        <4> SUFFICES ASSUME l <= s PROVE l * e <= s * e
          BY <3>4, <3>5, <3>6
        <4> QED
          BY <3>4, ProductGrows
      <3> QED
        BY <3>7 DEF s, l
    <2> QED
      BY <2>1, <2>2
  <1> QED
    BY <1>1, <1>4, <1>5

(* For every corpus, clustering, parameters and search in memory: unless k  *)
(* were found, all that the lists visited have is returned; and with no     *)
(* summary pruned nothing that beats the worst returned by the factor is    *)
(* missed (seismic_index.cpp:78-92).                                        *)
THEOREM WithinFactorHolds == DiskSpec => []WithinFactor
  BY SearchHolds, SkipHolds, SkipIsWithinFactor, PTL

(* A document that has none of a search's terms scores nothing.             *)
LEMMA UnmatchedScoresNothing ==
  ASSUME NEW d \in Docs \intersect call.ids, d \notin Matching
  PROVE  Score(d) = 0
  <1> DEFINE f == [t \in DOMAIN Row(rows, d) \intersect DOMAIN QueryRow(call) |->
                     Row(rows, d)[t] * QueryRow(call)[t]]
  <1>1. DOMAIN Row(rows, d) \intersect DOMAIN QueryRow(call) = {}
    BY DEF Matching, QueryRow
  <1>2. DOMAIN f = {} /\ f \in [{} -> Nat]
    BY <1>1
  <1> HIDE DEF f
  <1>3. SumOf(f) = 0
    BY <1>2, SumOfNone
  <1> QED
    BY <1>3 DEF f, Score, Inner

(* The scores of codes and what they stand for are in the same order.       *)
LEMMA DecodingIsMonotone ==
  ASSUME SearchInv, call # NoCall, NEW a \in Nat, NEW b \in Nat, a <= b
  PROVE  decode_dot_product(a) <= decode_dot_product(b)
  <1>1. CASE sq.type = "float"
    BY <1>1 DEF decode_dot_product
  <1>2. CASE sq.type # "float"
    <2> DEFINE r == QueryQuantizer(sq, asked)
               e == Extent(sq)
               g == Extent(r)
    <2>1. IsRange(sq) /\ IsRange(r) /\ r.type = sq.type
      BY QuantizersAreRanges DEF Asked, SearchInv, CallInv, IndexInv
    <2>2. e \in Nat /\ g \in Nat
      <3> HIDE DEF r
      <3> QED
        BY <1>2, <2>1 DEF IsRange, IsQuantizer, Extent
    <2>3. /\ decode_dot_product(a) = 4 * a * e * g
          /\ decode_dot_product(b) = 4 * b * e * g
      BY <1>2 DEF decode_dot_product
    <2> HIDE DEF r, e, g
    <2>4. 4 * a \in Nat /\ 4 * b \in Nat /\ 4 * a <= 4 * b
      OBVIOUS
    <2> DEFINE u == 4 * a
               v == 4 * b
    <2>5. u * e <= v * e /\ u * e \in Nat /\ v * e \in Nat
      <3> HIDE DEF u, v
      <3> QED
        BY <2>2, <2>4, ProductGrows DEF u, v
    <2>6. (u * e) * g <= (v * e) * g
      <3> DEFINE y == u * e
                 z == v * e
      <3>1. y \in Nat /\ z \in Nat /\ y <= z
        BY <2>5
      <3> HIDE DEF y, z
      <3>2. y * g <= z * g
        BY <2>2, <3>1, ProductGrows
      <3> QED
        BY <3>2 DEF y, z
    <2> QED
      BY <2>3, <2>6
  <1> QED
    BY <1>1, <1>2

(* What an exhaustive search in memory does not return, of all documents    *)
(* selected, scores no more than what it does.                              *)
LEMMA NothingBetterIsLeftOut ==
  ASSUME SearchInv, SkipInv, Searched, Exhaustive,
         NEW d \in (Docs \intersect call.ids) \ Returned, NEW x \in BagToSet(result)
  PROVE  Score(d) \in Nat /\ x.score \in Nat /\ Score(d) <= x.score
  <1>1. Score(d) \in Nat /\ x.score \in Nat
    <2>1. ScoreOf \in [Docs -> Nat] /\ x.doc \in Docs /\ x.score = Score(x.doc)
      BY SearchedResult
    <2> QED
      BY <2>1 DEF ScoreOf
  <1>2. CASE d \in Matching
    <2>1. Score(d) <= LeastScore(result)
      BY <1>2, SkipIsLossless DEF LosslessIsExact
    <2>2. IsFull(result, call.k)
      BY <1>2, AllIsReached, MissedScores DEF Exhaustive
    <2> DEFINE D == visited \intersect call.ids
    <2>3. /\ ScoreOf \in [Docs -> Nat] /\ call.k \in Nat \ {0} /\ D \in SUBSET Docs
          /\ IsTop(result, ScoreOf, call.k, D)
      BY SearchedResult
    <2> HIDE DEF D
    <2>4. LeastScore(result) \in Nat /\ LeastScore(result) <= x.score
      BY <2>2, <2>3, FullHasLeast
    <2> QED
      BY <1>1, <2>1, <2>4
  <1>3. CASE d \notin Matching
    BY <1>1, <1>3, UnmatchedScoresNothing
  <1> QED
    BY <1>1, <1>2, <1>3

(* So the answers of an exhaustive search are nearly those of the weights.  *)
LEMMA LosslessIsNear == SearchInv /\ SkipInv => LosslessIsNearlyExact
  <1> SUFFICES ASSUME SearchInv, SkipInv, Searched, Exhaustive, FromZero, InRange,
                      NEW d \in (Docs \intersect call.ids) \ Returned, NEW x \in BagToSet(result)
               PROVE  TrueScore(d) * Unit <=
                        TrueScore(x.doc) * Unit + RoundingError(d) + RoundingError(x.doc)
    BY SkipIsLossless DEF LosslessIsNearlyExact
  <1> DEFINE b == x.doc
  <1>1. d \in Docs /\ b \in Docs /\ x.score = Score(b) /\ call # NoCall
    BY SearchedResult DEF Searched
  <1>2. decode_dot_product(Score(d)) <= decode_dot_product(Score(b))
    <2>1. Score(d) \in Nat /\ Score(b) \in Nat /\ Score(d) <= Score(b)
      BY <1>1, NothingBetterIsLeftOut
    <2> QED
      BY <1>1, <2>1, DecodingIsMonotone
  <1>3. TrueScore(d) * Unit = ClampedScore(d) * Unit /\ TrueScore(b) * Unit = ClampedScore(b) * Unit
    BY <1>1 DEF InRange
  <1>4. /\ decode_dot_product(Score(d)) \in Nat /\ RoundingError(d) \in Nat
        /\ ClampedScore(d) * Unit \in Nat
        /\ ClampedScore(d) * Unit <= decode_dot_product(Score(d)) + RoundingError(d)
    BY <1>1, DecodedScoreIsNear
  <1>5. /\ decode_dot_product(Score(b)) \in Nat /\ RoundingError(b) \in Nat
        /\ ClampedScore(b) * Unit \in Nat
        /\ decode_dot_product(Score(b)) <= ClampedScore(b) * Unit + RoundingError(b)
    BY <1>1, DecodedScoreIsNear
  <1> HIDE DEF b
  <1>6. TrueScore(d) * Unit <= TrueScore(b) * Unit + RoundingError(d) + RoundingError(b)
    BY <1>2, <1>3, <1>4, <1>5
  <1> QED
    BY <1>6 DEF b

(* For every corpus, quantizer, range of the query's own and search in      *)
(* memory with nothing pruned anywhere: the top k by codes is returned, and *)
(* nothing better by the caller's weights than rounding lets it is left out *)
(* (seismic_scalar_quantized_index.cpp:67-135, :296-347).                   *)
THEOREM LosslessHolds == DiskSpec => []LosslessIsNearlyExact
  BY SearchHolds, SkipHolds, LosslessIsNear, PTL
=============================================================================
