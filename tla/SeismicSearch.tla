--------------------------- MODULE SeismicSearch ---------------------------
(***************************************************************************)
(* SeismicIndex::search (nsparse/seismic_index.cpp) as one OpenMP thread   *)
(* runs it: query after query, with a dense query vector and a set of      *)
(* visited documents that outlive the query (and here the call, which      *)
(* makes no difference to a vector that is clean).  Threads share nothing  *)
(* they write.  The lists are those build() makes, by module Clustering.   *)
(*                                                                         *)
(* A query is a sequence of distinct [term, weight] with terms below Dim:  *)
(* the dense vector has no room for others.                                *)
(***************************************************************************)
EXTENDS TopKHolder, SeismicQuery, DistanceKernels

CONSTANTS
  Dim,      \* terms are 0 .. Dim-1
  Corpora,  \* the corpora considered
  Params,   \* of an index: [disk, isa, type, lambda, beta, alpha]; is it a
            \* disk-resident one? what is it compiled for, what does it store?
  Calls     \* the searches: [query, k, cut, factor, ids, listed]
            \* ids: what the selector accepts; listed: can it enumerate them?

ASSUME DimAssumption    == Dim \in Nat
(* A term past the dimension makes build() throw (inverted_lists.cpp:238).  *)
ASSUME RowsAssumption   ==
  \A c \in Corpora :
    /\ c \in Seq({c[i] : i \in DOMAIN c})
    /\ \A i \in DOMAIN c : DOMAIN c[i] \subseteq 0 .. Dim - 1 /\ c[i] \in [DOMAIN c[i] -> Nat]
ASSUME ParamsAssumption ==
  \A p \in Params : p.lambda \in Nat /\ p.beta \in Nat /\ p.alpha.den \in Nat \ {0}
(* "Every cluster index must fit in cluster_id_t" (cluster/                 *)
(* inverted_list_clusters.cpp:249-250).                                     *)
ASSUME ClustersAssumption ==
  \A c \in Corpora, p \in Params : \A n \in 1 .. Len(c) : NClusters(p.beta, n) <= MaxClusters
ASSUME CallsAssumption  ==
  \A call \in Calls :
    /\ call.k \in Nat \ {0} /\ call.cut \in Nat \ {0}
    /\ call.factor.num \in Nat /\ call.factor.den \in Nat \ {0}
    /\ call.query \in Seq([term : 0 .. Dim - 1, weight : Nat])
    /\ \A i, j \in DOMAIN call.query : call.query[i].term = call.query[j].term => i = j
    /\ IsFiniteSet(call.ids)

VARIABLES
  rows,     \* vectors_
  param,    \* its kind, element_size and cluster_parameter_
  lists,    \* clustered_inverted_lists; empty before build()
  pc,       \* "idle" | "build" | "list" | "cluster" | "docs"; DiskSeismicSearch has more
  call,     \* the search that runs, or ran last
  dense,    \* the thread's dense query vector
  visited,  \* the thread's visited documents
  chosen,   \* the terms the cut kept
  cuts,     \* those still to do
  first,    \* first_list
  sums,     \* summary_scores of the list being visited
  order,    \* its clusters still to visit
  docs,     \* documents of the cluster being visited still to score
  heap,     \* the TopKHolder
  result    \* what the last query returned

indexVars == <<rows, param, lists>>
listVars  == <<sums, order, docs>>
vars == <<indexVars, pc, call, dense, visited, chosen, cuts, first, listVars, heap, result>>

Terms == 0 .. Dim - 1
Docs  == 0 .. Len(rows) - 1

NoCall == [query |-> <<>>, k |-> 1, cut |-> 1, factor |-> [num |-> 1, den |-> 1],
           ids |-> {}, listed |-> FALSE]

(* compute_similarity *)
Dot(d) == dot_product_dense(param.isa, param.type, Row(rows, d), dense)

(* should_run_exact_match *)
RunsExact(c) == c.listed /\ Cardinality(c.ids) <= c.k
-----------------------------------------------------------------------------
Init ==
  /\ rows \in Corpora
  /\ param \in Params
  /\ lists = <<>>
  /\ pc = "idle"
  /\ call = NoCall
  /\ dense = [t \in Terms |-> 0]
  /\ visited = {}
  /\ chosen = <<>> /\ cuts = <<>> /\ first = TRUE
  /\ sums = <<>> /\ order = <<>> /\ docs = <<>>
  /\ heap = EmptyBag /\ result = EmptyBag

(* build(): the list of each term.  Their order and the threads that make   *)
(* them are BatchedBuild's subject.                                         *)
Build ==
  /\ pc = "idle"
  /\ lists = <<>>
  /\ pc' = IF Dim = 0 THEN "idle" ELSE "build"
  /\ call' = NoCall /\ chosen' = <<>> /\ result' = EmptyBag
  /\ UNCHANGED <<indexVars, dense, visited, cuts, first, listVars, heap>>

BuildList ==
  /\ pc = "build"
  /\ lists' \in {Append(lists, l) : l \in Clusterings(rows, Len(lists), param)}
  /\ pc' = IF Len(lists') = Dim THEN "idle" ELSE "build"
  /\ UNCHANGED <<rows, param, call, dense, visited, chosen, cuts, first, listVars,
                 heap, result>>

(* A selector that can list no more than k ids: score each of them that is  *)
(* in the index (ExactMatcher, with a dense vector of its own).             *)
ExactMatch(c) ==
  /\ pc = "idle"
  /\ RunsExact(c)
  /\ call' = c /\ chosen' = <<>>
  /\ LET query == [t \in Terms |-> IF t \in QueryTerms(c) THEN Weight(c, t) ELSE 0]
     IN  result' = SetToBag({[score |-> dot_product_dense(param.isa, param.type,
                                                          Row(rows, d), query),
                              doc |-> d] : d \in c.ids \intersect Docs})
  /\ UNCHANGED <<indexVars, pc, dense, visited, cuts, first, listVars, heap>>

(* single_query's head: scatter the query, forget the documents visited.    *)
StartQuery(c) ==
  /\ pc = "idle"
  /\ ~param.disk /\ ~RunsExact(c)
  /\ call' = c
  /\ chosen' \in CutsOf(c)
  /\ cuts' = chosen'
  /\ dense' = [t \in Terms |-> IF t \in QueryTerms(c) THEN Weight(c, t) ELSE dense[t]]
  /\ visited' = {}
  /\ first' = TRUE
  /\ heap' = EmptyBag /\ result' = EmptyBag
  /\ pc' = "list"
  /\ UNCHANGED <<indexVars, listVars>>

(* The clusters in the order they are visited: the first list's by          *)
(* descending summary score, the others' as they come.                      *)
Orders(s) ==
  IF first
    THEN {o \in Arrangements(DOMAIN s, Len(s)) :
            \A i \in 1 .. Len(s) - 1 : s[o[i]] >= s[o[i + 1]]}
    ELSE {[i \in DOMAIN s |-> i]}

(* The next term: skipped past the lists; else its summaries are scored.    *)
OpenList ==
  /\ pc = "list"
  /\ cuts # <<>>
  /\ cuts' = Tail(cuts)
  /\ IF Head(cuts) >= Len(lists)
       THEN UNCHANGED <<pc, first, sums, order>>
       ELSE LET clusters == lists[Head(cuts) + 1]
            IN  IF clusters = <<>>
                  THEN first' = FALSE /\ UNCHANGED <<pc, sums, order>>
                  ELSE /\ sums' = SummaryScores(clusters, call)
                       /\ order' \in Orders(sums')
                       /\ pc' = "cluster"
                       /\ UNCHANGED first
  /\ UNCHANGED <<indexVars, call, dense, visited, chosen, docs, heap, result>>

(* The list being visited is the one before those still to do. *)
CurrentList == lists[chosen[Len(chosen) - Len(cuts)] + 1]

(* Mutated: does not wait for the heap to be full. *)
HopelessEarly(i) ==
  heap # EmptyBag /\ sums[i] * call.factor.num < LeastScore(heap) * call.factor.den

(* The summary says that no document of cluster i is worth scoring. *)
Hopeless(i) ==
  IsFull(heap, call.k) /\ sums[i] * call.factor.num < LeastScore(heap) * call.factor.den

(* Mutated: gives up a list that is not sorted. *)
NextClusterAlwaysBreaks ==
  /\ pc = "cluster"
  /\ order # <<>>
  /\ IF Hopeless(Head(order))
       THEN order' = <<>> /\ UNCHANGED <<pc, docs>>
       ELSE /\ order' = Tail(order)
            /\ docs' = CurrentList[Head(order)].docs
            /\ pc' = "docs"
  /\ UNCHANGED <<indexVars, call, dense, visited, chosen, cuts, first, sums, heap, result>>

(* A hopeless cluster is passed over; in the first list, so are all that    *)
(* come after it.                                                           *)
NextCluster ==
  /\ pc = "cluster"
  /\ order # <<>>
  /\ IF Hopeless(Head(order))
       THEN /\ order' = IF first THEN <<>> ELSE Tail(order)
            /\ UNCHANGED <<pc, docs>>
       ELSE /\ order' = Tail(order)
            /\ docs' = CurrentList[Head(order)].docs
            /\ pc' = "docs"
  /\ UNCHANGED <<indexVars, call, dense, visited, chosen, cuts, first, sums, heap, result>>

(* Mutated: a document that was visited is scored again. *)
ScanDocAgain ==
  /\ pc = "docs"
  /\ LET d == Head(docs)
     IN  /\ visited' = visited \union {d}
         /\ IF d \notin call.ids
              THEN UNCHANGED heap
              ELSE heap' \in Added(heap, call.k, [score |-> Dot(d), doc |-> d])
  /\ docs' = Tail(docs)
  /\ pc' = IF docs' = <<>> THEN "cluster" ELSE "docs"
  /\ UNCHANGED <<indexVars, call, dense, chosen, cuts, first, sums, order, result>>

(* One document of the cluster. *)
ScanDoc ==
  /\ pc = "docs"
  /\ LET d == Head(docs)
     IN  /\ visited' = visited \union {d}
         /\ IF d \in visited \/ d \notin call.ids
              THEN UNCHANGED heap
              ELSE heap' \in Added(heap, call.k, [score |-> Dot(d), doc |-> d])
  /\ docs' = Tail(docs)
  /\ pc' = IF docs' = <<>> THEN "cluster" ELSE "docs"
  /\ UNCHANGED <<indexVars, call, dense, chosen, cuts, first, sums, order, result>>

ListDone ==
  /\ pc = "cluster"
  /\ order = <<>>
  /\ first' = FALSE
  /\ sums' = <<>>
  /\ pc' = "list"
  /\ UNCHANGED <<indexVars, call, dense, visited, chosen, cuts, order, docs, heap, result>>

(* Mutated: clears only the terms the cut kept. *)
FinishClearsCuts ==
  /\ pc = "list"
  /\ cuts = <<>>
  /\ dense' = [t \in Terms |-> IF t \in Range(chosen) THEN 0 ELSE dense[t]]
  /\ result' = heap /\ heap' = EmptyBag
  /\ pc' = "idle"
  /\ UNCHANGED <<indexVars, call, visited, chosen, cuts, first, listVars>>

(* The sparse clear; then the heap, best first, and padding.                *)
Finish ==
  /\ pc = "list"
  /\ cuts = <<>>
  /\ dense' = [t \in Terms |-> IF t \in QueryTerms(call) THEN 0 ELSE dense[t]]
  /\ result' = heap /\ heap' = EmptyBag
  /\ pc' = "idle"
  /\ UNCHANGED <<indexVars, call, visited, chosen, cuts, first, listVars>>

Next ==
  \/ Build \/ BuildList
  \/ \E c \in Calls : ExactMatch(c) \/ StartQuery(c)
  \/ OpenList \/ NextCluster \/ ScanDoc \/ ListDone \/ Finish

Spec == Init /\ [][Next]_vars
-----------------------------------------------------------------------------
Item == [score : Nat, doc : Docs]

TypeOK ==
  /\ Len(lists) <= Dim
  /\ \A t \in DOMAIN lists : \A i \in DOMAIN lists[t] : Range(lists[t][i].docs) \subseteq Docs
  /\ dense \in [Terms -> Nat]
  /\ visited \subseteq Docs
  /\ Range(chosen) \subseteq Terms /\ Range(cuts) \subseteq Range(chosen)
  /\ first \in BOOLEAN
  /\ Range(order) \subseteq DOMAIN sums
  /\ Range(docs) \subseteq Docs
  /\ BagToSet(heap) \subseteq Item /\ Size(heap) <= call.k
  /\ BagToSet(result) \subseteq Item /\ Size(result) <= call.k

Score(d) == Inner(Row(rows, d), QueryRow(call))

Returned == {x.doc : x \in BagToSet(result)}

(* The selected documents of the lists the cut kept. *)
Reached ==
  {d \in call.ids : \E t \in Range(chosen) :
     t < Len(lists) /\ \E i \in DOMAIN lists[t + 1] : d \in Range(lists[t + 1][i].docs)}

Searched == pc = "idle" /\ call # NoCall /\ ~RunsExact(call) /\ ~param.disk

(* "kept all-zero between queries via a sparse clear" (seismic_index.cpp:   *)
(* 191-192): nothing of one query is left for the next, though only some of *)
(* its terms were searched.                                                 *)
DenseClean == pc = "idle" => \A t \in Terms : dense[t] = 0

(* Whatever is pruned, what a query returns is right as far as it goes:     *)
(* selected documents, each once though it may be in several lists, with    *)
(* exact scores (seismic_index.cpp:104-115).                                *)
SoundResult ==
  pc = "idle" /\ call # NoCall =>
    /\ \A x \in BagToSet(result) : x.doc \in call.ids /\ x.score = Score(x.doc)
    /\ Cardinality(Returned) = Size(result)

(* A query misses something only once its heap is full, as only then is a   *)
(* cluster passed over; and with summaries that were not pruned, what it    *)
(* misses is worse than all it returned, or would be once scaled by the heap*)
(* factor: a break never passes over more than the summaries allow          *)
(* (seismic_index.cpp:78-85).                                               *)
WithinFactor ==
  Searched =>
    /\ IsFull(result, call.k) \/ Returned = Reached
    /\ param.alpha.num = param.alpha.den =>
         \A d \in Reached \ Returned :
           \/ Score(d) <= LeastScore(result)
           \/ Score(d) * call.factor.num < LeastScore(result) * call.factor.den

(* With nothing pruned anywhere -- lists, summaries, query, factor -- the   *)
(* approximate search is an exact one: a top k of all selected documents    *)
(* that share a term with the query, whatever clusters were drawn.          *)
Unpruned ==
  /\ lists # <<>>
  /\ param.lambda = 0 \/ param.lambda >= Len(rows)
  /\ call.cut >= Len(call.query)

Exhaustive ==
  Unpruned /\ param.alpha.num = param.alpha.den /\ call.factor.num >= call.factor.den

Matching == {d \in Docs \intersect call.ids : DOMAIN Row(rows, d) \intersect QueryTerms(call) # {}}

LosslessIsExact ==
  Searched /\ Exhaustive =>
    /\ Returned \subseteq Matching
    /\ Cardinality(Returned) = Min({Cardinality(Matching), call.k})
    /\ \A d \in Matching \ Returned : Score(d) <= LeastScore(result)
=============================================================================
