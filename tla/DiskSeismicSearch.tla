------------------------- MODULE DiskSeismicSearch -------------------------
(***************************************************************************)
(* The search of the disk-resident seismic indexes                         *)
(* (nsparse/disk_seismic_search.cpp, disk_seismic_index_base.cpp) as one   *)
(* OpenMP thread runs it, query after query: rank the blocks of all the    *)
(* lists the cut keeps by their summaries, score the documents of the best *)
(* `budget` of them.  Build, exact match, encoding and decoding, and the   *)
(* thread's scratch are those of the in-memory indexes, which module       *)
(* QuantizedSearch describes; which of the two an index is, is param.disk. *)
(*                                                                         *)
(* Blocks are read from the mapped file or from the corpus, which hold the *)
(* same (DiskSeismicIndex!ScoresWhatItRanks).                              *)
(***************************************************************************)
EXTENDS QuantizedSearch

ASSUME BudgetsAssumption == \A q \in Questions : q.budget \in Int

VARIABLES
  candidates, \* the blocks ranked: [list, cluster, score], in the order met
  blocks,     \* those within the budget, still to score
  taken       \* the blocks within the budget, in the order they are scored

blockVars == <<candidates, blocks, taken>>
diskVars  == <<quantizedVars, blockVars>>
-----------------------------------------------------------------------------
DiskInit ==
  /\ QuantizedInit
  /\ candidates = <<>> /\ blocks = <<>> /\ taken = <<>>

(* What the two kinds of index share, and all of one that is in memory.     *)
InMemory == QuantizedNext /\ UNCHANGED blockVars

(* search(), and the head of block_budget_query.  A budget that is not      *)
(* positive throws before anything is touched, but after the exact match.   *)
AskBudget(q) ==
  LET c == CallOf(sq, q)
  IN  /\ pc = "idle"
      /\ IsQuantizer(QueryQuantizer(sq, q))
      /\ param.disk /\ ~RunsExact(c)
      /\ q.budget > 0
      /\ asked' = q
      /\ call' = c
      /\ chosen' \in CutsOf(c)
      /\ cuts' = chosen'
      /\ dense' = [t \in Terms |-> IF t \in QueryTerms(c) THEN Weight(c, t) ELSE dense[t]]
      /\ visited' = {}
      /\ candidates' = <<>> /\ taken' = <<>>
      /\ heap' = EmptyBag /\ result' = EmptyBag
      /\ pc' = "collect"
      /\ UNCHANGED <<indexVars, first, listVars, weights, sq, blocks>>

(* The blocks of the next term's list, if it has one, each with its         *)
(* summary's score.                                                         *)
CollectList ==
  /\ pc = "collect"
  /\ cuts # <<>>
  /\ cuts' = Tail(cuts)
  /\ IF Head(cuts) >= Len(lists)
       THEN UNCHANGED candidates
       ELSE LET clusters == lists[Head(cuts) + 1]
                scores   == SummaryScores(clusters, call)
            IN  candidates' = candidates \o
                  [i \in DOMAIN clusters |->
                     [list |-> Head(cuts) + 1, cluster |-> i, score |-> scores[i]]]
  /\ UNCHANGED <<indexVars, pc, call, dense, visited, chosen, first, listVars, heap, result,
                 callerVars, blocks, taken>>

(* Mutated: the comparison is the wrong way round. *)
BestBlocksWorst(n) ==
  IF n >= Len(candidates)
    THEN {candidates}
    ELSE {s \in Arrangements(Range(candidates), n) :
            \A x \in Range(candidates) \ Range(s) : \A y \in Range(s) : x.score >= y.score}

(* Mutated: one block fewer than the budget. *)
BestBlocksShort(n) ==
  IF n > Len(candidates)
    THEN {candidates}
    ELSE {s \in Arrangements(Range(candidates), n - 1) :
            \A x \in Range(candidates) \ Range(s) : \A y \in Range(s) : x.score <= y.score}

(* nth_element: some n blocks that none left out outranks, in some order.   *)
BestBlocks(n) ==
  IF n >= Len(candidates)
    THEN {candidates}
    ELSE {s \in Arrangements(Range(candidates), n) :
            \A x \in Range(candidates) \ Range(s) : \A y \in Range(s) : x.score <= y.score}

SelectBlocks ==
  /\ pc = "collect"
  /\ cuts = <<>>
  /\ taken' \in BestBlocks(asked.budget)
  /\ blocks' = taken'
  /\ pc' = "score"
  /\ UNCHANGED <<indexVars, call, dense, visited, chosen, cuts, first, listVars, heap, result,
                 callerVars, candidates>>

DocsOf(block) == lists[block.list][block.cluster].docs

(* score_block *)
NextBlock ==
  /\ pc = "score"
  /\ docs = <<>>
  /\ blocks # <<>>
  /\ docs' = DocsOf(Head(blocks))
  /\ blocks' = Tail(blocks)
  /\ UNCHANGED <<indexVars, pc, call, dense, visited, chosen, cuts, first, sums, order, heap,
                 result, callerVars, candidates, taken>>

(* Mutated: a document that was visited is scored again. *)
ScoreDocAgain ==
  /\ pc = "score"
  /\ docs # <<>>
  /\ LET d == Head(docs)
     IN  /\ visited' = visited \union {d}
         /\ IF d \notin call.ids
              THEN UNCHANGED heap
              ELSE heap' \in Added(heap, call.k, [score |-> Dot(d), doc |-> d])
  /\ docs' = Tail(docs)
  /\ UNCHANGED <<indexVars, pc, call, dense, chosen, cuts, first, sums, order, result, callerVars,
                 blockVars>>

(* score_doc *)
ScoreDoc ==
  /\ pc = "score"
  /\ docs # <<>>
  /\ LET d == Head(docs)
     IN  /\ visited' = visited \union {d}
         /\ IF d \in visited \/ d \notin call.ids
              THEN UNCHANGED heap
              ELSE heap' \in Added(heap, call.k, [score |-> Dot(d), doc |-> d])
  /\ docs' = Tail(docs)
  /\ UNCHANGED <<indexVars, pc, call, dense, chosen, cuts, first, sums, order, result, callerVars,
                 blockVars>>

(* The sparse clear; then the heap, best first, and padding. *)
FinishBudget ==
  /\ pc = "score"
  /\ docs = <<>> /\ blocks = <<>>
  /\ dense' = [t \in Terms |-> IF t \in QueryTerms(call) THEN 0 ELSE dense[t]]
  /\ result' = heap /\ heap' = EmptyBag
  /\ pc' = "idle"
  /\ UNCHANGED <<indexVars, call, visited, chosen, cuts, first, listVars, callerVars, blockVars>>

DiskNext ==
  \/ InMemory
  \/ \E q \in Questions : AskBudget(q)
  \/ CollectList \/ SelectBlocks \/ NextBlock \/ ScoreDoc \/ FinishBudget

DiskSpec == DiskInit /\ [][DiskNext]_diskVars
-----------------------------------------------------------------------------
SearchedBlocks == pc = "idle" /\ call # NoCall /\ ~RunsExact(call) /\ param.disk

(* The selected documents of some blocks. *)
Among(bs) == {d \in call.ids : \E b \in bs : d \in Range(DocsOf(b))}

(* The result is a top k of the documents ds, by the codes' exact scores. *)
IsTopKOf(ds) ==
  /\ Returned \subseteq ds
  /\ Size(result) = Cardinality(Returned)
  /\ \A x \in BagToSet(result) : x.score = Score(x.doc)
  /\ Cardinality(Returned) = Min({call.k, Cardinality(ds)})
  /\ \A d \in ds \ Returned : \A x \in BagToSet(result) : Score(d) <= x.score

(* "dense is ... all-zero on entry and restored to all-zero on exit"        *)
(* (disk_seismic_search.h:68-69), whatever the cut leaves out of a query.   *)
DenseRestored == pc \in {"build", "idle"} => \A t \in Terms : dense[t] = 0

(* Within the blocks the budget allows -- all it allows -- search is exact: *)
(* a document of several blocks or none the selector wants is scored once   *)
(* or not at all (disk_seismic_search.cpp:188-193).  "Once K' reaches the   *)
(* candidate-block count, a larger budget changes nothing"                  *)
(* (disk_seismic_index_test.cpp:226) -- these are then all documents of the *)
(* lists visited, and all that match the query if the lists are whole and   *)
(* none is cut.  And what a budget costs: a document better than one        *)
(* returned is missed only if every block it is in ranks no higher than any *)
(* that was scored (:174-186).                                              *)
ExactWithinBudget ==
  SearchedBlocks =>
    /\ Len(taken) = Min({asked.budget, Len(candidates)})
    /\ IsTopKOf(Among(Range(taken)))
    /\ asked.budget >= Len(candidates) => IsTopKOf(Among(Range(candidates)))
    /\ asked.budget >= Len(candidates) /\ Unpruned => IsTopKOf(Matching)
    /\ \A d \in Among(Range(candidates)) \ Returned : \A x \in BagToSet(result) :
         Score(d) > Score(x.doc) =>
           \A b \in Range(candidates) : \A a \in Range(taken) :
             d \in Range(DocsOf(b)) => b.score <= a.score
=============================================================================
