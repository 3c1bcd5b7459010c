--------------------------- MODULE InvertedSearch ---------------------------
(***************************************************************************)
(* The windowed MaxScore search of nsparse/inverted_index.cpp, as one      *)
(* OpenMP thread runs it: query after query over one built index, with a   *)
(* score buffer that outlives the query.  Threads share nothing they       *)
(* write.                                                                  *)
(*                                                                         *)
(* The documents are 0 .. Len(rows)-1.  A row maps its terms to weights;   *)
(* weights are natural numbers (rounding of float sums is not modelled),   *)
(* and neither documents nor queries have negative weights: max_value()    *)
(* and the zero threshold of a heap that is not full assume as much.       *)
(***************************************************************************)
EXTENDS TopKHolder, Sequences, FiniteSets, SequencesExt

CONSTANTS
  Dim,        \* terms are 0 .. Dim-1
  Corpora,    \* the corpora considered: sequences of rows
  Queries,    \* the queries: sequences of [term, weight]
  Ks,         \* the values of k
  Selectors,  \* what an id selector accepts; a search without one accepts all
  WindowSize  \* kScoreWindowSize

ASSUME DimAssumption    == Dim \in Nat
(* A term past the dimension makes build() throw (inverted_lists.cpp:238).  *)
IsRow(r)    == DOMAIN r \subseteq 0 .. Dim - 1 /\ r \in [DOMAIN r -> Nat]
IsCorpus(c) == c \in Seq({c[i] : i \in DOMAIN c}) /\ \A i \in DOMAIN c : IsRow(c[i])

ASSUME CorporaAssumption == \A c \in Corpora : IsCorpus(c)
ASSUME QueriesAssumption == Queries \subseteq Seq([term : Nat, weight : Nat])
ASSUME KsAssumption     == Ks \subseteq Nat \ {0}
ASSUME WindowAssumption == WindowSize \in Nat \ {0}

VARIABLES
  rows,     \* the corpus the index was built from
  lists,    \* inverted_lists_: the postings of each term
  pc,       \* "idle" | "partition" | "score" | "evaluate" | "drain"
  query, k, selected,
  scorers,  \* the query's terms by ascending bound: [list, weight, bound]
  pos,      \* current_index of each scorer (one past its list: exhausted)
  first,    \* first_essential: how many scorers are not essential
  base,     \* window_base
  scores,   \* window_scores, thread-local: outlives the query
  bits,     \* the slots set in bitmap and not evaluated yet
  heap,     \* the TopKHolder
  result    \* what the last query returned

queryVars  == <<query, k, selected, scorers>>
windowVars == <<first, base, bits>>
vars == <<rows, lists, pc, queryVars, windowVars, pos, scores, heap, result>>

Docs  == 0 .. Len(rows) - 1
Slots == 0 .. WindowSize - 1

(* ArrayInvertedLists::build_inverted_lists: postings by ascending id.      *)
ListOf(c, t) ==
  LET having == Ascending({d \in 0 .. Len(c) - 1 : t \in DOMAIN c[d + 1]})
  IN  [j \in DOMAIN having |-> [doc |-> having[j], value |-> c[having[j] + 1][t]]]

(* InvertedList::max_value *)
MaxValue(list) == Max({0} \union {list[j].value : j \in 1 .. Len(list)})

(* A term past the dimension is stood in for by an exhausted scorer.        *)
ScorerOf(q) ==
  IF q.term < Dim
    THEN [list |-> lists[q.term], weight |-> q.weight,
          bound |-> q.weight * MaxValue(lists[q.term])]
    ELSE [list |-> <<>>, weight |-> q.weight, bound |-> 0]

(* std::sort by bound leaves equal bounds in any order. *)
SortedScorers(q) ==
  {s \in {[i \in DOMAIN q |-> ScorerOf(q[p[i]])] : p \in Bijection(DOMAIN q, DOMAIN q)} :
     \A i \in 1 .. Len(q) - 1 : s[i].bound <= s[i + 1].bound}

(* max_score_prefix[s]: what the first s scorers can add at most. *)
Prefix(s) == SumOf([i \in 1 .. s |-> scorers[i].bound])

Scorers   == 1 .. Len(scorers)
Essential == first + 1 .. Len(scorers)

Exhausted(s) == pos[s] > Len(scorers[s].list)
DocAt(s)     == scorers[s].list[pos[s]].doc

Full      == IsFull(heap, k)
Threshold == IF Full THEN LeastScore(heap) ELSE 0
-----------------------------------------------------------------------------
Init ==
  /\ rows \in Corpora
  /\ lists = [t \in 0 .. Dim - 1 |-> ListOf(rows, t)]
  /\ pc = "idle"
  /\ query = <<>> /\ k = 1 /\ selected = {} /\ scorers = <<>>
  /\ pos = <<>> /\ first = 0 /\ base = 0 /\ bits = {}
  /\ scores = [slot \in Slots |-> 0]
  /\ heap = EmptyBag /\ result = EmptyBag

(* single_query's head: an empty query returns padding; otherwise build_scorers. *)
StartQuery(q, n, sel) ==
  /\ pc = "idle"
  /\ query' = q /\ k' = n /\ selected' = sel
  /\ scorers' \in SortedScorers(q)
  /\ pos' = [s \in 1 .. Len(q) |-> 1]
  /\ first' = 0
  /\ heap' = EmptyBag /\ result' = EmptyBag
  /\ pc' = IF q = <<>> THEN "idle" ELSE "partition"
  /\ UNCHANGED <<rows, lists, base, bits, scores>>

(* Mutated: counts the scorers whose own bound is below the threshold. *)
NonEssentialByOwnBound ==
  Max({0} \union {s \in Scorers : \A i \in 1 .. s : scorers[i].bound < Threshold})

(* The scorers that together cannot reach the threshold. *)
NonEssential ==
  Max({0} \union {s \in Scorers : \A i \in 1 .. s : Prefix(i) < Threshold})

(* The head of the loop: re-partition if the heap is full, then open the    *)
(* window of the least document an essential scorer is at.                  *)
OpenWindow ==
  /\ pc = "partition"
  /\ first' = IF Full THEN NonEssential ELSE first
  /\ LET live == {s \in Scorers : s > first' /\ ~Exhausted(s)}
     IN  IF live = {}
           THEN /\ pc' = "drain"
                /\ UNCHANGED base
           ELSE /\ base' = (Min({DocAt(s) : s \in live}) \div WindowSize) * WindowSize
                /\ pc' = "score"
  /\ bits' = {}
  /\ UNCHANGED <<rows, lists, queryVars, pos, scores, heap, result>>

(* The postings of scorer s, not consumed yet, whose documents are below d. *)
Below(s, d) == {j \in pos[s] .. Len(scorers[s].list) : scorers[s].list[j].doc < d}

(* Mutated: stops at the window's last document instead of past it. *)
ConsumeShort(s) == Below(s, base + WindowSize - 1)

(* What an essential scorer consumes in this window, those left behind the  *)
(* window included.                                                         *)
Consume(s) == Below(s, base + WindowSize)

(* score_essential_terms *)
ScoreEssential ==
  LET inWindow(s) == {j \in Consume(s) : scorers[s].list[j].doc >= base}
      hits(slot)  == {x \in Essential \X (1 .. Len(rows)) :
                        /\ x[2] \in inWindow(x[1])
                        /\ scorers[x[1]].list[x[2]].doc = base + slot}
  IN  /\ pc = "score"
      /\ bits' = {slot \in Slots : hits(slot) # {}}
      /\ scores' = [slot \in Slots |->
           IF slot \in bits'
             THEN scores[slot] +
                    SumOf([x \in hits(slot) |->
                             scorers[x[1]].weight * scorers[x[1]].list[x[2]].value])
             ELSE scores[slot]]
      /\ pos' = [s \in Scorers |->
           IF s \in Essential THEN pos[s] + Cardinality(Consume(s)) ELSE pos[s]]
      /\ pc' = "evaluate"
      /\ UNCHANGED <<rows, lists, queryVars, first, base, heap, result>>

(* advance_to: where scorer s is once it has moved to document d or past it. *)
AdvanceTo(s, d) == pos[s] + Cardinality(Below(s, d))

(* What scorer s adds to document d, looked up from where it is. *)
Contribution(s, d) ==
  LET j == AdvanceTo(s, d)
  IN  IF j <= Len(scorers[s].list) /\ scorers[s].list[j].doc = d
        THEN scorers[s].weight * scorers[s].list[j].value
        ELSE 0

(* The non-essential scorers are added greatest bound first, until those    *)
(* left cannot lift the total above the threshold; the last one added.      *)
Total(d, essential, s) ==
  essential + SumOf([i \in s .. first |-> Contribution(i, d)])
LastAdded(d, essential) ==
  Max({1} \union {s \in 1 .. first : Total(d, essential, s) + Prefix(s - 1) <= Threshold})

AddToHeap(score, d) == heap' \in Added(heap, k, [score |-> score, doc |-> d])

(* Even with all that the non-essential scorers can add, not a result. *)
Hopeless(essential) == essential + Prefix(first) <= Threshold

(* Mutated: a slot is cleared only if its document is a candidate. *)
EvaluateClearsLate ==
  /\ pc = "evaluate"
  /\ bits # {}
  /\ LET slot      == Min(bits)
         d         == base + slot
         essential == scores[slot]
         last      == LastAdded(d, essential)
     IN  /\ bits' = bits \ {slot}
         /\ IF Hopeless(essential) \/ d \notin selected
              THEN UNCHANGED <<pos, heap, scores>>
              ELSE /\ pos' = [s \in Scorers |-> IF s \in last .. first
                                                THEN AdvanceTo(s, d) ELSE pos[s]]
                   /\ scores' = [scores EXCEPT ![slot] = 0]
                   /\ AddToHeap(Total(d, essential, last), d)
  /\ UNCHANGED <<rows, lists, pc, queryVars, first, base, result>>

(* evaluate_window_candidates: the least slot set. *)
Evaluate ==
  /\ pc = "evaluate"
  /\ bits # {}
  /\ LET slot      == Min(bits)
         d         == base + slot
         essential == scores[slot]
         last      == LastAdded(d, essential)
     IN  /\ bits' = bits \ {slot}
         /\ scores' = [scores EXCEPT ![slot] = 0]
         /\ IF Hopeless(essential) \/ d \notin selected
              THEN UNCHANGED <<pos, heap>>
              ELSE /\ pos' = [s \in Scorers |-> IF s \in last .. first
                                                THEN AdvanceTo(s, d) ELSE pos[s]]
                   /\ AddToHeap(Total(d, essential, last), d)
  /\ UNCHANGED <<rows, lists, pc, queryVars, first, base, result>>

WindowDone ==
  /\ pc = "evaluate"
  /\ bits = {}
  /\ pc' = "partition"
  /\ UNCHANGED <<rows, lists, queryVars, windowVars, pos, scores, heap, result>>

(* The heap, best first, then padding up to k; only what it holds matters.  *)
Drain ==
  /\ pc = "drain"
  /\ result' = heap
  /\ pc' = "idle"
  /\ UNCHANGED <<rows, lists, queryVars, windowVars, pos, scores, heap>>

Step == OpenWindow \/ ScoreEssential \/ Evaluate \/ WindowDone \/ Drain

Next == \/ \E q \in Queries, n \in Ks, sel \in Selectors : StartQuery(q, n, sel)
        \/ Step

Spec == Init /\ [][Next]_vars

(* A thread that runs a query goes on running it. *)
FairSpec == Spec /\ WF_vars(Step)
-----------------------------------------------------------------------------
Item == [score : Nat, doc : Nat]

TypeOK ==
  /\ rows \in Corpora
  /\ pc \in {"idle", "partition", "score", "evaluate", "drain"}
  /\ k \in Ks \union {1}
  /\ \A s \in Scorers : pos[s] \in 1 .. Len(scorers[s].list) + 1
  /\ first \in 0 .. Len(scorers)
  /\ base \in Nat
  /\ scores \in [Slots -> Nat]
  /\ bits \subseteq Slots
  /\ BagToSet(heap) \subseteq Item /\ Size(heap) <= k
  /\ BagToSet(result) \subseteq Item

(* The inner product of the query and document d. *)
Score(d) ==
  SumOf([i \in DOMAIN query |->
           IF query[i].term \in DOMAIN rows[d + 1]
             THEN query[i].weight * rows[d + 1][query[i].term] ELSE 0])

(* h is a top k of the documents ds: true scores, none left out that would  *)
(* displace one; which of several equal ones is not said.                   *)
IsTopK(h, ds) ==
  LET matching == {d \in ds : d \in selected /\ Score(d) > 0}
      held     == {x.doc : x \in BagToSet(h)}
  IN  /\ held \subseteq matching
      /\ Cardinality(held) = Size(h)
      /\ \A x \in BagToSet(h) : x.score = Score(x.doc)
      /\ Cardinality(held) = IF Cardinality(matching) < k THEN Cardinality(matching) ELSE k
      /\ \A d \in matching \ held : Score(d) <= LeastScore(h)

(* Skipping terms, postings and documents loses nothing: a query returns a  *)
(* top k of the selected documents it matches, with their exact scores      *)
(* (inverted_index.cpp:366-407).                                            *)
ExactTopK ==
  pc = "idle" => IsTopK(result, Docs)

(* "thread_local ... reused across queries" (inverted_index.cpp:359): the   *)
(* buffer is zero wherever a document is not waiting to be evaluated, so no *)
(* score leaks into another window or query.                                *)
ScratchClean ==
  \A slot \in Slots :
    ~(pc = "evaluate" /\ slot \in bits) => scores[slot] = 0

(* Within a query the windows ascend without overlap, the threshold never   *)
(* falls, and a scorer that became non-essential never is essential again   *)
(* -- though the partition is computed from scratch for each window.        *)
InQuery == pc # "idle"

MonotoneSearch ==
  [][InQuery =>
       /\ pc' = "score" /\ heap # EmptyBag => base' >= base + WindowSize
       /\ Threshold' >= Threshold
       /\ first' >= first]_vars

(* Every window consumes a posting: a query ends. *)
QueryEnds == InQuery ~> ~InQuery
=============================================================================
