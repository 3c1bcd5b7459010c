---------------------------- MODULE ExactSearch ----------------------------
(***************************************************************************)
(* The two exact indexes on one corpus: the inverted index (InvertedSearch)*)
(* and BrutalIndex (nsparse/brutal_index.cpp), which scores every document *)
(* of its own copy against the query made dense.  Once the inverted index  *)
(* has answered, the same query is put to the other.  BrutalIndex does not *)
(* read a search's selector, and its dense vector has no room for terms    *)
(* past the dimension, so it is asked only where neither matters.          *)
(***************************************************************************)
EXTENDS InvertedSearch

VARIABLES
  answered,  \* has BrutalIndex been asked the query?
  found      \* what it returned

exactVars == <<vars, answered, found>>

(* get_dense_vector_float assigns: of a term named twice it keeps the last  *)
(* weight.                                                                  *)
DenseQuery ==
  [t \in 0 .. Dim - 1 |->
     LET at == {i \in DOMAIN query : query[i].term = t}
     IN  IF at = {} THEN 0 ELSE query[Max(at)].weight]

(* dot_product_float_dense, of distance.h *)
Dot(row, dense) == SumOf([t \in DOMAIN row |-> row[t] * dense[t]])

(* add() of document n - 1 to any of the holders hs. *)
Offered(hs, n) ==
  UNION {Added(h, k, [score |-> Dot(rows[n], DenseQuery), doc |-> n - 1]) : h \in hs}

(* What single_query's holder may be once the first n documents went        *)
(* through it.  That it drops an id it has already is of no use here: each  *)
(* comes once.                                                              *)
Holders[n \in 0 .. Len(rows)] == IF n = 0 THEN {EmptyBag} ELSE Offered(Holders[n - 1], n)

(* Mutated: stops one document early. *)
ScannedShort == Holders[Max({0, Len(rows) - 1})]

Scanned == Holders[Len(rows)]

BrutalSearch ==
  /\ pc = "idle"
  /\ ~answered
  /\ Docs \subseteq selected
  /\ \A i \in DOMAIN query : query[i].term < Dim
  /\ answered' = TRUE
  /\ found' \in Scanned
  /\ UNCHANGED vars

(* The inverted index goes on; a new query has not been put to the other.   *)
InvertedStarts ==
  /\ \E q \in Queries, n \in Ks, sel \in Selectors : StartQuery(q, n, sel)
  /\ answered' = FALSE /\ found' = EmptyBag

InvertedSteps == Step /\ UNCHANGED <<answered, found>>

ExactInit == Init /\ answered = FALSE /\ found = EmptyBag
ExactNext == InvertedStarts \/ InvertedSteps \/ BrutalSearch
ExactSpec == ExactInit /\ [][ExactNext]_exactVars

FairExactSpec == ExactSpec /\ WF_vars(Step)
-----------------------------------------------------------------------------
(* The scores of a bag of items, those of 0 left out: the inverted index    *)
(* does not return documents that do not match.                             *)
ScoresOf(h) ==
  [s \in {x.score : x \in BagToSet(h)} \ {0} |-> SumOf([x \in {x \in BagToSet(h) : x.score = s} |-> h[x]])]

NamesTermsOnce == \A i, j \in DOMAIN query : i # j => query[i].term # query[j].term

(* What the inverted index finds by skipping is what a scan of everything   *)
(* finds: the same scores as often, though where scores are equal the two   *)
(* may return different documents (inverted_index.cpp:366-407,              *)
(* brutal_index.cpp:75-96).  Not for a query that names a term twice: the   *)
(* inverted index has a scorer for each of the two weights and adds both up,*)
(* BrutalIndex keeps the last.                                              *)
AgreesWithBruteForce ==
  answered /\ NamesTermsOnce => ScoresOf(result) = ScoresOf(found)
=============================================================================
