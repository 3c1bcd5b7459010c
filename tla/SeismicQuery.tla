---------------------------- MODULE SeismicQuery ----------------------------
(***************************************************************************)
(* What the seismic searches make of a call: c.query is a sequence of      *)
(* distinct [term, weight], c.cut the number of terms whose lists are      *)
(* visited (nsparse/utils/vector_process.h).                               *)
(***************************************************************************)
EXTENDS Clustering, TransposedSummaries

QueryTerms(c) == {c.query[i].term : i \in DOMAIN c.query}
Weight(c, t)  == c.query[CHOOSE i \in DOMAIN c.query : c.query[i].term = t].weight
QueryRow(c)   == [t \in QueryTerms(c) |-> Weight(c, t)]

(* The scores a query's terms -- all of them -- give a list's summaries.    *)
SummaryScores(clusters, c) ==
  score_summaries_transposed(
    build_transpose([i \in DOMAIN clusters |-> clusters[i].summary]), c.query)

(* top_k_tokens: all of a query no longer than the cut, in its order; or    *)
(* the terms of greatest weight, greatest first.                            *)
CutsOf(c) ==
  IF c.cut >= Len(c.query)
    THEN {[i \in DOMAIN c.query |-> c.query[i].term]}
    ELSE {s \in Arrangements(QueryTerms(c), c.cut) :
            /\ \A i \in 1 .. c.cut - 1 : Weight(c, s[i]) >= Weight(c, s[i + 1])
            /\ \A t \in QueryTerms(c) \ Range(s) : Weight(c, s[c.cut]) >= Weight(c, t)}
=============================================================================
