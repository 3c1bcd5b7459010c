-------------------------- MODULE MCInvertedSearch --------------------------
(***************************************************************************)
(* Five documents in windows of two, so that the last window is half       *)
(* full; every corpus of five rows over a set of rows that mixes terms     *)
(* that bound little with terms that bound much; a query that names a term *)
(* the index has not, and one that names a term twice.                     *)
(***************************************************************************)
EXTENDS ExactSearch

Row(w0, w1, w2) ==
  LET w == <<w0, w1, w2>>
  IN  [t \in {u \in 0 .. 2 : w[u + 1] > 0} |-> w[t + 1]]

MCRows == {Row(1, 0, 0), Row(0, 2, 0), Row(2, 2, 0), Row(1, 0, 2)}
MCCorpora == [1 .. 5 -> MCRows]

MCQueries ==
  {<<>>,
   <<[term |-> 0, weight |-> 1], [term |-> 1, weight |-> 1], [term |-> 2, weight |-> 1]>>,
   <<[term |-> 2, weight |-> 1], [term |-> 3, weight |-> 5], [term |-> 0, weight |-> 2]>>,
   <<[term |-> 1, weight |-> 1], [term |-> 1, weight |-> 2]>>}
MCSelectors == {0 .. 4, {0, 3, 4}}
=============================================================================
