-------------------------- MODULE MCSeismicSearch --------------------------
(***************************************************************************)
(* Four documents over three terms, so that a document is in two lists and *)
(* a list has several clusters of several documents; one document and one  *)
(* list are empty.  One set of parameters prunes nothing, one prunes       *)
(* lists, one prunes lists and summaries.  Of the quantizers, the first    *)
(* covers every weight, the second cuts them off, the third is so wide     *)
(* that all weights of 1 become code 0.                                    *)
(* Scaled16 stands for the greatest 16-bit code: TLC's integers are of 32  *)
(* bits and could not hold the product of four.                            *)
(***************************************************************************)
EXTENDS DiskSeismicSearch

Scaled16 == 1023

MCMaxCode == [float |-> 0] @@ ("8bit" :> 255) @@ ("16bit" :> Scaled16)

MCQuantizers ==
  {[type |-> "float", vmin |-> 0, vmax |-> 0], [type |-> "8bit", vmin |-> 0, vmax |-> 4],
   [type |-> "16bit", vmin |-> 0, vmax |-> 2], [type |-> "8bit", vmin |-> 0, vmax |-> 600]}

W(w0, w1, w2) ==
  LET w == <<w0, w1, w2>>
  IN  [t \in {u \in 0 .. 2 : w[u + 1] > 0} |-> w[t + 1]]

MCGiven ==
  {<<W(1, 2, 0), W(3, 0, 1), W(2, 2, 0), W(1, 0, 3)>>,
   <<W(0, 1, 2), W(2, 3, 1), W(0, 0, 0), W(1, 2, 1)>>,
   <<W(1, 1, 0), W(0, 0, 0), W(4, 0, 0), W(0, 3, 1)>>}

MCCorpora == {EncodedCorpus(s, c) : s \in MCQuantizers, c \in MCGiven}

Half == [num |-> 1, den |-> 2]
One  == [num |-> 1, den |-> 1]
Two  == [num |-> 2, den |-> 1]

MCLanes == [avx2 |-> 2, avx512 |-> 3, neon |-> 1, neon_uint16 |-> 2, sve |-> 2]

Pruned          == [disk |-> FALSE, isa |-> "avx2", lambda |-> 2, beta |-> 0, alpha |-> One]
Full            == [disk |-> FALSE, isa |-> "avx512", lambda |-> 0, beta |-> 2, alpha |-> One]
Condensed       == [disk |-> FALSE, isa |-> "neon", lambda |-> 3, beta |-> 2, alpha |-> Half]
FullOnDisk      == [disk |-> TRUE, isa |-> "sve", lambda |-> 0, beta |-> 2, alpha |-> One]
CondensedOnDisk == [disk |-> TRUE, isa |-> "scalar", lambda |-> 3, beta |-> 2, alpha |-> Half]

(* Each type with an index in memory that prunes nothing, a condensed one   *)
(* and one on disk.                                                         *)
MCParams ==
  {("type" :> "float") @@ p : p \in {Pruned, Full, Condensed, CondensedOnDisk}}
  \union {("type" :> "8bit") @@ p : p \in {Pruned, Full, CondensedOnDisk}}
  \union {("type" :> "16bit") @@ p : p \in {Full, Condensed, FullOnDisk}}

Q(w0, w1) == <<[term |-> 0, weight |-> w0], [term |-> 1, weight |-> w1]>>

Question(q, k, cut, f, budget, ids, listed) ==
  [query |-> q, k |-> k, cut |-> cut, factor |-> f, budget |-> budget, ids |-> ids,
   listed |-> listed, override |-> FALSE, vmin |-> 0, vmax |-> 0]

Over(q, vmax) == [q EXCEPT !.override = TRUE, !.vmax = vmax]

Everyone == 0 .. 3

(* The heap factor is read by an index in memory, the budget by one on disk, *)
(* which refuses one of 0.                                                   *)
Budget(k, cut, f) ==
  CASE k = 1 /\ cut = 2 /\ f = Half -> 1
    [] k = 2 /\ cut = 2 /\ f = One -> 6
    [] k = 1 /\ cut = 1 /\ f = One -> 1
    [] k = 1 /\ cut = 2 /\ f = Two -> 2
    [] OTHER -> 0

MCQuestions ==
  {Question(Q(1, 2), k, cut, f, Budget(k, cut, f), Everyone, FALSE) :
     k \in {1, 2}, cut \in {1, 2}, f \in {Half, One}}
  \union {Question(Q(2, 1), 1, cut, f, Budget(1, cut, f), Everyone, FALSE) :
            cut \in {1, 2}, f \in {One, Two}}
  \union {Over(Question(Q(1, 2) \o <<[term |-> 2, weight |-> 1]>>, k, 3, One, k, {0, 3, 5}, listed), 3) :
            k \in {1, 2}, listed \in BOOLEAN}
  \union {Over(Question(Q(1, 2), 1, 2, One, 0, ids, TRUE), vmax) :
            ids \in {{1}, {1, 2}}, vmax \in {0, 3}}

MCCalls == {CallOf(s, q) : s \in MCQuantizers,
                           q \in {x \in MCQuestions : ~x.override \/ x.vmax > x.vmin}}
=============================================================================
