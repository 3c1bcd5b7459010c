----------------------------- MODULE Clustering -----------------------------
(***************************************************************************)
(* How a posting list becomes clusters: pruning (invlists/), k-means and   *)
(* summaries (cluster/).  Where the code draws at random, or sorts equal   *)
(* weights, an operator is the set of what may come out.                   *)
(*                                                                         *)
(* A corpus c is a sequence of rows, each mapping its terms to weights;    *)
(* document d is row d + 1.  Weights are natural numbers, and a term a row *)
(* has may weigh 0 (as a quantized one may): the rounding of float sums is *)
(* not modelled.                                                           *)
(***************************************************************************)
EXTENDS Numbers, Sequences, FiniteSetsExt, SequencesExt

Row(c, d) == c[d + 1]

Inner(r, s) == SumOf([t \in DOMAIN r \intersect DOMAIN s |-> r[t] * s[t]])

PostingsOf(c, t) == Ascending({d \in 0 .. Len(c) - 1 : t \in DOMAIN Row(c, d)})

Arrangements(S, n) == {s \in [1 .. n -> S] : IsInjective(s)}

(* prune_and_keep_doc_ids: the lambda greatest weights, greatest first; a   *)
(* list that is not longer is kept in the order of its ids.                 *)
Kept(c, t, lambda) ==
  LET list      == PostingsOf(c, t)
      weight(d) == Row(c, d)[t]
  IN  IF lambda = 0 \/ lambda >= Len(list)
        THEN {list}
        ELSE {s \in Arrangements(Range(list), lambda) :
                /\ \A i \in 1 .. lambda - 1 : weight(s[i]) >= weight(s[i + 1])
                /\ \A d \in Range(list) \ Range(s) : weight(s[lambda]) >= weight(d)}

(* boundary_check_n_clusters; beta = 0 asks for the square root. *)
NClusters(beta, n) ==
  LET root   == Max({r \in 0 .. n : r * r <= n})
      wanted == IF beta = 0 THEN root ELSE beta
  IN  Max({1, Min({wanted, n})})

(* The most similar centroid, the first of equals. *)
Closest(c, d, centroids) ==
  LET similarity(i) == Inner(Row(c, d), Row(c, centroids[i]))
  IN  CHOOSE i \in DOMAIN centroids :
        \A j \in DOMAIN centroids \ {i} :
          IF j < i THEN similarity(j) < similarity(i) ELSE similarity(j) <= similarity(i)

(* Mutated: takes the centroids to be the first of the kept. *)
AssignedSkippingHead(c, kept, centroids) ==
  [i \in DOMAIN centroids |->
     <<centroids[i]>> \o
     SelectSeq(SubSeq(kept, Len(centroids) + 1, Len(kept)),
               LAMBDA d : d \notin Range(centroids) /\ Closest(c, d, centroids) = i)]

(* The elements of s at the places in P, in their order. *)
Picked(s, P) ==
  LET places == Ascending(P)
  IN  [j \in DOMAIN places |-> s[places[j]]]

(* map_docs_to_clusters: a centroid leads its own cluster. *)
Assigned(c, kept, centroids) ==
  [i \in DOMAIN centroids |->
     <<centroids[i]>> \o
     Picked(kept, {j \in DOMAIN kept : /\ kept[j] \notin Range(centroids)
                                       /\ Closest(c, kept[j], centroids) = i})]

(* RandomKMeans::train, whatever centroids are drawn. *)
Train(c, kept, beta) ==
  IF kept = <<>>
    THEN {<<>>}
    ELSE {Assigned(c, kept, s) :
            s \in Arrangements(Range(kept), NClusters(beta, Len(kept)))}

(* The greatest weight of each term among the documents of a cluster. *)
Pool(c, docs) ==
  [t \in UNION {DOMAIN Row(c, d) : d \in Range(docs)} |->
     Max({Row(c, d)[t] : d \in {e \in Range(docs) : t \in DOMAIN Row(c, e)}})]

(* summarize_emit_cluster_: the greatest weights of a pool, until they make *)
(* up alpha (a fraction) of what its sum is said to be.  A pool without     *)
(* mass is kept whole: 0 / 0 compares false.                                *)
Emitted(pool, sum, alpha) ==
  LET mass(S)   == SumOf([t \in S |-> pool[t]])
      enough(S) == sum > 0 /\ mass(S) * alpha.den >= alpha.num * sum
  IN  IF DOMAIN pool = {} THEN {pool} ELSE
      {[t \in S |-> pool[t]] :
         S \in {S \in SUBSET DOMAIN pool \ {{}} :
                  /\ enough(S) \/ S = DOMAIN pool
                  /\ \A t \in S : \A u \in DOMAIN pool \ S : pool[t] >= pool[u]
                  /\ \E t \in S : /\ S = {t} \/ ~enough(S \ {t})
                                  /\ \A u \in S : pool[t] <= pool[u]}}

(* summarize_with_cpu_, of one cluster. *)
Summaries(c, docs, alpha) ==
  LET pool == Pool(c, docs)
  IN  Emitted(pool, SumOf(pool), alpha)

(* Clusters and a choice of summary for each. *)
Summarized(docs, choices) ==
  {[i \in DOMAIN docs |-> [docs |-> docs[i], summary |-> s[i]]] :
     s \in {f \in [DOMAIN docs -> UNION Range(choices)] : \A i \in DOMAIN docs : f[i] \in choices[i]}}

(* What the list of term t may become: a sequence of clusters. *)
Clusterings(c, t, p) ==
  UNION {
    UNION {Summarized(docs, [i \in DOMAIN docs |-> Summaries(c, docs[i], p.alpha)]) :
             docs \in Train(c, kept, p.beta)}
    : kept \in Kept(c, t, p.lambda)}
=============================================================================
