------------------------ MODULE TransposedSummaries ------------------------
(***************************************************************************)
(* The summaries of a list's clusters as they are kept and searched        *)
(* (nsparse/cluster/inverted_list_clusters.cpp): term by term, each with   *)
(* the clusters that have it, so that a query reads only its own terms.    *)
(* Summaries come as one function from terms to weights for each cluster.  *)
(***************************************************************************)
EXTENDS Numbers, Sequences

(* cluster_id_t is 16 bits wide. *)
MaxClusters   == 65536
cluster_id(i) == (i - 1) % MaxClusters

(* The clusters whose summaries have a term. *)
Column(summaries, t) == Ascending({i \in DOMAIN summaries : t \in DOMAIN summaries[i]})

(* build_transpose: the clusters of the first term, then those of the next; *)
(* term_ptr says where each begins, and so of which term an entry is.       *)
build_transpose(summaries) ==
  LET terms   == Ascending(UNION {DOMAIN summaries[i] : i \in DOMAIN summaries})
      columns == [k \in DOMAIN terms |-> Column(summaries, terms[k])]
      ptr     == [k \in 1 .. Len(terms) + 1 |-> SumOf([j \in 1 .. k - 1 |-> Len(columns[j])])]
      entries == 1 .. ptr[Len(terms) + 1]
      col     == [e \in entries |-> CHOOSE k \in DOMAIN terms : ptr[k] < e /\ e <= ptr[k + 1]]
      cluster == [e \in entries |-> columns[col[e]][e - ptr[col[e]]]]
  IN  [n_clusters  |-> Len(summaries),
       term_ids    |-> terms,
       term_ptr    |-> ptr,
       csc_cluster |-> [e \in entries |-> cluster_id(cluster[e])],
       csc_value   |-> [e \in entries |-> summaries[cluster[e]][terms[col[e]]]]]

(* Mutated: the last entry of each term is left out. *)
EntriesOfShort(s, t) ==
  UNION {s.term_ptr[k] + 1 .. s.term_ptr[k + 1] - 1 : k \in {k \in DOMAIN s.term_ids : s.term_ids[k] = t}}

(* The entries of a term; none of one no summary has. *)
EntriesOf(s, t) ==
  UNION {s.term_ptr[k] + 1 .. s.term_ptr[k + 1] : k \in {k \in DOMAIN s.term_ids : s.term_ids[k] = t}}

(* score_summaries_transposed: the score of each cluster for a sequence of  *)
(* [term, weight].                                                          *)
score_summaries_transposed(s, query) ==
  LET hits(c) == {h \in (DOMAIN query) \X (DOMAIN s.csc_cluster) :
                    /\ h[2] \in EntriesOf(s, query[h[1]].term)
                    /\ s.csc_cluster[h[2]] = c - 1}
  IN  [c \in 1 .. s.n_clusters |->
         SumOf([h \in hits(c) |-> query[h[1]].weight * s.csc_value[h[2]]])]
=============================================================================
