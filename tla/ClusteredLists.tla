--------------------------- MODULE ClusteredLists ---------------------------
(***************************************************************************)
(* The clustered posting lists a seismic index is built of, as values      *)
(* (nsparse/seismic_common.cpp, nsparse/cluster/random_kmeans.cpp).        *)
(***************************************************************************)
EXTENDS Integers, Sequences, SequencesExt

CONSTANTS
  Dim,     \* the index's dimension: terms are 0 .. Dim-1
  Rows,    \* the documents a caller may add, each its set of terms
  Seeds,   \* the base seeds a build may resolve: one, or several for kRandomSeed
  Unbuilt  \* stands for the lists of an index that was never built

ASSUME DimAssumption     == Dim \in Nat \ {0}
ASSUME RowsAssumption    == Rows \subseteq SUBSET Nat
ASSUME SeedsAssumption   == Seeds \subseteq Nat /\ Seeds # {}

Terms == 0 .. Dim - 1

(* A clustered list is a function of the ids it clusters, in order, of the  *)
(* seed its k-means starts from, and of the lambda and beta resolved from   *)
(* the size of the corpus.  No ids, no clusters: train() returns early.     *)
EmptyList == [docs |-> <<>>, seed |-> 0, size |-> 0]
ListOf(docs, seed, size) ==
  IF docs = <<>> THEN EmptyList ELSE [docs |-> docs, seed |-> seed, size |-> size]

(* What is staged for term t once row n of corpus c has been read, too. *)
Read(c, t, n, staged) == IF t \in c[n] THEN Append(staged, n) ELSE staged

(* The documents of c that have term t, by ascending id: what is staged     *)
(* once its rows were read one after the other, as far as each.             *)
Staged(c, t) ==
  LET staged[n \in 0 .. Len(c)] == IF n = 0 THEN <<>> ELSE Read(c, t, n, staged[n - 1])
  IN  staged

Postings(c, t) == Staged(c, t)[Len(c)]

(* What one window over all the terms builds from c; the list of term t is  *)
(* the sequence's element t + 1.                                            *)
WholeBuild(c, base) ==
  [i \in 1 .. Dim |-> ListOf(Postings(c, i - 1), base + i - 1, Len(c))]

(* Has every document of c only terms the dimension covers? *)
Covered(c) == \A d \in 1 .. Len(c) : c[d] \subseteq Terms
=============================================================================
