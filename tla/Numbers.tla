------------------------------- MODULE Numbers -------------------------------
(***************************************************************************)
(* Numbers in order, and numbers added up.                                 *)
(***************************************************************************)
EXTENDS Integers, FiniteSets, Folds

(* The numbers of S in order. *)
Ascending(S) ==
  CHOOSE s \in [1 .. Cardinality(S) -> S] : \A i, j \in DOMAIN s : i < j => s[i] < s[j]

(* The values of f added up. *)
SumOf(f) ==
  MapThenFoldSet(LAMBDA m, n : m + n, 0, LAMBDA x : f[x], LAMBDA s : CHOOSE x \in s : TRUE,
                 DOMAIN f)
=============================================================================
