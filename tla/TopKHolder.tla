----------------------------- MODULE TopKHolder -----------------------------
(***************************************************************************)
(* TopKHolder of nsparse/utils/ranker.h: a heap of at most k items, as the *)
(* bag of them.  An item has a score and a doc; the same one can be added  *)
(* twice, and the heap does not notice.                                    *)
(***************************************************************************)
EXTENDS Numbers, FiniteSetsExt, Bags

Size(h)         == SumOf(h)
IsFull(h, k)    == Size(h) = k
LeastScore(h)   == Min({x.score : x \in BagToSet(h)})
LeastItems(h)   == {x \in BagToSet(h) : x.score = LeastScore(h)}
With(h, x)      == h (+) SetToBag({x})
Without(h, x)   == h (-) SetToBag({x})

(* Mutated: pushes once more when the holder already has k items. *)
AddedOverfull(h, k, x) ==
  IF Size(h) <= k
    THEN {With(h, x)}
    ELSE IF x.score <= LeastScore(h)
           THEN {h}
           ELSE {With(Without(h, y), x) : y \in LeastItems(h)}

(* What h can be after add(): an item no better than the least of a full    *)
(* heap is rejected; which of several least items goes is the heap's affair.*)
Added(h, k, x) ==
  IF Size(h) < k
    THEN {With(h, x)}
    ELSE IF x.score <= LeastScore(h)
           THEN {h}
           ELSE {With(Without(h, y), x) : y \in LeastItems(h)}
=============================================================================
