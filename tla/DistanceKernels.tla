-------------------------- MODULE DistanceKernels --------------------------
(***************************************************************************)
(* The inner product of a sparse row and a dense vector, as the kernels of *)
(* nsparse/utils/distance*.h compute it: the instruction set they are      *)
(* compiled for decides how many elements are taken at a time, and how     *)
(* those of the dense vector are gathered.  What is left over is taken one *)
(* by one.  Elements are floats, or codes of 8 or 16 bits; sums are exact  *)
(* here, though all but the scalar and one NEON kernel add codes up as     *)
(* floats.                                                                 *)
(***************************************************************************)
EXTENDS Numbers, Sequences

CONSTANTS
  MaxCode,  \* the greatest code of each type
  Lanes,    \* the elements each instruction set takes at a time:
            \* [avx2, avx512, neon, neon_uint16, sve]
  Stray     \* what lies past the end of a dense vector of codes

ASSUME LanesAssumption ==
  Lanes \in [avx2 : Nat \ {0}, avx512 : Nat \ {0}, neon : Nat \ {0}, neon_uint16 : Nat \ {0},
             sve : Nat \ {0}]
ASSUME CodesAssumption ==
  Stray \in Nat /\ \A type \in {"8bit", "16bit"} : MaxCode[type] \in Nat \ {0}

(* Mutated: the element comes with the one after it. *)
LowElementUnmasked(dense, type, t) ==
  LET next == IF t + 1 \in DOMAIN dense THEN dense[t + 1] ELSE Stray
  IN  IF type = "float" THEN dense[t] ELSE dense[t] + (MaxCode[type] + 1) * next

(* A gather of 32-bit words reads, above a narrow element, those after it,  *)
(* and what lies past the end: only the element is to be kept.              *)
LowElement(dense, type, t) ==
  LET next == IF t + 1 \in DOMAIN dense THEN dense[t + 1] ELSE Stray
      word == dense[t] + (MaxCode[type] + 1) * next
  IN  IF type = "float" THEN dense[t] ELSE word % (MaxCode[type] + 1)

(* Mutated: what does not fill the lanes is left out. *)
BlockedWithoutTail(lanes, row, gathered) ==
  LET terms   == Ascending(DOMAIN row)
      whole   == (Len(terms) \div lanes) * lanes
      prod    == [i \in DOMAIN terms |-> row[terms[i]] * gathered[terms[i]]]
      lane(j) == SumOf([i \in {i \in 1 .. whole : (i - 1) % lanes = j - 1} |-> prod[i]])
  IN  SumOf([j \in 1 .. lanes |-> lane(j)])

(* Whole blocks are added up lane by lane -- lane j takes element j of each *)
(* -- the lanes then with one another, and with them the products of the    *)
(* tail.                                                                    *)
Blocked(lanes, row, gathered) ==
  LET terms   == Ascending(DOMAIN row)
      whole   == (Len(terms) \div lanes) * lanes
      prod    == [i \in DOMAIN terms |-> row[terms[i]] * gathered[terms[i]]]
      lane(j) == SumOf([i \in {i \in 1 .. whole : (i - 1) % lanes = j - 1} |-> prod[i]])
  IN  SumOf([j \in 1 .. lanes |-> lane(j)])
      + SumOf([i \in whole + 1 .. Len(terms) |-> prod[i]])

distance(row, dense) == SumOf([t \in DOMAIN row |-> row[t] * dense[t]])

distance_avx2(row, dense) == Blocked(Lanes.avx2, row, dense)

distance_avx512(type, row, dense) ==
  Blocked(Lanes.avx512, row, [t \in DOMAIN row |-> LowElement(dense, type, t)])

distance_neon(type, row, dense) ==
  Blocked(IF type = "16bit" THEN Lanes.neon_uint16 ELSE Lanes.neon, row, dense)

distance_sve(type, row, dense) ==
  Blocked(Lanes.sve, row, [t \in DOMAIN row |-> LowElement(dense, type, t)])

(* distance_simd.h: one of them, fixed when the library is compiled.        *)
dot_product_dense(isa, type, row, dense) ==
  CASE isa = "avx512" -> distance_avx512(type, row, dense)
    [] isa = "avx2"   -> distance_avx2(row, dense)
    [] isa = "sve"    -> distance_sve(type, row, dense)
    [] isa = "neon"   -> distance_neon(type, row, dense)
    [] OTHER          -> distance(row, dense)
=============================================================================
