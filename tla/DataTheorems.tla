----------------------------- MODULE DataTheorems -----------------------------
(***************************************************************************)
(* What the proofs need of numbers, sums and holders.                      *)
(*                                                                         *)
(* Induction and recursion over the naturals and induction over a finite   *)
(* set, with sets and functions in the place of predicates and operators,  *)
(* so that the provers can instantiate them: they rest on the naturals     *)
(* being well-founded.  Numbers in order.  Sums, by way of the cardinality *)
(* of what is summed; and the runs that sums of lengths lay out one after  *)
(* another.  And what a TopKHolder is after it was offered documents: a    *)
(* top k of them.                                                          *)
(***************************************************************************)
EXTENDS TopKHolder, Sequences, FiniteSetTheorems, WellFoundedInduction, TLAPS

(* Numbers. *)

(* A set of naturals that is not empty has a least element. *)
LEMMA LeastNatural ==
  ASSUME NEW S, S \subseteq Nat, S # {}
  PROVE  \E x \in S : \A y \in S : x <= y
  <1> DEFINE R == {r \in Nat \X Nat : r[1] < r[2]}
  <1>1. IsWellFoundedOn(R, Nat)
    BY NatLessThanWellFounded DEF OpToRel
  <1>2. PICK x \in S : \A y \in S : <<y, x>> \notin R
    <2> HIDE DEF R
    <2> QED
      BY <1>1, WFMin
  <1>3. ASSUME NEW y \in S
        PROVE  x <= y
    <2>1. x \in Nat /\ y \in Nat
      OBVIOUS
    <2>2. ~(y < x)
      BY <1>2, <2>1
    <2> QED
      BY <2>1, <2>2
  <1> QED
    BY <1>2, <1>3

(* A set of naturals with 0 and the successor of each of its elements has   *)
(* them all.                                                                *)
LEMMA NatSetInduction ==
  ASSUME NEW S, 0 \in S, \A n \in Nat : n \in S => n + 1 \in S
  PROVE  \A n \in Nat : n \in S
  <1> DEFINE T == {n \in Nat : n \notin S}
  <1>1. SUFFICES ASSUME T # {} PROVE FALSE
    OBVIOUS
  <1>2. PICK x \in T : \A y \in T : x <= y
    <2>1. T \subseteq Nat
      OBVIOUS
    <2> HIDE DEF T
    <2> QED
      BY <1>1, <2>1, LeastNatural
  <1>3. x \in Nat /\ x # 0 /\ x \notin S
    OBVIOUS
  <1>4. x - 1 \in Nat
    BY <1>3
  <1>5. x - 1 \notin T
    BY <1>2, <1>3, <1>4
  <1> QED
    BY <1>3, <1>4, <1>5

(* A set of naturals that has a bound and is not empty has a greatest one.  *)
LEMMA GreatestNatural ==
  ASSUME NEW n \in Nat, NEW S, S \subseteq 0 .. n, S # {}
  PROVE  \E x \in S : \A y \in S : y <= x
  <1> DEFINE T == {n - y : y \in S}
  <1>1. T \subseteq Nat /\ T # {}
    <2>1. ASSUME NEW y \in S
          PROVE  n - y \in Nat
      <3>1. y \in 0 .. n
        OBVIOUS
      <3> QED
        BY <3>1
    <2>2. T \subseteq Nat
      BY <2>1
    <2>3. PICK y \in S : TRUE
      OBVIOUS
    <2>4. n - y \in T
      OBVIOUS
    <2> QED
      BY <2>2, <2>4
  <1>2. PICK z \in T : \A w \in T : z <= w
    <2> HIDE DEF T
    <2> QED
      BY <1>1, LeastNatural
  <1>3. PICK x \in S : z = n - x
    OBVIOUS
  <1>4. ASSUME NEW y \in S
        PROVE  y <= x
    <2>1. n - x <= n - y
      BY <1>2, <1>3
    <2>2. x \in 0 .. n /\ y \in 0 .. n
      OBVIOUS
    <2> QED
      BY <2>1, <2>2
  <1> QED
    BY <1>4

(* f starts at x0 and goes on by step, as far as m. *)
Recursion(f, X, x0, step, m) ==
  /\ f \in [0 .. m -> X]
  /\ f[0] = x0
  /\ \A n \in 1 .. m : f[n] = step[<<f[n - 1], n>>]

(* There is such a function. *)
LEMMA RecursionExists ==
  ASSUME NEW X, NEW x0 \in X, NEW step \in [X \X Nat -> X], NEW m \in Nat
  PROVE  \E f : Recursion(f, X, x0, step, m)
  <1> DEFINE S == {k \in Nat : \E f : Recursion(f, X, x0, step, k)}
  <1>1. 0 \in S
    <2>1. Recursion([n \in 0 .. 0 |-> x0], X, x0, step, 0)
      BY DEF Recursion
    <2> QED
      BY <2>1
  <1>2. ASSUME NEW k \in Nat, k \in S
        PROVE  k + 1 \in S
    <2>1. PICK f : Recursion(f, X, x0, step, k)
      BY <1>2
    <2> DEFINE g == [n \in 0 .. k + 1 |-> IF n = k + 1 THEN step[<<f[k], k + 1>>] ELSE f[n]]
    <2>2. f[k] \in X /\ step[<<f[k], k + 1>>] \in X
      BY <2>1 DEF Recursion
    <2>3. g \in [0 .. k + 1 -> X]
      BY <2>1, <2>2 DEF Recursion
    <2>4. g[0] = x0
      BY <2>1 DEF Recursion
    <2>5. ASSUME NEW n \in 1 .. k + 1
          PROVE  g[n] = step[<<g[n - 1], n>>]
      <3>1. g[n - 1] = f[n - 1]
        OBVIOUS
      <3>2. CASE n = k + 1
        <4>1. g[n] = step[<<f[k], k + 1>>] /\ n - 1 = k
          BY <3>2
        <4> QED
          BY <3>1, <3>2, <4>1
      <3>3. CASE n # k + 1
        BY <2>1, <3>1, <3>3 DEF Recursion
      <3> QED
        BY <3>2, <3>3
    <2>6. Recursion(g, X, x0, step, k + 1)
      BY <2>3, <2>4, <2>5 DEF Recursion
    <2> QED
      BY <2>6
  <1> HIDE DEF S
  <1>3. m \in S
    BY <1>1, <1>2, NatSetInduction
  <1> QED
    BY <1>3 DEF S
-----------------------------------------------------------------------------
(* Numbers in order. *)

Ascends(s) == \A i, j \in DOMAIN s : i < j => s[i] < s[j]

(* A finite set of naturals can be put in order: its greatest comes last.   *)
LEMMA OrderExists ==
  ASSUME NEW n \in Nat
  PROVE  \A S \in SUBSET (0 .. n) : \E s \in [1 .. Cardinality(S) -> S] : Ascends(s)
<1> DEFINE T == {k \in Nat : \A S \in SUBSET (0 .. n) :
                   Cardinality(S) = k => \E s \in [1 .. k -> S] : Ascends(s)}
<1>1. \A S \in SUBSET (0 .. n) : IsFiniteSet(S) /\ Cardinality(S) \in Nat
  <2>1. IsFiniteSet(0 .. n)
    BY FS_Interval
  <2> QED
    BY <2>1, FS_Subset, FS_CardinalityType
<1>2. 0 \in T
  <2>1. ASSUME NEW S \in SUBSET (0 .. n), Cardinality(S) = 0
        PROVE  \E s \in [1 .. 0 -> S] : Ascends(s)
    <3>1. [i \in 1 .. 0 |-> 0] \in [1 .. 0 -> S]
      OBVIOUS
    <3>2. Ascends([i \in 1 .. 0 |-> 0])
      BY DEF Ascends
    <3> QED
      BY <3>1, <3>2
  <2> QED
    BY <2>1
<1>3. ASSUME NEW k \in Nat, k \in T
      PROVE  k + 1 \in T
  <2>1. SUFFICES ASSUME NEW S \in SUBSET (0 .. n), Cardinality(S) = k + 1
                 PROVE  \E s \in [1 .. k + 1 -> S] : Ascends(s)
    OBVIOUS
  <2>2. S # {}
    BY <2>1, FS_EmptySet
  <2>3. PICK m \in S : \A y \in S : y <= m
    BY <2>2, GreatestNatural
  <2>4. IsFiniteSet(S)
    BY <1>1
  <2>5. Cardinality(S \ {m}) = k
    <3>1. Cardinality(S \ {m}) = Cardinality(S) - 1
      BY <2>4, FS_RemoveElement
    <3> QED
      BY <2>1, <3>1
  <2>6. PICK s \in [1 .. k -> S \ {m}] : Ascends(s)
    <3>1. S \ {m} \in SUBSET (0 .. n)
      OBVIOUS
    <3> QED
      BY <1>3, <2>5, <3>1
  <2> DEFINE t == [i \in 1 .. k + 1 |-> IF i = k + 1 THEN m ELSE s[i]]
  <2>7. t \in [1 .. k + 1 -> S]
    OBVIOUS
  <2>8. ASSUME NEW i \in 1 .. k + 1, NEW j \in 1 .. k + 1, i < j
        PROVE  t[i] < t[j]
    <3>1. i \in 1 .. k /\ t[i] = s[i] /\ s[i] \in S \ {m}
      BY <2>8
    <3>2. CASE j = k + 1
      <4>1. t[j] = m /\ s[i] <= m /\ s[i] # m
        BY <2>3, <3>1, <3>2
      <4>2. s[i] \in 0 .. n /\ m \in 0 .. n
        BY <3>1
      <4> HIDE DEF t
      <4> QED
        BY <3>1, <4>1, <4>2
    <3>3. CASE j # k + 1
      <4>1. j \in 1 .. k /\ t[j] = s[j]
        BY <3>3
      <4> QED
        BY <2>6, <2>8, <3>1, <4>1 DEF Ascends
    <3> QED
      BY <3>2, <3>3
  <2>9. Ascends(t)
    <3>1. DOMAIN t = 1 .. k + 1
      OBVIOUS
    <3> HIDE DEF t
    <3> QED
      BY <2>8, <3>1 DEF Ascends
  <2> QED
    BY <2>7, <2>9
<1>4. \A k \in Nat : k \in T
  <2> HIDE DEF T
  <2> QED
    BY <1>2, <1>3, NatSetInduction
<1> QED
  BY <1>1, <1>4

LEMMA AscendingAscends ==
  ASSUME NEW n \in Nat, NEW S, S \subseteq 0 .. n
  PROVE  /\ IsFiniteSet(S) /\ Cardinality(S) \in Nat
         /\ Ascending(S) \in [1 .. Cardinality(S) -> S] /\ Ascends(Ascending(S))
<1>1. IsFiniteSet(S) /\ Cardinality(S) \in Nat
  <2>1. IsFiniteSet(0 .. n)
    BY FS_Interval
  <2> QED
    BY <2>1, FS_Subset, FS_CardinalityType
<1>2. \E t \in [1 .. Cardinality(S) -> S] : Ascends(t)
  BY OrderExists
<1> QED
  BY <1>1, <1>2 DEF Ascending, Ascends

(* In order, they are all there, and nothing else is.                       *)
LEMMA AscendingHasAll ==
  ASSUME NEW n \in Nat, NEW S, S \subseteq 0 .. n
  PROVE  /\ Ascending(S) \in Seq(S)
         /\ \A x \in S : \E i \in DOMAIN Ascending(S) : Ascending(S)[i] = x
         /\ S # {} => Ascending(S) # <<>>
<1> DEFINE s == Ascending(S)
           c == Cardinality(S)
<1>1. IsFiniteSet(S) /\ c \in Nat
  BY AscendingAscends
<1>2. s \in [1 .. c -> S] /\ Ascends(s)
  BY AscendingAscends
<1> HIDE DEF s
<1>3. s \in Injection(1 .. c, S)
  <2>1. ASSUME NEW i \in 1 .. c, NEW j \in 1 .. c, s[i] = s[j]
        PROVE  i = j
    <3>0. s[i] \in S
      BY <1>2
    <3>1. ~(s[i] < s[j]) /\ ~(s[j] < s[i])
      <4>1. s[i] \in 0 .. n
        BY <3>0
      <4> QED
        BY <2>1, <4>1
    <3>2. ~(i < j) /\ ~(j < i)
      BY <1>2, <3>1 DEF Ascends
    <3> QED
      BY <1>1, <3>2
  <2> QED
    BY <1>2, <2>1 DEF Injection, IsInjective
<1>4. Cardinality(1 .. c) = c
  BY <1>1, FS_Interval
<1>5. s \in Surjection(1 .. c, S)
  BY <1>1, <1>3, <1>4, FS_Injection
<1>6. \A x \in S : \E i \in 1 .. c : s[i] = x
  BY <1>5 DEF Surjection
<1>7. s \in Seq(S) /\ DOMAIN s = 1 .. c /\ Len(s) = c
  BY <1>1, <1>2
<1>8. ASSUME S # {} PROVE s # <<>>
  <2>1. PICK x \in S : TRUE
    BY <1>8
  <2>2. PICK i \in 1 .. c : s[i] = x
    BY <1>6
  <2>3. Len(s) \in Nat /\ i \in 1 .. Len(s)
    BY <1>7
  <2> QED
    BY <2>3
<1> QED
  BY <1>6, <1>7, <1>8 DEF s
-----------------------------------------------------------------------------
(* Sets and sequences. *)

(* A set with the empty set, and with each subset of S that it has without  *)
(* any one of its elements, has every subset of S.                          *)
LEMMA FiniteSetInduction ==
  ASSUME NEW S, IsFiniteSet(S), NEW P,
         {} \in P,
         \A T \in SUBSET S : T # {} /\ (\A x \in T : T \ {x} \in P) => T \in P
  PROVE  \A T \in SUBSET S : T \in P
<1> DEFINE N == {n \in Nat : \A T \in SUBSET S : Cardinality(T) = n => T \in P}
<1>1. \A T \in SUBSET S : IsFiniteSet(T) /\ Cardinality(T) \in Nat
  BY FS_Subset, FS_CardinalityType
<1>2. 0 \in N
  <2>1. ASSUME NEW T \in SUBSET S, Cardinality(T) = 0
        PROVE  T \in P
    <3>1. T = {}
      BY <1>1, <2>1, FS_EmptySet
    <3> QED
      BY <3>1
  <2> QED
    BY <2>1
<1>3. ASSUME NEW n \in Nat, n \in N
      PROVE  n + 1 \in N
  <2>1. ASSUME NEW T \in SUBSET S, Cardinality(T) = n + 1
        PROVE  T \in P
    <3>1. T # {}
      <4>1. Cardinality(T) # 0 /\ IsFiniteSet(T)
        BY <1>1, <2>1
      <4> QED
        BY <4>1, FS_EmptySet
    <3>2. ASSUME NEW x \in T
          PROVE  T \ {x} \in P
      <4>1. Cardinality(T \ {x}) = Cardinality(T) - 1
        BY <1>1, FS_RemoveElement
      <4> QED
        BY <1>3, <2>1, <4>1
    <3> QED
      BY <3>1, <3>2
  <2> QED
    BY <2>1
<1> HIDE DEF N
<1>4. \A n \in Nat : n \in N
  BY <1>2, <1>3, NatSetInduction
<1> QED
  BY <1>1, <1>4 DEF N
(* Sequences as functions.                                                  *)
LEMMA SequenceElement ==
  ASSUME NEW S, NEW s \in Seq(S), NEW i \in DOMAIN s
  PROVE  s[i] \in S
  OBVIOUS

LEMMA FunctionIsSequence ==
  ASSUME NEW S, NEW n \in Nat, NEW s \in [1 .. n -> S]
  PROVE  s \in Seq(S) /\ Len(s) = n
  OBVIOUS

(* In order, each is there once. *)
LEMMA AscendingOnce ==
  ASSUME NEW n \in Nat, NEW S, S \subseteq 0 .. n
  PROVE  IsInjective(Ascending(S))
<1> DEFINE s == Ascending(S)
           c == Cardinality(S)
<1>1. c \in Nat /\ s \in [1 .. c -> S] /\ Ascends(s)
  BY AscendingAscends
<1> HIDE DEF s, c
<1>2. ASSUME NEW i \in 1 .. c, NEW j \in 1 .. c, s[i] = s[j]
      PROVE  i = j
  <2>1. s[i] \in 0 .. n
    BY <1>1
  <2>2. ~(s[i] < s[j]) /\ ~(s[j] < s[i])
    BY <1>2, <2>1
  <2>3. ~(i < j) /\ ~(j < i)
    BY <1>1, <2>2 DEF Ascends
  <2> QED
    BY <1>1, <2>3
<1> QED
  BY <1>1, <1>2 DEF IsInjective, s

(* What a sequence has at some places, taken in order.                      *)
LEMMA TakenInOrder ==
  ASSUME NEW S, NEW s \in Seq(S), NEW P, P \subseteq DOMAIN s,
         NEW u, u = [j \in DOMAIN Ascending(P) |-> s[Ascending(P)[j]]]
  PROVE  /\ u \in Seq(S)
         /\ Range(u) = {s[j] : j \in P}
         /\ IsInjective(s) => IsInjective(u)
<1> DEFINE places == Ascending(P)
           n      == Cardinality(P)
<1>1. P \subseteq 0 .. Len(s) /\ Len(s) \in Nat
  OBVIOUS
<1>2. /\ places \in [1 .. n -> P] /\ n \in Nat /\ IsInjective(places)
      /\ \A x \in P : \E i \in DOMAIN places : places[i] = x
  BY <1>1, AscendingAscends, AscendingHasAll, AscendingOnce
<1> HIDE DEF places, n
<1>3. u = [j \in 1 .. n |-> s[places[j]]]
  BY <1>2 DEF places
<1>4. \A j \in 1 .. n : s[places[j]] \in S
  BY <1>2
<1>5. u \in Seq(S)
  <2>1. u \in [1 .. n -> S]
    BY <1>3, <1>4
  <2> QED
    BY <1>2, <2>1, FunctionIsSequence
<1>6. Range(u) = {s[j] : j \in P}
  <2>1. ASSUME NEW j \in P
        PROVE  s[j] \in Range(u)
    <3>1. PICK i \in 1 .. n : places[i] = j
      BY <1>2
    <3>2. u[i] = s[j] /\ i \in DOMAIN u
      BY <1>3, <3>1
    <3> QED
      BY <3>2 DEF Range
  <2>2. ASSUME NEW x \in Range(u)
        PROVE  \E j \in P : x = s[j]
    BY <1>2, <1>3 DEF Range
  <2> QED
    BY <2>1, <2>2
<1>7. ASSUME IsInjective(s)
      PROVE  IsInjective(u)
  <2>1. SUFFICES ASSUME NEW a \in 1 .. n, NEW b \in 1 .. n, u[a] = u[b]
                 PROVE  a = b
    BY <1>3 DEF IsInjective
  <2>2. places[a] \in DOMAIN s /\ places[b] \in DOMAIN s /\ s[places[a]] = s[places[b]]
    BY <1>2, <1>3, <2>1
  <2>3. places[a] = places[b]
    BY <1>7, <2>2 DEF IsInjective
  <2> QED
    BY <1>2, <2>3 DEF IsInjective
<1> QED
  BY <1>5, <1>6, <1>7

-----------------------------------------------------------------------------
(* Sums.  A sum is the number of pairs of an element and a number from 1 to *)
(* its value; what holds of sums follows from what holds of cardinalities.  *)

Units(f, T) == {c \in T \X Nat : 1 <= c[2] /\ c[2] <= f[c[1]]}

LEMMA UnitsOfOne ==
  ASSUME NEW x, NEW f, f[x] \in Nat
  PROVE  IsFiniteSet(Units(f, {x})) /\ Cardinality(Units(f, {x})) = f[x]
<1> DEFINE U == Units(f, {x})
           g == [n \in 1 .. f[x] |-> <<x, n>>]
<1>1. IsFiniteSet(1 .. f[x]) /\ Cardinality(1 .. f[x]) = f[x]
  BY FS_Interval
<1>2. g \in [1 .. f[x] -> U]
  BY DEF Units
<1>3. IsInjective(g)
  BY DEF IsInjective
<1>4. \A c \in U : \E n \in 1 .. f[x] : g[n] = c
  <2> SUFFICES ASSUME NEW c \in U
               PROVE  \E n \in 1 .. f[x] : g[n] = c
    OBVIOUS
  <2>1. c = <<x, c[2]>> /\ c[2] \in 1 .. f[x]
    BY DEF Units
  <2>2. g[c[2]] = c
    BY <2>1
  <2> QED
    BY <2>1, <2>2
<1>5. g \in Bijection(1 .. f[x], U)
  <2> HIDE DEF g, U
  <2> QED
    BY <1>2, <1>3, <1>4 DEF Bijection, Injection, Surjection
<1> QED
  BY <1>1, <1>5, FS_Bijection DEF ExistsBijection

LEMMA UnitsSplit ==
  ASSUME NEW A, NEW B, NEW f, A \intersect B = {},
         IsFiniteSet(Units(f, A)), IsFiniteSet(Units(f, B))
  PROVE  /\ IsFiniteSet(Units(f, A \union B))
         /\ Cardinality(Units(f, A \union B)) =
              Cardinality(Units(f, A)) + Cardinality(Units(f, B))
<1>1. Units(f, A \union B) = Units(f, A) \union Units(f, B)
  BY DEF Units
<1>2. Units(f, A) \intersect Units(f, B) = {}
  BY DEF Units
<1>3. Cardinality({}) = 0
  BY FS_EmptySet
<1>4. Cardinality(Units(f, A)) \in Nat /\ Cardinality(Units(f, B)) \in Nat
  BY FS_CardinalityType
<1> DEFINE a == Units(f, A)
           b == Units(f, B)
<1> HIDE DEF a, b
<1>5. IsFiniteSet(a \union b)
      /\ Cardinality(a \union b) = Cardinality(a) + Cardinality(b) - Cardinality(a \intersect b)
  BY FS_Union DEF a, b
<1>6. Cardinality(a \intersect b) = 0
  <2>1. a \intersect b = {}
    BY <1>2 DEF a, b
  <2> QED
    BY <1>3, <2>1
<1>7. Cardinality(a) \in Nat /\ Cardinality(b) \in Nat
  BY <1>4 DEF a, b
<1>8. Cardinality(a \union b) = Cardinality(a) + Cardinality(b)
  BY <1>5, <1>6, <1>7
<1> QED
  BY <1>1, <1>5, <1>8 DEF a, b

LEMMA UnitsFinite ==
  ASSUME NEW S, IsFiniteSet(S), NEW f, \A x \in S : f[x] \in Nat
  PROVE  \A T \in SUBSET S : IsFiniteSet(Units(f, T)) /\ Cardinality(Units(f, T)) \in Nat
<1> DEFINE P == {T \in SUBSET S : IsFiniteSet(Units(f, T))}
<1>1. {} \in P
  <2>1. Units(f, {}) = {}
    BY DEF Units
  <2> QED
    BY <2>1, FS_EmptySet
<1>2. ASSUME NEW T \in SUBSET S, T # {}, \A x \in T : T \ {x} \in P
      PROVE  T \in P
  <2>0. PICK x \in T : T \ {x} \in P
    BY <1>2
  <2>1. IsFiniteSet(Units(f, {x}))
    BY UnitsOfOne
  <2>2. T = (T \ {x}) \union {x} /\ (T \ {x}) \intersect {x} = {}
    OBVIOUS
  <2>3. IsFiniteSet(Units(f, T \ {x}))
    BY <2>0
  <2>4. IsFiniteSet(Units(f, (T \ {x}) \union {x}))
    BY <2>1, <2>2, <2>3, UnitsSplit
  <2> QED
    BY <2>2, <2>4
<1> HIDE DEF P
<1>3. \A T \in SUBSET S : T \in P
  BY <1>1, <1>2, FiniteSetInduction
<1> QED
  BY <1>3, FS_CardinalityType DEF P

(* The sum over a finite set is what is left when an element is taken out,  *)
(* and that element's value.                                                *)
LEMMA SumIsUnits ==
  ASSUME NEW S, IsFiniteSet(S), NEW f \in [S -> Nat]
  PROVE  SumOf(f) = Cardinality(Units(f, S))
<1> DEFINE pick(T) == CHOOSE x \in T : TRUE
           step(h) == [T \in SUBSET S |-> IF T = {} THEN 0 ELSE f[pick(T)] + h[T \ {pick(T)}]]
           g == [T \in SUBSET S |-> Cardinality(Units(f, T))]
           iter == CHOOSE h : h = step(h)
<1>1. \A T \in SUBSET S : IsFiniteSet(Units(f, T)) /\ Cardinality(Units(f, T)) \in Nat
  BY UnitsFinite
<1>2. ASSUME NEW T \in SUBSET S, NEW x \in T
      PROVE  Cardinality(Units(f, T)) = f[x] + Cardinality(Units(f, T \ {x}))
  <2>1. IsFiniteSet(Units(f, {x})) /\ Cardinality(Units(f, {x})) = f[x]
    BY UnitsOfOne
  <2>2. T = (T \ {x}) \union {x} /\ (T \ {x}) \intersect {x} = {} /\ T \ {x} \in SUBSET S
    OBVIOUS
  <2>3. Cardinality(Units(f, (T \ {x}) \union {x})) =
          Cardinality(Units(f, T \ {x})) + Cardinality(Units(f, {x}))
    BY <1>1, <2>1, <2>2, UnitsSplit
  <2>4. Cardinality(Units(f, T \ {x})) \in Nat /\ f[x] \in Nat
    BY <1>1, <2>2
  <2>5. Cardinality(Units(f, T)) = Cardinality(Units(f, (T \ {x}) \union {x}))
    BY <2>2
  <2> QED
    BY <2>1, <2>3, <2>4, <2>5
<1>3. Cardinality(Units(f, {})) = 0
  <2>1. Units(f, {}) = {}
    BY DEF Units
  <2> QED
    BY <2>1, FS_EmptySet
<1>4. g = step(g)
  <2>1. ASSUME NEW T \in SUBSET S
        PROVE  g[T] = step(g)[T]
    <3>1. CASE T = {}
      BY <1>3, <3>1
    <3>2. CASE T # {}
      <4>1. pick(T) \in T
        BY <3>2
      <4>2. T \ {pick(T)} \in SUBSET S
        OBVIOUS
      <4> HIDE DEF pick
      <4> QED
        BY <1>2, <3>2, <4>1, <4>2
    <3> QED
      BY <3>1, <3>2
  <2> HIDE DEF pick
  <2>2. step(g) = [T \in SUBSET S |-> step(g)[T]]
    OBVIOUS
  <2>3. g = [T \in SUBSET S |-> g[T]]
    OBVIOUS
  <2> HIDE DEF g, step
  <2> QED
    BY <2>1, <2>2, <2>3
<1>5. iter = step(iter)
  <2> HIDE DEF g, step
  <2> QED
    BY <1>4
<1>6. SumOf(f) = iter[S]
  <2>1. DOMAIN f = S
    OBVIOUS
  <2> QED
    BY <2>1 DEF SumOf, MapThenFoldSet
<1> DEFINE P == {T \in SUBSET S : iter[T] = g[T]}
<1> HIDE DEF iter
<1>7. {} \in P
  BY <1>3, <1>5
<1>8. ASSUME NEW T \in SUBSET S, T # {}, \A x \in T : T \ {x} \in P
      PROVE  T \in P
  <2>1. pick(T) \in T
    BY <1>8
  <2>2. iter[T \ {pick(T)}] = Cardinality(Units(f, T \ {pick(T)}))
    BY <1>8, <2>1
  <2>3. iter[T] = f[pick(T)] + iter[T \ {pick(T)}]
    <3>1. iter[T] = step(iter)[T]
      BY <1>5
    <3> QED
      BY <1>8, <3>1
  <2> HIDE DEF pick
  <2>4. Cardinality(Units(f, T)) = f[pick(T)] + Cardinality(Units(f, T \ {pick(T)}))
    BY <1>2, <2>1
  <2> QED
    BY <2>2, <2>3, <2>4
<1>9. S \in P
  <2> HIDE DEF P
  <2> QED
    BY <1>7, <1>8, FiniteSetInduction
<1> QED
  BY <1>6, <1>9

LEMMA SumType ==
  ASSUME NEW S, IsFiniteSet(S), NEW f \in [S -> Nat]
  PROVE  SumOf(f) \in Nat
<1>1. IsFiniteSet(Units(f, S)) /\ Cardinality(Units(f, S)) \in Nat
  BY UnitsFinite
<1> QED
  BY <1>1, SumIsUnits

(* The sum over two disjoint sets is that over the one and that over the    *)
(* other.                                                                   *)
LEMMA SumSplit ==
  ASSUME NEW S, IsFiniteSet(S), NEW f \in [S -> Nat],
         NEW A, NEW B, A \union B = S, A \intersect B = {},
         NEW fA \in [A -> Nat], \A x \in A : fA[x] = f[x],
         NEW fB \in [B -> Nat], \A x \in B : fB[x] = f[x]
  PROVE  SumOf(f) = SumOf(fA) + SumOf(fB)
<1>1. A \in SUBSET S /\ B \in SUBSET S
  OBVIOUS
<1>2. IsFiniteSet(A) /\ IsFiniteSet(B)
  BY <1>1, FS_Subset
<1>4. Units(fA, A) = Units(f, A) /\ Units(fB, B) = Units(f, B)
  BY DEF Units
<1>5. SumOf(fA) = Cardinality(Units(f, A)) /\ SumOf(fB) = Cardinality(Units(f, B))
  <2>1. SumOf(fA) = Cardinality(Units(fA, A)) /\ SumOf(fB) = Cardinality(Units(fB, B))
    BY <1>2, SumIsUnits
  <2> QED
    BY <1>4, <2>1
<1>6. IsFiniteSet(Units(f, A)) /\ IsFiniteSet(Units(f, B))
  <2>1. \A T \in SUBSET S : IsFiniteSet(Units(f, T)) /\ Cardinality(Units(f, T)) \in Nat
    BY UnitsFinite
  <2> QED
    BY <1>1, <2>1
<1>7. Cardinality(Units(f, A \union B)) = Cardinality(Units(f, A)) + Cardinality(Units(f, B))
  BY <1>6, UnitsSplit
<1> QED
  BY <1>5, <1>7, SumIsUnits

LEMMA SumAtMost ==
  ASSUME NEW S, IsFiniteSet(S), NEW f \in [S -> Nat], NEW g \in [S -> Nat],
         \A x \in S : f[x] <= g[x]
  PROVE  SumOf(f) <= SumOf(g)
<1>1. Units(f, S) \in SUBSET Units(g, S)
  <2> SUFFICES ASSUME NEW c \in Units(f, S)
               PROVE  c \in Units(g, S)
    OBVIOUS
  <2>1. c \in S \X Nat /\ 1 <= c[2] /\ c[2] <= f[c[1]]
    BY DEF Units
  <2>2. c[1] \in S /\ c[2] \in Nat
    BY <2>1
  <2>3. f[c[1]] <= g[c[1]] /\ f[c[1]] \in Nat /\ g[c[1]] \in Nat
    BY <2>2
  <2>4. c[2] <= g[c[1]]
    BY <2>1, <2>2, <2>3
  <2> QED
    BY <2>1, <2>4 DEF Units
<1>2. IsFiniteSet(Units(g, S))
  <2>1. \A T \in SUBSET S : IsFiniteSet(Units(g, T)) /\ Cardinality(Units(g, T)) \in Nat
    BY UnitsFinite
  <2> QED
    BY <2>1
<1>3. Cardinality(Units(f, S)) <= Cardinality(Units(g, S))
  BY <1>1, <1>2, FS_Subset
<1> QED
  BY <1>3, SumIsUnits

LEMMA SumOfNone ==
  ASSUME NEW f, DOMAIN f = {}, f \in [{} -> Nat]
  PROVE  SumOf(f) = 0
<1>1. Units(f, {}) = {}
  BY DEF Units
<1> QED
  BY <1>1, FS_EmptySet, SumIsUnits

LEMMA SumOfOne ==
  ASSUME NEW x, NEW f \in [{x} -> Nat]
  PROVE  SumOf(f) = f[x]
<1>1. IsFiniteSet({x}) /\ f[x] \in Nat
  BY FS_Singleton
<1> QED
  BY <1>1, UnitsOfOne, SumIsUnits

LEMMA SumOfZeros ==
  ASSUME NEW S, IsFiniteSet(S), NEW f \in [S -> Nat], \A x \in S : f[x] = 0
  PROVE  SumOf(f) = 0
<1>1. Units(f, S) = {}
  <2> SUFFICES ASSUME NEW c \in Units(f, S)
               PROVE  FALSE
    OBVIOUS
  <2>1. c \in S \X Nat /\ 1 <= c[2] /\ c[2] <= f[c[1]]
    BY DEF Units
  <2>2. f[c[1]] = 0 /\ c[2] \in Nat
    BY <2>1
  <2> QED
    BY <2>1, <2>2
<1> QED
  BY <1>1, FS_EmptySet, SumIsUnits

(* Elements of value 0 can be left out.                                     *)
LEMMA SumOverSupport ==
  ASSUME NEW S, IsFiniteSet(S), NEW f \in [S -> Nat],
         NEW A \in SUBSET S, \A x \in S \ A : f[x] = 0,
         NEW fA \in [A -> Nat], \A x \in A : fA[x] = f[x]
  PROVE  SumOf(f) = SumOf(fA)
<1> DEFINE B == S \ A
           fB == [x \in B |-> f[x]]
<1>1. SumOf(f) = SumOf(fA) + SumOf(fB)
  <2>1. A \union B = S /\ A \intersect B = {}
    OBVIOUS
  <2>2. fB \in [B -> Nat] /\ \A x \in B : fB[x] = f[x]
    OBVIOUS
  <2> HIDE DEF B, fB
  <2> QED
    BY <2>1, <2>2, SumSplit
<1>2. IsFiniteSet(A) /\ IsFiniteSet(B)
  BY FS_Subset
<1>3. fB \in [B -> Nat] /\ \A x \in B : fB[x] = 0
  OBVIOUS
<1> HIDE DEF fB, B
<1>4. SumOf(fB) = 0
  BY <1>2, <1>3, SumOfZeros
<1>5. SumOf(fA) \in Nat
  BY <1>2, <1>3, SumType
<1> QED
  BY <1>1, <1>4, <1>5

(* SumSplit, its hypotheses in a word.                                      *)
SplitsInto(f, S, fA, A, fB, B) ==
  /\ IsFiniteSet(S) /\ f \in [S -> Nat] /\ fA \in [A -> Nat] /\ fB \in [B -> Nat]
  /\ A \union B = S /\ A \intersect B = {}
  /\ (\A x \in A : fA[x] = f[x]) /\ \A x \in B : fB[x] = f[x]

LEMMA SumOfParts ==
  ASSUME NEW f, NEW S, NEW fA, NEW A, NEW fB, NEW B, SplitsInto(f, S, fA, A, fB, B)
  PROVE  SumOf(f) = SumOf(fA) + SumOf(fB)
  BY SumSplit DEF SplitsInto

(* Multiples add up to the multiple of the sum.                             *)
LEMMA SumScaled ==
  ASSUME NEW S, IsFiniteSet(S), NEW f \in [S -> Nat], NEW c \in Nat,
         NEW g \in [S -> Nat], \A x \in S : g[x] = c * f[x]
  PROVE  SumOf(g) = c * SumOf(f)
<1> DEFINE Of(h, T) == [x \in T |-> h[x]]
           P == {T \in SUBSET S : SumOf(Of(g, T)) = c * SumOf(Of(f, T))}
<1>1. ASSUME NEW T \in SUBSET S
      PROVE  /\ IsFiniteSet(T)
             /\ Of(f, T) \in [T -> Nat] /\ SumOf(Of(f, T)) \in Nat
             /\ Of(g, T) \in [T -> Nat] /\ SumOf(Of(g, T)) \in Nat
  <2>1. IsFiniteSet(T)
    BY FS_Subset
  <2>2. Of(f, T) \in [T -> Nat] /\ Of(g, T) \in [T -> Nat]
    OBVIOUS
  <2> HIDE DEF Of
  <2> QED
    BY <2>1, <2>2, SumType
<1>2. {} \in P
  <2>1. DOMAIN Of(f, {}) = {} /\ DOMAIN Of(g, {}) = {}
    OBVIOUS
  <2>2. Of(f, {}) \in [{} -> Nat] /\ Of(g, {}) \in [{} -> Nat]
    OBVIOUS
  <2> HIDE DEF Of
  <2>3. SumOf(Of(f, {})) = 0 /\ SumOf(Of(g, {})) = 0
    BY <2>1, <2>2, SumOfNone
  <2> QED
    BY <2>3
<1>3. ASSUME NEW T \in SUBSET S, T # {}, \A x \in T : T \ {x} \in P
      PROVE  T \in P
  <2>1. PICK x \in T : T \ {x} \in P
    BY <1>3
  <2> DEFINE R == T \ {x}
  <2>2. SumOf(Of(g, R)) = c * SumOf(Of(f, R))
    BY <2>1
  <2>3. T \in SUBSET S /\ R \in SUBSET S /\ {x} \in SUBSET S
    BY <2>1
  <2>4. R \union {x} = T /\ R \intersect {x} = {}
    BY <2>1
  <2>5. /\ \A y \in R : Of(f, R)[y] = Of(f, T)[y] /\ Of(g, R)[y] = Of(g, T)[y]
        /\ Of(f, {x})[x] = Of(f, T)[x] /\ Of(g, {x})[x] = Of(g, T)[x]
        /\ Of(f, {x})[x] = f[x] /\ Of(g, {x})[x] = g[x]
    BY <2>1
  <2>6. f[x] \in Nat /\ g[x] = c * f[x]
    BY <2>3
  <2> HIDE DEF Of, R, P
  <2>7. SumOf(Of(f, T)) = SumOf(Of(f, R)) + SumOf(Of(f, {x}))
    <3>1. \A y \in {x} : Of(f, {x})[y] = Of(f, T)[y]
      BY <2>5
    <3>2. IsFiniteSet(T) /\ Of(f, T) \in [T -> Nat] /\ Of(f, R) \in [R -> Nat]
          /\ Of(f, {x}) \in [{x} -> Nat]
      BY <1>1, <2>3
    <3>3. \A y \in R : Of(f, R)[y] = Of(f, T)[y]
      BY <2>5
    <3> DEFINE all  == Of(f, T)
               rest == Of(f, R)
               one  == Of(f, {x})
    <3>4. /\ IsFiniteSet(T) /\ all \in [T -> Nat] /\ rest \in [R -> Nat] /\ one \in [{x} -> Nat]
          /\ (\A y \in R : rest[y] = all[y]) /\ \A y \in {x} : one[y] = all[y]
      BY <3>1, <3>2, <3>3
    <3> HIDE DEF all, rest, one
    <3>5. SumOf(all) = SumOf(rest) + SumOf(one)
      BY <2>4, <3>4, SumOfParts DEF SplitsInto
    <3> QED
      BY <3>5 DEF all, rest, one
  <2>8. SumOf(Of(g, T)) = SumOf(Of(g, R)) + SumOf(Of(g, {x}))
    <3>1. \A y \in {x} : Of(g, {x})[y] = Of(g, T)[y]
      BY <2>5
    <3>2. IsFiniteSet(T) /\ Of(g, T) \in [T -> Nat] /\ Of(g, R) \in [R -> Nat]
          /\ Of(g, {x}) \in [{x} -> Nat]
      BY <1>1, <2>3
    <3>3. \A y \in R : Of(g, R)[y] = Of(g, T)[y]
      BY <2>5
    <3> DEFINE all  == Of(g, T)
               rest == Of(g, R)
               one  == Of(g, {x})
    <3>4. /\ IsFiniteSet(T) /\ all \in [T -> Nat] /\ rest \in [R -> Nat] /\ one \in [{x} -> Nat]
          /\ (\A y \in R : rest[y] = all[y]) /\ \A y \in {x} : one[y] = all[y]
      BY <3>1, <3>2, <3>3
    <3> HIDE DEF all, rest, one
    <3>5. SumOf(all) = SumOf(rest) + SumOf(one)
      BY <2>4, <3>4, SumOfParts DEF SplitsInto
    <3> QED
      BY <3>5 DEF all, rest, one
  <2>9. SumOf(Of(f, {x})) = f[x] /\ SumOf(Of(g, {x})) = g[x]
    <3>1. Of(f, {x}) \in [{x} -> Nat] /\ Of(g, {x}) \in [{x} -> Nat]
      BY <1>1, <2>3
    <3> QED
      BY <2>5, <3>1, SumOfOne
  <2>10. SumOf(Of(g, T)) = c * SumOf(Of(f, T))
    <3> DEFINE a == SumOf(Of(f, R))
               e == f[x]
    <3>1. a \in Nat /\ e \in Nat
      BY <1>1, <2>3, <2>6
    <3>2. SumOf(Of(f, T)) = a + e /\ SumOf(Of(g, T)) = c * a + c * e
      BY <2>2, <2>6, <2>7, <2>8, <2>9
    <3> HIDE DEF a, e
    <3>3. c * a + c * e = c * (a + e)
      BY <3>1
    <3> QED
      BY <3>2, <3>3
  <2> QED
    BY <2>3, <2>10 DEF P
<1>4. S \in P
  <2> HIDE DEF P
  <2> QED
    BY <1>2, <1>3, FiniteSetInduction
<1>5. Of(f, S) = f /\ Of(g, S) = g
  OBVIOUS
<1> QED
  BY <1>4, <1>5

(* A sum may be taken key by key.                                           *)
Groups(f, S, key, g, K) ==
  /\ f \in [S -> Nat] /\ key \in [S -> K] /\ g \in [K -> Nat]
  /\ \A t \in K : g[t] = SumOf([x \in {y \in S : key[y] = t} |-> f[x]])

LEMMA SumGrouped ==
  ASSUME NEW S, IsFiniteSet(S), NEW K, IsFiniteSet(K),
         NEW f, NEW key, NEW g, Groups(f, S, key, g, K)
  PROVE  SumOf(f) = SumOf(g)
<1> DEFINE Keyed(T) == {y \in S : key[y] \in T}
           F(T)     == [x \in Keyed(T) |-> f[x]]
           G(T)     == [t \in T |-> g[t]]
           P        == {T \in SUBSET K : SumOf(F(T)) = SumOf(G(T))}
<1>0. /\ f \in [S -> Nat] /\ key \in [S -> K] /\ g \in [K -> Nat]
      /\ \A t \in K : g[t] = SumOf([x \in {y \in S : key[y] = t} |-> f[x]])
  BY DEF Groups
<1>1. ASSUME NEW T \in SUBSET K
      PROVE  /\ IsFiniteSet(Keyed(T)) /\ F(T) \in [Keyed(T) -> Nat]
             /\ IsFiniteSet(T) /\ G(T) \in [T -> Nat]
             /\ \A x \in Keyed(T) : F(T)[x] = f[x]
             /\ \A t \in T : G(T)[t] = g[t]
  <2>1. Keyed(T) \in SUBSET S
    OBVIOUS
  <2>2. IsFiniteSet(Keyed(T)) /\ IsFiniteSet(T)
    <3> HIDE DEF Keyed
    <3> QED
      BY <2>1, FS_Subset
  <2> QED
    BY <1>0, <2>2
<1>2. {} \in P
  <2>1. Keyed({}) = {}
    OBVIOUS
  <2>2. F({}) \in [{} -> Nat] /\ G({}) \in [{} -> Nat] /\ DOMAIN F({}) = {} /\ DOMAIN G({}) = {}
    BY <2>1
  <2> HIDE DEF F, G
  <2>3. SumOf(F({})) = 0 /\ SumOf(G({})) = 0
    BY <2>2, SumOfNone
  <2> QED
    BY <2>3
<1>3. ASSUME NEW T \in SUBSET K, T # {}, \A t \in T : T \ {t} \in P
      PROVE  T \in P
  <2>1. PICK t \in T : T \ {t} \in P
    BY <1>3
  <2> DEFINE R == T \ {t}
             A == Keyed(R)
             B == Keyed({t})
  <2>2. R \in SUBSET K /\ {t} \in SUBSET K /\ R \union {t} = T /\ R \intersect {t} = {}
    BY <2>1
  <2>3. A \union B = Keyed(T) /\ A \intersect B = {}
    BY <1>0, <2>2
  <2>4. SumOf(F(R)) = SumOf(G(R))
    BY <2>1
  <2>5. SumOf(F({t})) = g[t]
    <3>1. B = {y \in S : key[y] = t}
      OBVIOUS
    <3>2. F({t}) = [x \in {y \in S : key[y] = t} |-> f[x]]
      BY <3>1
    <3>3. t \in K
      BY <2>1
    <3> QED
      BY <1>0, <3>2, <3>3
  <2> HIDE DEF F, G, Keyed, P, R
  <2>6. SumOf(F(T)) = SumOf(F(R)) + SumOf(F({t}))
    <3>1. IsFiniteSet(Keyed(T)) /\ F(T) \in [Keyed(T) -> Nat]
          /\ F(R) \in [A -> Nat] /\ F({t}) \in [B -> Nat]
      BY <1>1, <2>2
    <3>2. (\A x \in A : F(R)[x] = F(T)[x]) /\ (\A x \in B : F({t})[x] = F(T)[x])
      BY <1>1, <2>2, <2>3
    <3> DEFINE all  == F(T)
               rest == F(R)
               one  == F({t})
               KT   == Keyed(T)
    <3>3. /\ IsFiniteSet(KT) /\ all \in [KT -> Nat] /\ rest \in [A -> Nat] /\ one \in [B -> Nat]
          /\ (\A x \in A : rest[x] = all[x]) /\ \A x \in B : one[x] = all[x]
          /\ A \union B = KT /\ A \intersect B = {}
      BY <2>3, <3>1, <3>2
    <3> HIDE DEF A, B, all, rest, one, KT
    <3>4. SumOf(all) = SumOf(rest) + SumOf(one)
      BY <3>3, SumOfParts DEF SplitsInto
    <3> QED
      BY <3>4 DEF all, rest, one
  <2>7. SumOf(G(T)) = SumOf(G(R)) + SumOf(G({t}))
    <3>1. IsFiniteSet(T) /\ G(T) \in [T -> Nat] /\ G(R) \in [R -> Nat] /\ G({t}) \in [{t} -> Nat]
      BY <1>1, <2>2
    <3>2. (\A x \in R : G(R)[x] = G(T)[x]) /\ (\A x \in {t} : G({t})[x] = G(T)[x])
      BY <1>1, <2>2
    <3> DEFINE all  == G(T)
               rest == G(R)
               one  == G({t})
    <3>3. /\ IsFiniteSet(T) /\ all \in [T -> Nat] /\ rest \in [R -> Nat] /\ one \in [{t} -> Nat]
          /\ (\A x \in R : rest[x] = all[x]) /\ \A x \in {t} : one[x] = all[x]
      BY <3>1, <3>2
    <3> HIDE DEF all, rest, one
    <3>4. SumOf(all) = SumOf(rest) + SumOf(one)
      BY <2>2, <3>3, SumOfParts DEF SplitsInto
    <3> QED
      BY <3>4 DEF all, rest, one
  <2>8. SumOf(G({t})) = g[t]
    <3>1. G({t}) \in [{t} -> Nat] /\ G({t})[t] = g[t]
      BY <1>1, <2>2
    <3> QED
      BY <3>1, SumOfOne
  <2> QED
    BY <2>4, <2>5, <2>6, <2>7, <2>8 DEF P
<1>4. K \in P
  <2> HIDE DEF P
  <2> QED
    BY <1>2, <1>3, FiniteSetInduction
<1>5. F(K) = f /\ G(K) = g
  <2>1. Keyed(K) = S
    BY <1>0
  <2> QED
    BY <1>0, <2>1
<1> QED
  BY <1>4, <1>5

(* The order, and the names, of the elements do not matter.                 *)
Renames(f, S, p, g, T) ==
  p \in Bijection(S, T) /\ g \in [T -> Nat] /\ f \in [S -> Nat] /\ \A x \in S : f[x] = g[p[x]]

LEMMA SumMapped ==
  ASSUME NEW S, NEW T, NEW p, NEW f, NEW g, IsFiniteSet(S), Renames(f, S, p, g, T)
  PROVE  SumOf(f) = SumOf(g)
<1>0. p \in Bijection(S, T) /\ g \in [T -> Nat] /\ f \in [S -> Nat] /\ \A x \in S : f[x] = g[p[x]]
  BY DEF Renames
<1> DEFINE q == [c \in Units(f, S) |-> <<p[c[1]], c[2]>>]
<1>1. p \in [S -> T] /\ (\A x, y \in S : p[x] = p[y] => x = y) /\ \A t \in T : \E x \in S : p[x] = t
  BY <1>0 DEF Bijection, Injection, Surjection, IsInjective
<1>3. IsFiniteSet(T)
  BY <1>0, FS_Bijection DEF ExistsBijection
<1>4. q \in Bijection(Units(f, S), Units(g, T))
  <2>1. \A c \in Units(f, S) : c[1] \in S /\ c[2] \in Nat /\ c = <<c[1], c[2]>>
                               /\ 1 <= c[2] /\ c[2] <= g[p[c[1]]]
    BY <1>0 DEF Units
  <2>2. \A c \in Units(f, S) : q[c] \in Units(g, T)
    BY <1>0, <1>1, <2>1 DEF Units
  <2>3. ASSUME NEW c \in Units(f, S), NEW e \in Units(f, S), q[c] = q[e]
        PROVE  c = e
    <3>1. p[c[1]] = p[e[1]] /\ c[2] = e[2]
      BY <2>3
    <3>2. c[1] = e[1]
      BY <1>1, <2>1, <3>1
    <3> QED
      BY <2>1, <3>1, <3>2
  <2>4. ASSUME NEW e \in Units(g, T)
        PROVE  \E c \in Units(f, S) : q[c] = e
    <3>1. e[1] \in T /\ e[2] \in Nat /\ e = <<e[1], e[2]>> /\ 1 <= e[2] /\ e[2] <= g[e[1]]
      BY DEF Units
    <3>2. PICK x \in S : p[x] = e[1]
      BY <1>1, <3>1
    <3>3. <<x, e[2]>> \in Units(f, S)
      BY <1>0, <3>1, <3>2 DEF Units
    <3>4. q[<<x, e[2]>>] = e
      BY <3>1, <3>2, <3>3
    <3> QED
      BY <3>3, <3>4
  <2>5. q \in [Units(f, S) -> Units(g, T)] /\ DOMAIN q = Units(f, S)
    BY <2>2
  <2> HIDE DEF q
  <2> QED
    BY <2>3, <2>4, <2>5 DEF Bijection, Injection, Surjection, IsInjective
<1>5. IsFiniteSet(Units(f, S))
  <2>1. \A U \in SUBSET S : IsFiniteSet(Units(f, U)) /\ Cardinality(Units(f, U)) \in Nat
    BY <1>0, UnitsFinite
  <2> QED
    BY <2>1
<1>6. Cardinality(Units(g, T)) = Cardinality(Units(f, S))
  BY <1>4, <1>5, FS_Bijection DEF ExistsBijection
<1>7. SumOf(f) = Cardinality(Units(f, S)) /\ SumOf(g) = Cardinality(Units(g, T))
  BY <1>0, <1>3, SumIsUnits
<1> QED
  BY <1>6, <1>7

(* Ones add up to how many they are. *)
LEMMA SumOfOnes ==
  ASSUME NEW S, IsFiniteSet(S), NEW f \in [S -> Nat], \A x \in S : f[x] = 1
  PROVE  SumOf(f) = Cardinality(S)
<1> DEFINE q == [x \in S |-> <<x, 1>>]
<1>1. \A x \in S : <<x, 1>> \in Units(f, S)
  BY DEF Units
<1>2. \A c \in Units(f, S) : c[1] \in S /\ c = <<c[1], 1>>
  <2> SUFFICES ASSUME NEW c \in Units(f, S)
               PROVE  c[1] \in S /\ c = <<c[1], 1>>
    OBVIOUS
  <2>1. c \in S \X Nat /\ 1 <= c[2] /\ c[2] <= f[c[1]]
    BY DEF Units
  <2>2. c[1] \in S /\ c[2] \in Nat /\ c = <<c[1], c[2]>>
    BY <2>1
  <2>3. c[2] = 1
    BY <2>1, <2>2
  <2> QED
    BY <2>2, <2>3
<1>3. q \in [S -> Units(f, S)] /\ \A x, y \in S : q[x] = q[y] => x = y
  BY <1>1
<1>4. \A c \in Units(f, S) : \E x \in S : q[x] = c
  BY <1>2
<1>5. q \in Bijection(S, Units(f, S))
  <2> HIDE DEF q
  <2> QED
    BY <1>3, <1>4 DEF Bijection, Injection, Surjection, IsInjective
<1>6. Cardinality(Units(f, S)) = Cardinality(S)
  BY <1>5, FS_Bijection DEF ExistsBijection
<1> QED
  BY <1>6, SumIsUnits

(* No value is more than the sum.                                           *)
LEMMA SumHasEach ==
  ASSUME NEW S, IsFiniteSet(S), NEW f \in [S -> Nat], NEW x \in S
  PROVE  f[x] <= SumOf(f)
<1> DEFINE A  == S \ {x}
           fA == [y \in A |-> f[y]]
           fx == [y \in {x} |-> f[y]]
<1>1. SplitsInto(f, S, fx, {x}, fA, A)
  BY DEF SplitsInto
<1>2. SumOf(f) = SumOf(fx) + SumOf(fA)
  BY <1>1, SumOfParts
<1>3. fx \in [{x} -> Nat] /\ fx[x] = f[x] /\ f[x] \in Nat
  OBVIOUS
<1>4. SumOf(fx) = f[x]
  <2> HIDE DEF fx
  <2> QED
    BY <1>3, SumOfOne
<1>5. IsFiniteSet(A) /\ fA \in [A -> Nat]
  <2>1. A \in SUBSET S
    OBVIOUS
  <2> QED
    BY <2>1, FS_Subset
<1> HIDE DEF fA, A
<1>6. SumOf(fA) \in Nat
  BY <1>5, SumType
<1> QED
  BY <1>2, <1>3, <1>4, <1>6

(* A sum is no more than another that has each of its values, or more, at a *)
(* place of its own.                                                        *)
LEMMA SumWithin ==
  ASSUME NEW S, IsFiniteSet(S), NEW f \in [S -> Nat],
         NEW T, NEW g \in [T -> Nat], NEW p \in [T -> S],
         \A x, y \in T : p[x] = p[y] => x = y,
         \A x \in T : g[x] <= f[p[x]]
  PROVE  SumOf(g) <= SumOf(f)
<1> DEFINE A  == {p[x] : x \in T}
           B  == S \ A
           fA == [a \in A |-> f[a]]
           fB == [b \in B |-> f[b]]
           h  == [x \in T |-> f[p[x]]]
<1>1. A \in SUBSET S /\ p \in Bijection(T, A)
  <2>1. A \in SUBSET S /\ p \in [T -> A]
    OBVIOUS
  <2>2. \A a \in A : \E x \in T : p[x] = a
    OBVIOUS
  <2> HIDE DEF A
  <2> QED
    BY <2>1, <2>2 DEF Bijection, Injection, Surjection, IsInjective
<1>2. IsFiniteSet(A) /\ IsFiniteSet(B)
  <2>1. A \in SUBSET S /\ B \in SUBSET S
    BY <1>1
  <2> HIDE DEF A, B
  <2> QED
    BY <2>1, FS_Subset
<1>3. IsFiniteSet(T)
  <2> DEFINE q == [a \in A |-> CHOOSE x \in T : p[x] = a]
  <2>1. \A a \in A : q[a] \in T /\ p[q[a]] = a
    OBVIOUS
  <2>2. \A x \in T : q[p[x]] = x
    BY <2>1
  <2>3. q \in [A -> T] /\ \A a, b \in A : q[a] = q[b] => a = b
    BY <2>1
  <2>4. \A x \in T : \E a \in A : q[a] = x
    BY <2>2
  <2> HIDE DEF q, A
  <2>5. q \in Bijection(A, T)
    BY <2>3, <2>4 DEF Bijection, Injection, Surjection, IsInjective
  <2> QED
    BY <1>2, <2>5, FS_Bijection DEF ExistsBijection
<1>4. h \in [T -> Nat] /\ \A x \in T : g[x] <= h[x]
  OBVIOUS
<1>5. SumOf(g) <= SumOf(h)
  <2> HIDE DEF h
  <2> QED
    BY <1>3, <1>4, SumAtMost
<1>6. SumOf(h) = SumOf(fA)
  <2>1. fA \in [A -> Nat] /\ \A x \in T : h[x] = fA[p[x]]
    BY <1>1
  <2> HIDE DEF h, fA, A
  <2>2. Renames(h, T, p, fA, A)
    BY <1>1, <1>4, <2>1 DEF Renames
  <2> QED
    BY <1>3, <2>2, SumMapped
<1>7. SumOf(f) = SumOf(fA) + SumOf(fB)
  <2>1. A \union B = S /\ A \intersect B = {} /\ fA \in [A -> Nat] /\ fB \in [B -> Nat]
        /\ (\A a \in A : fA[a] = f[a]) /\ \A b \in B : fB[b] = f[b]
    BY <1>1
  <2> HIDE DEF A, B, fA, fB
  <2>2. SplitsInto(f, S, fA, A, fB, B)
    BY <2>1 DEF SplitsInto
  <2> QED
    BY <2>2, SumOfParts
<1>8. SumOf(g) \in Nat /\ SumOf(h) \in Nat /\ SumOf(fB) \in Nat
  <2>1. fB \in [B -> Nat]
    OBVIOUS
  <2> HIDE DEF h, fB, B
  <2> QED
    BY <1>2, <1>3, <1>4, <2>1, SumType
<1> QED
  BY <1>5, <1>6, <1>7, <1>8

(* Where each of m runs of entries begins, laid one after the other.        *)
Begins(f, m) == [k \in 1 .. m + 1 |-> SumOf([j \in 1 .. k - 1 |-> f[j]])]

(* Runs laid one after the other, each as long as f says, do not overlap    *)
(* and leave no gaps.                                                       *)
LEMMA RunsAreLaid ==
  ASSUME NEW m \in Nat, NEW f \in [1 .. m -> Nat]
  PROVE  /\ Begins(f, m) \in [1 .. m + 1 -> Nat]
         /\ \A k \in 1 .. m : Begins(f, m)[k + 1] = Begins(f, m)[k] + f[k]
         /\ \A e \in 1 .. Begins(f, m)[m + 1] :
              \E k \in 1 .. m : Begins(f, m)[k] < e /\ e <= Begins(f, m)[k + 1]
         /\ \A k \in 1 .. m : \A j \in 1 .. f[k] :
              /\ Begins(f, m)[k] + j \in 1 .. Begins(f, m)[m + 1]
              /\ \A l \in 1 .. m :
                   Begins(f, m)[l] < Begins(f, m)[k] + j /\ Begins(f, m)[k] + j <= Begins(f, m)[l + 1]
                     => l = k
<1> DEFINE ptr     == Begins(f, m)
           upto(k) == [j \in 1 .. k - 1 |-> f[j]]
<1>1. ASSUME NEW k \in 1 .. m + 1
      PROVE  /\ ptr[k] = SumOf(upto(k)) /\ ptr[k] \in Nat
             /\ IsFiniteSet(1 .. k - 1) /\ upto(k) \in [1 .. k - 1 -> Nat]
  <2>1. IsFiniteSet(1 .. k - 1)
    BY FS_Interval
  <2>2. upto(k) \in [1 .. k - 1 -> Nat]
    OBVIOUS
  <2>3. ptr[k] = SumOf(upto(k))
    BY DEF Begins
  <2> HIDE DEF ptr, upto
  <2> QED
    BY <2>1, <2>2, <2>3, SumType
<1>2. ptr = [k \in 1 .. m + 1 |-> ptr[k]]
  BY DEF Begins
<1>3. ASSUME NEW k \in 1 .. m
      PROVE  ptr[k + 1] = ptr[k] + f[k]
  <2> DEFINE g == [j \in {k} |-> f[j]]
  <2>1. k \in 1 .. m + 1 /\ k + 1 \in 1 .. m + 1 /\ (k + 1) - 1 = k
    OBVIOUS
  <2>2. /\ upto(k + 1) \in [1 .. k -> Nat] /\ upto(k) \in [1 .. k - 1 -> Nat] /\ g \in [{k} -> Nat]
        /\ IsFiniteSet(1 .. k) /\ g[k] = f[k]
    <3>1. /\ upto(k + 1) \in [1 .. (k + 1) - 1 -> Nat] /\ IsFiniteSet(1 .. (k + 1) - 1)
          /\ upto(k) \in [1 .. k - 1 -> Nat]
      BY <1>1, <2>1
    <3> HIDE DEF upto
    <3> QED
      BY <2>1, <3>1
  <2>3. /\ (\A j \in 1 .. k - 1 : upto(k)[j] = upto(k + 1)[j])
        /\ \A j \in {k} : g[j] = upto(k + 1)[j]
    OBVIOUS
  <2>4. (1 .. k - 1) \union {k} = 1 .. k /\ (1 .. k - 1) \intersect {k} = {}
    OBVIOUS
  <2> HIDE DEF upto, g
  <2>5. SplitsInto(upto(k + 1), 1 .. k, upto(k), 1 .. k - 1, g, {k})
    BY <2>2, <2>3, <2>4 DEF SplitsInto
  <2>6. SumOf(upto(k + 1)) = SumOf(upto(k)) + SumOf(g)
    BY <2>5, SumOfParts
  <2>7. SumOf(g) = f[k]
    BY <2>2, SumOfOne
  <2> HIDE DEF ptr
  <2> QED
    BY <1>1, <2>1, <2>6, <2>7
<1>4. ptr[1] = 0
  <2>1. 1 \in 1 .. m + 1 /\ 1 .. 1 - 1 = {}
    OBVIOUS
  <2>2. ptr[1] = SumOf(upto(1)) /\ upto(1) \in [1 .. 1 - 1 -> Nat]
    BY <1>1, <2>1
  <2>3. DOMAIN upto(1) = {} /\ upto(1) \in [{} -> Nat]
    BY <2>1
  <2> HIDE DEF upto, ptr
  <2> QED
    BY <2>2, <2>3, SumOfNone
<1> HIDE DEF ptr, upto
<1>5. ASSUME NEW k \in 1 .. m + 1, NEW l \in 1 .. m + 1, k <= l
      PROVE  ptr[k] <= ptr[l]
  <2> DEFINE T == {i \in Nat : k + i <= m + 1 => ptr[k] <= ptr[k + i]}
  <2>1. 0 \in T
    BY <1>1
  <2>2. ASSUME NEW i \in T
        PROVE  i + 1 \in T
    <3>1. CASE k + (i + 1) <= m + 1
      <4>1. k + i \in 1 .. m /\ k + i <= m + 1
        BY <3>1
      <4>2. ptr[(k + i) + 1] = ptr[k + i] + f[k + i] /\ f[k + i] \in Nat
        BY <1>3, <4>1
      <4>3. ptr[k] <= ptr[k + i] /\ ptr[k] \in Nat /\ ptr[k + i] \in Nat
        BY <1>1, <4>1
      <4>4. (k + i) + 1 = k + (i + 1)
        OBVIOUS
      <4> QED
        BY <4>2, <4>3, <4>4
    <3> QED
      BY <3>1
  <2>3. \A i \in Nat : i \in T
    <3> HIDE DEF T
    <3> QED
      BY <2>1, <2>2, NatSetInduction
  <2>4. l - k \in T /\ k + (l - k) = l
    BY <1>5, <2>3
  <2> QED
    BY <2>4
<1>6. ASSUME NEW e \in 1 .. ptr[m + 1]
      PROVE  \E k \in 1 .. m : ptr[k] < e /\ e <= ptr[k + 1]
  <2> DEFINE S == {i \in 1 .. m + 1 : e <= ptr[i]}
  <2>1. m + 1 \in S /\ S \subseteq Nat
    BY <1>1
  <2>2. PICK i \in S : \A x \in S : i <= x
    <3> HIDE DEF S
    <3> QED
      BY <2>1, LeastNatural
  <2>3. i # 1
    BY <1>4, <2>2
  <2>4. i - 1 \in 1 .. m /\ i - 1 \in 1 .. m + 1 /\ (i - 1) + 1 = i
    BY <2>2, <2>3
  <2>5. i - 1 \notin S
    BY <2>2, <2>4
  <2>6. ptr[i - 1] < e
    <3>0. i - 1 \in 1 .. m + 1 /\ m + 1 \in 1 .. m + 1
      BY <2>4
    <3>1. ptr[i - 1] \in Nat /\ ptr[m + 1] \in Nat
      BY <1>1, <3>0
    <3>2. ~(e <= ptr[i - 1])
      BY <2>4, <2>5
    <3> QED
      BY <3>1, <3>2
  <2> QED
    BY <2>2, <2>4, <2>6
<1>7. ASSUME NEW k \in 1 .. m, NEW j \in 1 .. f[k]
      PROVE  /\ ptr[k] + j \in 1 .. ptr[m + 1]
             /\ \A l \in 1 .. m : ptr[l] < ptr[k] + j /\ ptr[k] + j <= ptr[l + 1] => l = k
  <2>1. /\ k \in 1 .. m + 1 /\ k + 1 \in 1 .. m + 1 /\ m + 1 \in 1 .. m + 1
        /\ f[k] \in Nat /\ j \in Nat /\ 1 <= j /\ j <= f[k]
    OBVIOUS
  <2>2. ptr[k] \in Nat /\ ptr[k + 1] \in Nat /\ ptr[m + 1] \in Nat
    BY <1>1, <2>1
  <2>3. ptr[k + 1] = ptr[k] + f[k] /\ ptr[k + 1] <= ptr[m + 1]
    BY <1>3, <1>5, <2>1
  <2>4. ASSUME NEW l \in 1 .. m, ptr[l] < ptr[k] + j, ptr[k] + j <= ptr[l + 1]
        PROVE  l = k
    <3>1. l \in 1 .. m + 1 /\ l + 1 \in 1 .. m + 1
      OBVIOUS
    <3>2. ptr[l] \in Nat /\ ptr[l + 1] \in Nat
      BY <1>1, <3>1
    <3>3. CASE l < k
      <4>1. l + 1 <= k
        BY <3>3
      <4>2. ptr[l + 1] <= ptr[k]
        BY <1>5, <2>1, <3>1, <4>1
      <4> QED
        BY <2>1, <2>2, <2>4, <3>2, <4>2
    <3>4. CASE k < l
      <4>1. k + 1 <= l
        BY <3>4
      <4>2. ptr[k] + f[k] <= ptr[l]
        BY <1>5, <2>1, <2>3, <3>1, <4>1
      <4>3. ptr[l] < ptr[k] + j /\ f[k] \in Nat /\ j \in Nat /\ j <= f[k]
        BY <2>1, <2>4
      <4> QED
        BY <2>2, <3>2, <4>2, <4>3
    <3> QED
      BY <3>3, <3>4
  <2> QED
    BY <2>1, <2>2, <2>3, <2>4
<1>8. ptr \in [1 .. m + 1 -> Nat]
  BY <1>1, <1>2
<1> QED
  BY <1>3, <1>6, <1>7, <1>8 DEF ptr

(* A finite set of naturals that is not empty has a greatest element.       *)
LEMMA FiniteGreatest ==
  ASSUME NEW S, IsFiniteSet(S), S \subseteq Nat, S # {}
  PROVE  \E m \in S : \A x \in S : x <= m
<1> DEFINE P == {T \in SUBSET S : T # {} => \E m \in T : \A x \in T : x <= m}
<1>1. {} \in P
  OBVIOUS
<1>2. ASSUME NEW T \in SUBSET S, T # {}, \A x \in T : T \ {x} \in P
      PROVE  T \in P
  <2>1. PICK y \in T : TRUE
    BY <1>2
  <2>2. CASE T \ {y} = {}
    <3>1. \A x \in T : x = y
      BY <2>2
    <3>2. \A x \in T : x <= y
      BY <3>1
    <3> QED
      BY <2>1, <3>2
  <2>3. CASE T \ {y} # {}
    <3>1. PICK m \in T \ {y} : \A x \in T \ {y} : x <= m
      BY <1>2, <2>3
    <3>2. CASE m <= y
      <4>1. \A x \in T : x <= y
        BY <3>1, <3>2
      <4> QED
        BY <4>1
    <3>3. CASE ~(m <= y)
      <4>1. \A x \in T : x <= m
        BY <3>1, <3>3
      <4> QED
        BY <4>1
    <3> QED
      BY <3>2, <3>3
  <2> QED
    BY <2>2, <2>3
<1>3. S \in P
  <2> HIDE DEF P
  <2> QED
    BY <1>1, <1>2, FiniteSetInduction
<1> QED
  BY <1>3
-----------------------------------------------------------------------------
(* Holders. *)

(* Documents as the items of a holder, each with the score f gives it.      *)
ItemOf(f, d)   == [score |-> f[d], doc |-> d]
ItemsOf(f, H)  == {ItemOf(f, d) : d \in H}
Holds(h, f, H) == h = [x \in ItemsOf(f, H) |-> 1]

(* H is a top k of D. *)
AreBest(H, f, k, D) ==
  /\ H \subseteq D
  /\ IsFiniteSet(H)
  /\ \/ H = D /\ Cardinality(H) <= k
     \/ Cardinality(H) = k /\ \A d \in D \ H : \A e \in H : f[d] <= f[e]

(* The holder has a top k of D. *)
IsTop(h, f, k, D) == \E H \in SUBSET D : Holds(h, f, H) /\ AreBest(H, f, k, D)

(* The greatest of finitely many numbers. *)
LEMMA GreatestIsGreatest ==
  ASSUME NEW S, IsFiniteSet(S), S \subseteq Nat, S # {}
  PROVE  Max(S) \in S /\ \A x \in S : x <= Max(S)
<1>1. PICK m \in S : \A x \in S : x <= m
  BY FiniteGreatest
<1>2. \A x \in S : m >= x
  BY <1>1
<1> QED
  BY <1>2 DEF Max

(* Of two integers, the smaller.                                            *)
LEMMA LeastOfTwo ==
  ASSUME NEW a \in Int, NEW b \in Int
  PROVE  Min({a, b}) = IF a <= b THEN a ELSE b
<1> DEFINE m == IF a <= b THEN a ELSE b
<1>1. m \in {a, b} /\ \A y \in {a, b} : m <= y
  OBVIOUS
<1>2. \A x \in {a, b} : (\A y \in {a, b} : x <= y) => x = m
  OBVIOUS
<1> HIDE DEF m
<1>3. Min({a, b}) = m
  BY <1>1, <1>2 DEF Min
<1> QED
  BY <1>3 DEF m

(* Of two integers, the greater.                                            *)
LEMMA GreatestOfTwo ==
  ASSUME NEW a \in Int, NEW b \in Int
  PROVE  Max({a, b}) = IF a >= b THEN a ELSE b
<1> DEFINE m == IF a >= b THEN a ELSE b
<1>1. m \in {a, b} /\ \A y \in {a, b} : m >= y
  OBVIOUS
<1>2. \A x \in {a, b} : (\A y \in {a, b} : x >= y) => x = m
  OBVIOUS
<1> HIDE DEF m
<1>3. Max({a, b}) = m
  BY <1>1, <1>2 DEF Max
<1> QED
  BY <1>3 DEF m

(* Some number of a sequence is the greatest, and the first that is.        *)
LEMMA FirstGreatest ==
  ASSUME NEW n \in Nat \ {0}, NEW sim \in [1 .. n -> Nat]
  PROVE  \E i \in 1 .. n : \A j \in (1 .. n) \ {i} :
           IF j < i THEN sim[j] < sim[i] ELSE sim[j] <= sim[i]
  <1> DEFINE V == {sim[i] : i \in 1 .. n}
  <1>1. IsFiniteSet(V) /\ V \subseteq Nat /\ V # {}
    <2>1. IsFiniteSet(1 .. n)
      BY FS_Interval
    <2>2. IsFiniteSet(V)
      <3>1. sim \in Surjection(1 .. n, V)
        BY DEF Surjection
      <3> HIDE DEF V
      <3> QED
        BY <2>1, <3>1, FS_Surjection
    <2>3. sim[1] \in V
      OBVIOUS
    <2>4. V \subseteq Nat
      OBVIOUS
    <2> QED
      BY <2>2, <2>3, <2>4
  <1>2. PICK m \in V : \A x \in V : x <= m
    <2> HIDE DEF V
    <2> QED
      BY <1>1, FiniteGreatest
  <1> DEFINE I == {i \in 1 .. n : sim[i] = m}
  <1>3. PICK i \in I : \A j \in I : i <= j
    <2>1. I \subseteq Nat /\ I # {}
      BY <1>2
    <2> HIDE DEF I
    <2> QED
      BY <2>1, LeastNatural
  <1>4. ASSUME NEW j \in (1 .. n) \ {i}
        PROVE  IF j < i THEN sim[j] < sim[i] ELSE sim[j] <= sim[i]
    <2>1. sim[j] <= m /\ sim[j] \in Nat /\ sim[i] = m /\ m \in Nat
      BY <1>2, <1>3
    <2>2. j < i => j \notin I
      BY <1>3
    <2>3. j < i => sim[j] # m
      BY <2>2
    <2> QED
      BY <2>1, <2>3
  <1> QED
    BY <1>3, <1>4

(* A product is no less for a greater factor. *)
LEMMA ProductGrows ==
  ASSUME NEW a \in Nat, NEW b \in Nat, NEW c \in Nat, a <= b
  PROVE  a * c <= b * c /\ c * a <= c * b /\ a * c \in Nat /\ b * c \in Nat
<1>1. PICK e \in Nat : b = a + e
  <2>1. b - a \in Nat /\ b = a + (b - a)
    OBVIOUS
  <2> QED
    BY <2>1
<1>2. b * c = a * c + e * c /\ e * c \in Nat /\ a * c \in Nat
  BY <1>1
<1>3. c * a = a * c /\ c * b = b * c
  OBVIOUS
<1> QED
  BY <1>2, <1>3

(* A holder of documents has as many items as documents. *)
LEMMA HolderSize ==
  ASSUME NEW f, NEW H, NEW h, Holds(h, f, H), IsFiniteSet(H)
  PROVE  /\ Size(h) = Cardinality(H)
         /\ BagToSet(h) = ItemsOf(f, H)
         /\ DOMAIN h = ItemsOf(f, H)
<1> DEFINE p == [d \in H |-> ItemOf(f, d)]
           X == ItemsOf(f, H)
<1>1. p \in [H -> X] /\ \A c, d \in H : p[c] = p[d] => c = d
  <2>1. \A c, d \in H : ItemOf(f, c) = ItemOf(f, d) => c = d
    <3> SUFFICES ASSUME NEW c \in H, NEW d \in H, ItemOf(f, c) = ItemOf(f, d)
                 PROVE  c = d
      OBVIOUS
    <3>1. ItemOf(f, c).doc = c /\ ItemOf(f, d).doc = d
      BY DEF ItemOf
    <3> QED
      BY <3>1
  <2> QED
    BY <2>1 DEF ItemsOf
<1>2. \A x \in X : \E d \in H : p[d] = x
  BY DEF ItemsOf
<1>3. p \in Bijection(H, X)
  <2> HIDE DEF p, X
  <2> QED
    BY <1>1, <1>2 DEF Bijection, Injection, Surjection, IsInjective
<1>4. IsFiniteSet(X) /\ Cardinality(X) = Cardinality(H)
  <2> HIDE DEF p, X
  <2> QED
    BY <1>3, FS_Bijection DEF ExistsBijection
<1>5. h \in [X -> Nat] /\ (\A x \in X : h[x] = 1) /\ DOMAIN h = X
  BY DEF Holds
<1> HIDE DEF X
<1>6. SumOf(h) = Cardinality(X)
  BY <1>4, <1>5, SumOfOnes
<1> QED
  BY <1>4, <1>5, <1>6 DEF Size, BagToSet, X

(* Its least score is the least of the documents'. *)
LEMMA LeastIsLeast ==
  ASSUME NEW N, NEW f \in [N -> Nat], NEW H \in SUBSET N, H # {}, IsFiniteSet(H),
         NEW h, Holds(h, f, H)
  PROVE  /\ LeastScore(h) \in Nat
         /\ \E e \in H : f[e] = LeastScore(h)
         /\ \A e \in H : LeastScore(h) <= f[e]
<1> DEFINE S == {x.score : x \in BagToSet(h)}
<1>1. S = {f[d] : d \in H}
  <2>1. BagToSet(h) = ItemsOf(f, H)
    BY HolderSize
  <2>2. \A d \in H : ItemOf(f, d) \in BagToSet(h) /\ ItemOf(f, d).score = f[d]
    BY <2>1 DEF ItemsOf, ItemOf
  <2>3. \A x \in BagToSet(h) : \E d \in H : x.score = f[d]
    BY <2>1 DEF ItemsOf, ItemOf
  <2> QED
    BY <2>2, <2>3
<1>2. S \subseteq Nat /\ S # {}
  BY <1>1
<1>3. \E x \in S : \A y \in S : x <= y
  <2> HIDE DEF S
  <2> QED
    BY <1>2, LeastNatural
<1>4. Min(S) \in S /\ \A y \in S : Min(S) <= y
  <2> HIDE DEF S
  <2> QED
    BY <1>3 DEF Min
<1>5. LeastScore(h) = Min(S)
  BY DEF LeastScore
<1> HIDE DEF S
<1> QED
  BY <1>1, <1>2, <1>4, <1>5

LEMMA HoldsMore ==
  ASSUME NEW f, NEW H, NEW h, Holds(h, f, H), NEW d, d \notin H
  PROVE  Holds(With(h, ItemOf(f, d)), f, H \union {d})
<1> DEFINE x == ItemOf(f, d)
<1>1. DOMAIN h = ItemsOf(f, H)
  BY DEF Holds
<1>2. x \notin DOMAIN h
  <2> SUFFICES ASSUME x \in ItemsOf(f, H) PROVE FALSE
    BY <1>1
  <2>1. PICK c \in H : x = ItemOf(f, c)
    BY DEF ItemsOf
  <2>2. x.doc = d /\ ItemOf(f, c).doc = c
    BY DEF ItemOf
  <2> QED
    BY <2>1, <2>2
<1>3. ItemsOf(f, H \union {d}) = DOMAIN h \union {x}
  BY <1>1 DEF ItemsOf
<1>4. \A e \in DOMAIN h : h[e] = 1
  BY DEF Holds
<1> HIDE DEF x
<1>5. With(h, x) = [e \in DOMAIN h \union {x} |-> 1]
  BY <1>2, <1>4 DEF With, (+), SetToBag
<1> QED
  BY <1>3, <1>5 DEF Holds, x

LEMMA HoldsLess ==
  ASSUME NEW f, NEW H, NEW h, Holds(h, f, H), NEW e \in H
  PROVE  Holds(Without(h, ItemOf(f, e)), f, H \ {e})
<1> DEFINE y == ItemOf(f, e)
<1>1. DOMAIN h = ItemsOf(f, H) /\ y \in DOMAIN h /\ \A x \in DOMAIN h : h[x] = 1
  BY DEF Holds, ItemsOf
<1>2. ItemsOf(f, H \ {e}) = DOMAIN h \ {y}
  <2>1. \A c \in H : ItemOf(f, c) = y => c = e
    <3> SUFFICES ASSUME NEW c \in H, ItemOf(f, c) = y
                 PROVE  c = e
      OBVIOUS
    <3>1. ItemOf(f, c).doc = c /\ y.doc = e
      BY DEF ItemOf
    <3> QED
      BY <3>1
  <2> HIDE DEF y
  <2> QED
    BY <1>1, <2>1 DEF ItemsOf, y
<1> HIDE DEF y
<1>3. Without(h, y) = [x \in DOMAIN h \ {y} |-> 1]
  <2> DEFINE B == [x \in DOMAIN h |-> IF x \in DOMAIN SetToBag({y}) THEN h[x] - SetToBag({y})[x]
                                                                      ELSE h[x]]
  <2>1. Without(h, y) = [x \in {z \in DOMAIN B : B[z] > 0} |-> B[x]]
    BY DEF Without, (-)
  <2>2. DOMAIN SetToBag({y}) = {y} /\ SetToBag({y})[y] = 1
    BY DEF SetToBag
  <2>3. \A x \in DOMAIN h : B[x] = IF x = y THEN 0 ELSE 1
    BY <1>1, <2>2
  <2>4. DOMAIN B = DOMAIN h
    OBVIOUS
  <2> HIDE DEF B
  <2>5. {z \in DOMAIN B : B[z] > 0} = DOMAIN h \ {y}
    BY <2>3, <2>4
  <2> QED
    BY <2>1, <2>3, <2>5
<1> QED
  BY <1>2, <1>3 DEF Holds, y

(* What can be made of a top k of D by add() is one of D and the document   *)
(* added; a full holder stays full, and its least score does not fall.      *)
LEMMA AddedIsTop ==
  ASSUME NEW N, NEW f \in [N -> Nat], NEW k \in Nat \ {0}, NEW D \in SUBSET N, NEW d \in N \ D,
         NEW h, IsTop(h, f, k, D), NEW g \in Added(h, k, ItemOf(f, d))
  PROVE  /\ IsTop(g, f, k, D \union {d})
         /\ IsFull(h, k) => IsFull(g, k) /\ LeastScore(h) <= LeastScore(g)
<1> DEFINE x == ItemOf(f, d)
<1>1. PICK H \in SUBSET D : Holds(h, f, H) /\ AreBest(H, f, k, D)
  BY DEF IsTop
<1>2. IsFiniteSet(H) /\ Cardinality(H) \in Nat /\ Cardinality(H) <= k /\ H \subseteq N /\ d \notin H
  BY <1>1, FS_CardinalityType DEF AreBest
<1>3. Size(h) = Cardinality(H)
  BY <1>1, <1>2, HolderSize
<1>4. x.score = f[d] /\ f[d] \in Nat
  BY DEF ItemOf
<1>5. CASE Size(h) < k
  <2>1. g = With(h, x)
    BY <1>5 DEF Added
  <2>2. Holds(g, f, H \union {d})
    BY <1>1, <1>2, <2>1, HoldsMore
  <2>3. H = D
    BY <1>1, <1>2, <1>3, <1>5 DEF AreBest
  <2>4. IsFiniteSet(H \union {d}) /\ Cardinality(H \union {d}) = Cardinality(H) + 1
    BY <1>2, FS_AddElement
  <2>5. Cardinality(H \union {d}) <= k
    BY <1>2, <1>3, <1>5, <2>4
  <2>6. AreBest(H \union {d}, f, k, D \union {d})
    BY <2>3, <2>4, <2>5 DEF AreBest
  <2>7. ~IsFull(h, k)
    BY <1>2, <1>3, <1>5 DEF IsFull
  <2> QED
    BY <2>2, <2>6, <2>7 DEF IsTop
<1>6. CASE ~(Size(h) < k)
  <2>1. Cardinality(H) = k /\ H # {}
    <3>1. Cardinality(H) = k
      BY <1>2, <1>3, <1>6
    <3>2. Cardinality({}) = 0
      BY FS_EmptySet
    <3> QED
      BY <3>1, <3>2
  <2>2. \A c \in D \ H : \A a \in H : f[c] <= f[a]
    BY <1>1, <2>1 DEF AreBest
  <2>3. /\ LeastScore(h) \in Nat
        /\ \E e \in H : f[e] = LeastScore(h)
        /\ \A e \in H : LeastScore(h) <= f[e]
    BY <1>1, <1>2, <2>1, LeastIsLeast
  <2>4. CASE f[d] <= LeastScore(h)
    <3>1. g = h
      BY <1>4, <1>6, <2>4 DEF Added
    <3>2. \A a \in H : f[d] <= f[a]
      <4> SUFFICES ASSUME NEW a \in H
                   PROVE  f[d] <= f[a]
        OBVIOUS
      <4>1. f[a] \in Nat /\ LeastScore(h) <= f[a]
        BY <1>2, <2>3
      <4> QED
        BY <1>4, <2>3, <2>4, <4>1
    <3>3. AreBest(H, f, k, D \union {d})
      <4>1. \A c \in (D \union {d}) \ H : \A a \in H : f[c] <= f[a]
        BY <2>2, <3>2
      <4> QED
        BY <1>2, <2>1, <4>1 DEF AreBest
    <3> QED
      BY <1>1, <2>3, <3>1, <3>3 DEF IsTop
  <2>5. CASE ~(f[d] <= LeastScore(h))
    <3>1. PICK y \in LeastItems(h) : g = With(Without(h, y), x)
      BY <1>4, <1>6, <2>5 DEF Added
    <3>2. y \in ItemsOf(f, H) /\ y.score = LeastScore(h)
      BY <1>1, <1>2, HolderSize DEF LeastItems
    <3>3. PICK e \in H : y = ItemOf(f, e)
      BY <3>2 DEF ItemsOf
    <3>4. f[e] = LeastScore(h)
      BY <3>2, <3>3 DEF ItemOf
    <3> DEFINE G == (H \ {e}) \union {d}
    <3>5. Holds(g, f, G)
      <4>1. Holds(Without(h, y), f, H \ {e})
        BY <1>1, <3>3, HoldsLess
      <4>2. d \notin H \ {e}
        BY <1>2
      <4> QED
        BY <3>1, <4>1, <4>2, HoldsMore
    <3>6. IsFiniteSet(G) /\ Cardinality(G) = k
      <4>1. IsFiniteSet(H \ {e}) /\ Cardinality(H \ {e}) = k - 1
        BY <1>2, <2>1, FS_RemoveElement
      <4>2. d \notin H \ {e}
        BY <1>2
      <4>3. IsFiniteSet(G) /\ Cardinality(G) = (k - 1) + 1
        BY <4>1, <4>2, FS_AddElement
      <4> QED
        BY <4>3
    <3>7. \A a \in G : LeastScore(h) <= f[a] /\ f[a] \in Nat
      <4> SUFFICES ASSUME NEW a \in G
                   PROVE  LeastScore(h) <= f[a] /\ f[a] \in Nat
        OBVIOUS
      <4>1. CASE a = d
        BY <1>4, <2>3, <2>5, <4>1
      <4>2. CASE a # d
        BY <1>2, <2>3, <4>2
      <4> QED
        BY <4>1, <4>2
    <3>8. \A c \in (D \union {d}) \ G : f[c] <= LeastScore(h) /\ f[c] \in Nat
      <4> SUFFICES ASSUME NEW c \in (D \union {d}) \ G
                   PROVE  f[c] <= LeastScore(h) /\ f[c] \in Nat
        OBVIOUS
      <4>1. f[c] \in Nat
        OBVIOUS
      <4>2. CASE c = e
        BY <2>3, <3>4, <4>2
      <4>3. CASE c # e
        <5>1. c \in D \ H
          BY <4>3
        <5> QED
          BY <2>2, <3>4, <4>1, <5>1
      <4> QED
        BY <4>1, <4>2, <4>3
    <3>9. AreBest(G, f, k, D \union {d})
      <4>1. \A c \in (D \union {d}) \ G : \A a \in G : f[c] <= f[a]
        BY <2>3, <3>7, <3>8
      <4>2. G \subseteq D \union {d}
        BY <1>2
      <4> HIDE DEF G
      <4> QED
        BY <3>6, <4>1, <4>2 DEF AreBest
    <3>10. IsTop(g, f, k, D \union {d})
      <4>1. G \in SUBSET (D \union {d})
        OBVIOUS
      <4> HIDE DEF G
      <4> QED
        BY <3>5, <3>9, <4>1 DEF IsTop
    <3>11. Size(g) = k
      <4> HIDE DEF G
      <4> QED
        BY <3>5, <3>6, HolderSize
    <3>12. LeastScore(h) <= LeastScore(g)
      <4>1. G \in SUBSET N /\ G # {}
        OBVIOUS
      <4>2. \E a \in G : f[a] = LeastScore(g)
        <5> HIDE DEF G
        <5> QED
          BY <3>5, <3>6, <4>1, LeastIsLeast
      <4> QED
        BY <3>7, <4>2
    <3> QED
      BY <3>10, <3>11, <3>12 DEF IsFull
  <2> QED
    BY <2>4, <2>5
<1> QED
  BY <1>5, <1>6

(* Documents that would not displace any of a full holder can be left out.  *)
LEMMA SkippedIsTop ==
  ASSUME NEW N, NEW f \in [N -> Nat], NEW k \in Nat \ {0}, NEW D \in SUBSET N, NEW E \in SUBSET N,
         D \subseteq E, NEW h, IsTop(h, f, k, D),
         E # D => IsFull(h, k),
         \A d \in E \ D : f[d] <= LeastScore(h)
  PROVE  IsTop(h, f, k, E)
<1>1. PICK H \in SUBSET D : Holds(h, f, H) /\ AreBest(H, f, k, D)
  BY DEF IsTop
<1>2. CASE E = D
  BY <1>2
<1>3. CASE E # D
  <2>1. IsFiniteSet(H) /\ Cardinality(H) \in Nat /\ H \subseteq N
    BY <1>1, FS_CardinalityType DEF AreBest
  <2>2. Cardinality(H) = k /\ H # {}
    <3>1. Size(h) = Cardinality(H)
      BY <1>1, <2>1, HolderSize
    <3>2. Cardinality(H) = k
      BY <1>3, <3>1 DEF IsFull
    <3>3. Cardinality({}) = 0
      BY FS_EmptySet
    <3> QED
      BY <3>2, <3>3
  <2>3. /\ LeastScore(h) \in Nat
        /\ \A e \in H : LeastScore(h) <= f[e]
    BY <1>1, <2>1, <2>2, LeastIsLeast
  <2>4. ASSUME NEW d \in E \ H, NEW e \in H
        PROVE  f[d] <= f[e]
    <3>1. f[d] \in Nat /\ f[e] \in Nat
      BY <2>1
    <3>2. CASE d \in D
      <4>1. \A c \in D \ H : \A a \in H : f[c] <= f[a]
        <5>1. CASE H = D
          BY <5>1
        <5>2. CASE H # D
          BY <1>1, <5>2 DEF AreBest
        <5> QED
          BY <5>1, <5>2
      <4> QED
        BY <3>2, <4>1
    <3>3. CASE d \notin D
      <4>1. f[d] <= LeastScore(h) /\ LeastScore(h) <= f[e]
        BY <2>3, <3>3
      <4> QED
        BY <2>3, <3>1, <4>1
    <3> QED
      BY <3>2, <3>3
  <2>5. AreBest(H, f, k, E)
    BY <2>1, <2>2, <2>4 DEF AreBest
  <2> QED
    BY <1>1, <2>5 DEF IsTop
<1> QED
  BY <1>2, <1>3

(* What a holder of a top k of D is, in its own terms. *)
HeldDocs(h) == {x.doc : x \in BagToSet(h)}

IsTopOf(h, f, k, D, N) ==
  /\ HeldDocs(h) \subseteq D
  /\ Cardinality(HeldDocs(h)) = Size(h)
  /\ \A x \in BagToSet(h) : x \in [score : Nat, doc : N] /\ x.score = f[x.doc]
  /\ Cardinality(HeldDocs(h)) = IF Cardinality(D) < k THEN Cardinality(D) ELSE k
  /\ \A d \in D \ HeldDocs(h) : f[d] <= LeastScore(h)
  /\ h # EmptyBag => D # {}

LEMMA TopIsTop ==
  ASSUME NEW N, NEW f \in [N -> Nat], NEW k \in Nat \ {0}, NEW D \in SUBSET N, IsFiniteSet(D),
         NEW h, IsTop(h, f, k, D)
  PROVE  IsTopOf(h, f, k, D, N)
<1> DEFINE held == HeldDocs(h)
<1>1. PICK H \in SUBSET D : Holds(h, f, H) /\ AreBest(H, f, k, D)
  BY DEF IsTop
<1>2. IsFiniteSet(H) /\ Cardinality(H) \in Nat /\ H \subseteq N
  BY <1>1, FS_CardinalityType DEF AreBest
<1>3. Size(h) = Cardinality(H) /\ BagToSet(h) = ItemsOf(f, H)
  BY <1>1, <1>2, HolderSize
<1>4. held = H
  <2>1. \A d \in H : ItemOf(f, d) \in BagToSet(h) /\ ItemOf(f, d).doc = d
    BY <1>3 DEF ItemsOf, ItemOf
  <2>2. \A x \in BagToSet(h) : x.doc \in H
    BY <1>3 DEF ItemsOf, ItemOf
  <2> QED
    BY <2>1, <2>2 DEF HeldDocs
<1>5. \A x \in BagToSet(h) : x \in [score : Nat, doc : N] /\ x.score = f[x.doc]
  BY <1>2, <1>3 DEF ItemsOf, ItemOf
<1>6. Cardinality(H) = IF Cardinality(D) < k THEN Cardinality(D) ELSE k
  <2>1. Cardinality(H) <= Cardinality(D) /\ Cardinality(D) \in Nat
    BY FS_Subset, FS_CardinalityType
  <2> QED
    BY <1>1, <1>2, <2>1 DEF AreBest
<1>7. \A d \in D \ H : f[d] <= LeastScore(h)
  <2> SUFFICES ASSUME NEW d \in D \ H
               PROVE  f[d] <= LeastScore(h)
    OBVIOUS
  <2>1. Cardinality(H) = k /\ \A e \in H : f[d] <= f[e]
    BY <1>1 DEF AreBest
  <2>2. H # {}
    <3>1. Cardinality({}) = 0
      BY FS_EmptySet
    <3> QED
      BY <2>1, <3>1
  <2>3. \E e \in H : f[e] = LeastScore(h)
    BY <1>1, <1>2, <2>2, LeastIsLeast
  <2> QED
    BY <2>1, <2>3
<1>8. h # EmptyBag => D # {}
  <2> SUFFICES ASSUME D = {} PROVE h = EmptyBag
    OBVIOUS
  <2>1. ItemsOf(f, H) = {}
    BY DEF ItemsOf
  <2> QED
    BY <1>1, <2>1 DEF Holds, EmptyBag, SetToBag
<1> HIDE DEF held
<1> QED
  BY <1>3, <1>4, <1>5, <1>6, <1>7, <1>8 DEF held, IsTopOf

LEMMA NoneIsTop ==
  ASSUME NEW f, NEW k \in Nat \ {0}
  PROVE  IsTop(EmptyBag, f, k, {})
<1>1. Holds(EmptyBag, f, {})
  <2>1. ItemsOf(f, {}) = {}
    BY DEF ItemsOf
  <2> QED
    BY <2>1 DEF Holds, EmptyBag, SetToBag
<1>2. AreBest({}, f, k, {})
  BY FS_EmptySet DEF AreBest
<1> QED
  BY <1>1, <1>2 DEF IsTop
(* The elements of two sets that share none. *)
LEMMA DisjointCardinality ==
  ASSUME NEW S, NEW T, IsFiniteSet(S), IsFiniteSet(T), S \intersect T = {}
  PROVE  Cardinality(S \union T) = Cardinality(S) + Cardinality(T)
<1>1. Cardinality(S \union T) = Cardinality(S) + Cardinality(T) - Cardinality(S \intersect T)
  BY FS_Union
<1>2. Cardinality(S \intersect T) = 0
  BY FS_EmptySet
<1>3. Cardinality(S) \in Nat /\ Cardinality(T) \in Nat
  BY FS_CardinalityType
<1> QED
  BY <1>1, <1>2, <1>3

(* A subset of M of which no element is worth less than one left out.       *)
Outranks(A, M, f) ==
  A \subseteq M /\ IsFiniteSet(A) /\ \A d \in M \ A : \A e \in A : f[d] <= f[e]

(* Those of the documents in T that score s.                               *)
Scoring(T, f, s) == {d \in T : f[d] = s}

(* Two best k of a set have every score as often as each other: what one    *)
(* has and the other has not, and the other way round, are equal.           *)
LEMMA BestAgree ==
  ASSUME NEW N, NEW f \in [N -> Nat], NEW M \in SUBSET N,
         NEW A, Outranks(A, M, f), NEW B, Outranks(B, M, f), Cardinality(A) = Cardinality(B),
         NEW s
  PROVE  Cardinality(Scoring(A, f, s)) = Cardinality(Scoring(B, f, s))
<1> DEFINE C == A \intersect B
           X == A \ B
           Y == B \ A
           With1(T) == {d \in T : f[d] = s}
<1>0. /\ A \in SUBSET M /\ IsFiniteSet(A) /\ \A d \in M \ A : \A e \in A : f[d] <= f[e]
      /\ B \in SUBSET M /\ IsFiniteSet(B) /\ \A d \in M \ B : \A e \in B : f[d] <= f[e]
  BY DEF Outranks
<1>1. /\ IsFiniteSet(C) /\ IsFiniteSet(X) /\ IsFiniteSet(Y)
      /\ Cardinality(C) \in Nat /\ Cardinality(X) \in Nat /\ Cardinality(Y) \in Nat
  <2>1. IsFiniteSet(C) /\ IsFiniteSet(X) /\ IsFiniteSet(Y)
    <3>1. C \in SUBSET A /\ X \in SUBSET A /\ Y \in SUBSET B
      OBVIOUS
    <3> HIDE DEF C, X, Y
    <3> QED
      BY <1>0, <3>1, FS_Subset
  <2> HIDE DEF C, X, Y
  <2> QED
    BY <2>1, FS_CardinalityType
<1>2. Cardinality(A) = Cardinality(C) + Cardinality(X) /\ Cardinality(B) = Cardinality(C) + Cardinality(Y)
  <2>1. A = C \union X /\ B = C \union Y /\ C \intersect X = {} /\ C \intersect Y = {}
    OBVIOUS
  <2> HIDE DEF C, X, Y
  <2>2. Cardinality(C \union X) = Cardinality(C) + Cardinality(X)
    BY <1>1, <2>1, DisjointCardinality
  <2>3. Cardinality(C \union Y) = Cardinality(C) + Cardinality(Y)
    BY <1>1, <2>1, DisjointCardinality
  <2> QED
    BY <2>1, <2>2, <2>3
<1>3. Cardinality(X) = Cardinality(Y)
  <2> DEFINE c == Cardinality(C)
             x == Cardinality(X)
             y == Cardinality(Y)
  <2>1. c \in Nat /\ x \in Nat /\ y \in Nat /\ c + x = c + y
    BY <1>1, <1>2
  <2> HIDE DEF c, x, y
  <2>2. x = y
    BY <2>1
  <2> QED
    BY <2>2 DEF x, y
<1>4. \A d \in X : \A e \in Y : f[d] = f[e]
  <2> SUFFICES ASSUME NEW d \in X, NEW e \in Y
               PROVE  f[d] = f[e]
    OBVIOUS
  <2>1. d \in A /\ d \in M \ B /\ e \in B /\ e \in M \ A /\ d \in N /\ e \in N
    BY <1>0
  <2>2. f[d] <= f[e] /\ f[e] <= f[d] /\ f[d] \in Nat /\ f[e] \in Nat
    BY <1>0, <2>1
  <2> QED
    BY <2>2
<1>5. X = {} <=> Y = {}
  <2> HIDE DEF X, Y
  <2> QED
    BY <1>1, <1>3, FS_EmptySet
<1>6. Cardinality(With1(X)) = Cardinality(With1(Y))
  <2>1. CASE X = {}
    <3>1. With1(X) = {} /\ With1(Y) = {}
      BY <1>5, <2>1
    <3> QED
      BY <3>1
  <2>2. CASE X # {} /\ \E d \in X : f[d] = s
    <3>1. PICK d \in X : f[d] = s
      BY <2>2
    <3>2. PICK e \in Y : TRUE
      BY <1>5, <2>2
    <3>3. \A y \in Y : f[y] = s
      BY <1>4, <3>1
    <3>4. \A x \in X : f[x] = s
      BY <1>4, <3>2, <3>3
    <3>5. With1(X) = X /\ With1(Y) = Y
      BY <3>3, <3>4
    <3> QED
      BY <1>3, <3>5
  <2>3. CASE X # {} /\ \A d \in X : f[d] # s
    <3>1. PICK d \in X : f[d] # s
      BY <2>3
    <3>2. \A y \in Y : f[y] # s
      BY <1>4, <3>1
    <3>3. With1(X) = {} /\ With1(Y) = {}
      BY <2>3, <3>2
    <3> QED
      BY <3>3
  <2> QED
    BY <2>1, <2>2, <2>3
<1>7. /\ Cardinality(With1(A)) = Cardinality(With1(C)) + Cardinality(With1(X))
      /\ Cardinality(With1(B)) = Cardinality(With1(C)) + Cardinality(With1(Y))
  <2>1. /\ With1(A) = With1(C) \union With1(X) /\ With1(C) \intersect With1(X) = {}
        /\ With1(B) = With1(C) \union With1(Y) /\ With1(C) \intersect With1(Y) = {}
        /\ With1(C) \in SUBSET C /\ With1(X) \in SUBSET X /\ With1(Y) \in SUBSET Y
    OBVIOUS
  <2> HIDE DEF With1, C, X, Y
  <2>2. IsFiniteSet(With1(C)) /\ IsFiniteSet(With1(X)) /\ IsFiniteSet(With1(Y))
    BY <1>1, <2>1, FS_Subset
  <2>3. Cardinality(With1(C) \union With1(X)) = Cardinality(With1(C)) + Cardinality(With1(X))
    BY <2>1, <2>2, DisjointCardinality
  <2>4. Cardinality(With1(C) \union With1(Y)) = Cardinality(With1(C)) + Cardinality(With1(Y))
    BY <2>1, <2>2, DisjointCardinality
  <2> QED
    BY <2>1, <2>3, <2>4
<1>8. Cardinality(With1(A)) = Cardinality(With1(B))
  <2> HIDE DEF With1, C, X, Y
  <2> QED
    BY <1>6, <1>7
<1> QED
  BY <1>8 DEF Scoring

(* A top k of the documents that score more than 0, and one of all of them, *)
(* have every score but 0 as often as each other.                           *)
LEMMA TopsAgree ==
  ASSUME NEW N, NEW f \in [N -> Nat], NEW k \in Nat \ {0}, NEW D \in SUBSET N, IsFiniteSet(D),
         NEW A, AreBest(A, f, k, {d \in D : f[d] > 0}),
         NEW B, AreBest(B, f, k, D),
         NEW s \in Nat \ {0}
  PROVE  Cardinality(Scoring(A, f, s)) = Cardinality(Scoring(B, f, s))
<1> DEFINE M == {d \in D : f[d] > 0}
           P == {d \in B : f[d] > 0}
<1>1. /\ A \in SUBSET M /\ IsFiniteSet(A) /\ Cardinality(A) \in Nat
      /\ \/ A = M /\ Cardinality(A) <= k
         \/ Cardinality(A) = k /\ \A d \in M \ A : \A e \in A : f[d] <= f[e]
  BY FS_CardinalityType DEF AreBest
<1>2. /\ B \in SUBSET D /\ IsFiniteSet(B) /\ Cardinality(B) \in Nat
      /\ \/ B = D /\ Cardinality(B) <= k
         \/ Cardinality(B) = k /\ \A d \in D \ B : \A e \in B : f[d] <= f[e]
  BY FS_CardinalityType DEF AreBest
<1>3. M \in SUBSET D /\ M \in SUBSET N /\ IsFiniteSet(M) /\ Cardinality(M) \in Nat
  <2>1. M \in SUBSET D /\ M \in SUBSET N
    OBVIOUS
  <2> HIDE DEF M
  <2> QED
    BY <2>1, FS_Subset, FS_CardinalityType
<1>4. P \in SUBSET M /\ P \in SUBSET B /\ IsFiniteSet(P) /\ Cardinality(P) \in Nat
  <2>1. P \in SUBSET M /\ P \in SUBSET B
    BY <1>2
  <2> HIDE DEF P
  <2> QED
    BY <1>2, <2>1, FS_Subset, FS_CardinalityType
<1>5. \A d \in M : f[d] > 0 /\ f[d] \in Nat
  BY <1>3
<1>6. Scoring(P, f, s) = Scoring(B, f, s)
  BY DEF Scoring
<1>7. \A d \in M \ P : d \in D \ B
  BY <1>3
<1>8. \A e \in B : e \in P \/ f[e] = 0
  BY <1>2
<1> HIDE DEF M, P
<1>9. \A d \in M \ P : \A e \in P : f[d] <= f[e]
  BY <1>2, <1>4, <1>7
<1>10. M # P => P = B /\ Cardinality(P) = k
  <2> SUFFICES ASSUME M # P
               PROVE  P = B /\ Cardinality(P) = k
    OBVIOUS
  <2>1. PICK d \in M : d \notin P
    BY <1>4
  <2>2. d \in D \ B /\ f[d] > 0 /\ f[d] \in Nat
    BY <1>5, <1>7, <2>1
  <2>3. Cardinality(B) = k /\ \A e \in B : f[d] <= f[e]
    BY <1>2, <2>2
  <2>4. \A e \in B : f[e] # 0
    BY <2>2, <2>3
  <2>5. P = B
    BY <1>4, <1>8, <2>4
  <2> QED
    BY <2>3, <2>5
<1>11. \A d \in M \ A : \A e \in A : f[d] <= f[e]
  BY <1>1
<1>12. Cardinality(P) <= k
  <2>1. Cardinality(P) <= Cardinality(B)
    BY <1>2, <1>4, FS_Subset
  <2> QED
    BY <1>2, <1>4, <2>1
<1>13. Cardinality(A) = Cardinality(P)
  <2>1. CASE A = M /\ M = P
    BY <2>1
  <2>2. CASE A = M /\ M # P
    <3>1. Cardinality(P) = k /\ Cardinality(A) <= k
      BY <1>1, <1>10, <2>2
    <3>2. Cardinality(P) <= Cardinality(M) /\ (Cardinality(P) = Cardinality(M) => P = M)
      BY <1>3, <1>4, FS_Subset
    <3> QED
      BY <1>1, <1>3, <2>2, <3>1, <3>2
  <2>3. CASE A # M
    <3>1. Cardinality(A) = k
      BY <1>1, <2>3
    <3>2. Cardinality(A) <= Cardinality(M) /\ (Cardinality(A) = Cardinality(M) => A = M)
      BY <1>1, <1>3, FS_Subset
    <3>3. M # P
      BY <1>1, <1>3, <1>12, <2>3, <3>1, <3>2
    <3> QED
      BY <1>10, <3>1, <3>3
  <2> QED
    BY <2>1, <2>2, <2>3
<1>14. Cardinality(Scoring(A, f, s)) = Cardinality(Scoring(P, f, s))
  <2>1. M \in SUBSET N /\ Outranks(A, M, f) /\ Outranks(P, M, f)
    BY <1>1, <1>3, <1>4, <1>9, <1>11 DEF Outranks
  <2> QED
    BY <2>1, <1>13, BestAgree
<1> QED
  BY <1>6, <1>14
===============================================================================
