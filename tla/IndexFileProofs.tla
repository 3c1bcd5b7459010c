-------------------------- MODULE IndexFileProofs --------------------------
(***************************************************************************)
(* The ids of an IDMapIndex, for any number of documents and names; and    *)
(* index files, for any indexes of any sizes and a save that stops         *)
(* anywhere.                                                               *)
(*                                                                         *)
(* What a label depends on is spread over the delegate and the map: which  *)
(* rows the lists were built from, how many documents the delegate counts, *)
(* which entries of the map were named.  Sound relates them, for the index *)
(* in memory and for the one in the file alike, as a load puts the second  *)
(* in the place of the first.                                              *)
(*                                                                         *)
(* Of a file: a reader that expects t and has read g Follows what is left  *)
(* of it if what comes next is the first of t, what that leads it to       *)
(* expect follows in turn, and every check passes; ItemsFollow says that   *)
(* the reader of a file Follows all that was written, and the steps of the *)
(* reader stay in such a place until the file ends short.  From there on   *)
(* the reader is Lost: some item, number or check that it cannot do        *)
(* without is still to come.                                               *)
(***************************************************************************)
EXTENDS IdMapIndex, IndexFile, DataTheorems

Names == Ids \union {NoId}

(* Document i is row i. *)
Identity(s) == \A i \in 1 .. Len(s) : s[i] = i

WellTyped(r, b, n, m, g) ==
  /\ g \in Seq(Names) /\ Len(g) <= MaxDocs
  /\ r \in Seq(1 .. Len(g)) /\ Len(r) <= Len(g)
  /\ b \in Seq(1 .. Len(g)) \union {Nothing}
  /\ n \in 0 .. Len(g)
  /\ m \in Seq(Ids \union {0}) /\ Len(m) <= Len(g)

(* Unless rows joined a delegate that had dropped others, it counts every   *)
(* document, has all of them or none, and built from all it then had.       *)
InOrder(k, r, b, n, g) ==
  /\ n = Len(g)
  /\ r # <<>> => Len(r) = Len(g)
  /\ k => Len(r) = Len(g)
  /\ Identity(r)
  /\ b # Nothing => Identity(b)

Sound(k, r, b, n, m, g, l) ==
  /\ WellTyped(r, b, n, m, g)
  /\ l \in BOOLEAN
  /\ k => ~l
  /\ ~l => InOrder(k, r, b, n, g)

(* A document the caller named has its name in the map. *)
Named(m, g, l) ==
  ~l => \A d \in 1 .. Len(g) : g[d] # NoId => d <= Len(m) /\ m[d] = g[d]

(* e takes each name of m to a place where m has it. *)
Inverts(e, m) ==
  /\ DOMAIN e = Range(m)
  /\ \A x \in Range(m) : e[x] \in 0 .. Len(m) - 1 /\ m[e[x] + 1] = x

LiveSound == Sound(keeps, rows, built, num, i2e, given, late)

FileSound ==
  file # Nothing =>
    /\ Sound(keeps, file.rows, file.built, file.num, file.i2e, file.given, file.late)
    /\ Named(file.i2e, file.given, file.late)

MapSound ==
  /\ Range(e2i) \subseteq 0 .. MaxDocs - 1
  /\ ~discard => Named(i2e, given, late)
  /\ Disciplined /\ ~discard => Inverts(e2i, i2e)

IInv ==
  /\ keeps \in BOOLEAN /\ borrowed \in BOOLEAN /\ discard \in BOOLEAN
  /\ LiveSound
  /\ MapSound
  /\ FileSound
-----------------------------------------------------------------------------
(* Of the rows of one name the map takes the last: there is one. *)
LEMMA ReversedInverts ==
  ASSUME NEW m \in Seq(Ids \union {0})
  PROVE  Inverts(Reversed(m), m)
  <1>1. DOMAIN Reversed(m) = Range(m)
    BY DEF Reversed
  <1>2. ASSUME NEW x \in Range(m)
        PROVE  Reversed(m)[x] \in 0 .. Len(m) - 1 /\ m[Reversed(m)[x] + 1] = x
    <2> DEFINE S == {i \in 0 .. Len(m) - 1 : m[i + 1] = x}
               Latest(i) == m[i + 1] = x /\ \A j \in i + 1 .. Len(m) - 1 : m[j + 1] # x
    <2>1. S # {} /\ Len(m) - 1 \in Nat
      <3>1. PICK p \in 1 .. Len(m) : m[p] = x
        BY DEF Range
      <3>2. Len(m) \in Nat
        OBVIOUS
      <3>3. p - 1 \in 0 .. Len(m) - 1 /\ (p - 1) + 1 = p
        BY <3>2
      <3>4. p - 1 \in S /\ Len(m) - 1 \in Nat
        BY <3>1, <3>2, <3>3
      <3> QED
        BY <3>4
    <2>2. PICK i \in S : \A j \in S : j <= i
      <3>1. S \subseteq 0 .. Len(m) - 1
        OBVIOUS
      <3> HIDE DEF S
      <3> QED
        BY <2>1, <3>1, GreatestNatural
    <2>3. i \in 0 .. Len(m) - 1 /\ Latest(i)
      <3>1. ASSUME NEW j \in i + 1 .. Len(m) - 1
            PROVE  m[j + 1] # x
        <4>1. j \in 0 .. Len(m) - 1 /\ ~(j <= i)
          OBVIOUS
        <4> QED
          BY <2>2, <4>1
      <3> QED
        BY <2>2, <3>1
    <2>4. Reversed(m)[x] = CHOOSE h \in 0 .. Len(m) - 1 : Latest(h)
      BY DEF Reversed
    <2> HIDE DEF Latest
    <2>5. Reversed(m)[x] \in 0 .. Len(m) - 1 /\ Latest(Reversed(m)[x])
      BY <2>3, <2>4
    <2> QED
      BY <2>5 DEF Latest
  <1> QED
    BY <1>1, <1>2 DEF Inverts

(* A reverse map stays within the rows. *)
LEMMA ReversedInRange ==
  ASSUME NEW m \in Seq(Ids \union {0}), Len(m) <= MaxDocs
  PROVE  Range(Reversed(m)) \subseteq 0 .. MaxDocs - 1
  <1>1. \A x \in Range(m) : Reversed(m)[x] \in 0 .. Len(m) - 1
    BY ReversedInverts DEF Inverts
  <1>2. DOMAIN Reversed(m) = Range(m)
    BY DEF Reversed
  <1>3. Len(m) \in Nat /\ MaxDocs \in Nat
    BY MaxDocsAssumption
  <1>4. ASSUME NEW y \in Range(Reversed(m))
        PROVE  y \in 0 .. MaxDocs - 1
    <2>1. PICK x \in DOMAIN Reversed(m) : y = Reversed(m)[x]
      BY DEF Range
    <2>2. y \in 0 .. Len(m) - 1
      BY <1>1, <1>2, <2>1
    <2> QED
      BY <1>3, <2>2
  <1> QED
    BY <1>4

(* What a concatenation has, and where. *)
LEMMA Joined ==
  ASSUME NEW S, NEW s \in Seq(S), NEW t \in Seq(S)
  PROVE  /\ s \o t \in Seq(S) /\ Len(s \o t) = Len(s) + Len(t)
         /\ \A i \in 1 .. Len(s) : (s \o t)[i] = s[i]
         /\ \A i \in Len(s) + 1 .. Len(s) + Len(t) : (s \o t)[i] = t[i - Len(s)]
  OBVIOUS

(* New documents join the rows at their end; nothing else is disturbed. *)
LEMMA RowsJoin ==
  ASSUME NEW n \in Nat \ {0}, LiveSound, Room(n),
         rows' = rows \o NewDocs(n), late' = (late \/ JoinsLate),
         given' \in Seq(Names), Len(given') = Len(given) + n,
         num' \in 0 .. Len(given'), ~late' => num' = Len(given'),
         i2e' \in Seq(Ids \union {0}), Len(i2e') <= Len(given'),
         UNCHANGED <<keeps, built>>
  PROVE  LiveSound' /\ (~late' => ~late /\ Len(rows) = Len(given))
  <1>1. /\ given \in Seq(Names) /\ Len(given) \in Nat /\ Len(given) <= MaxDocs
        /\ rows \in Seq(1 .. Len(given)) /\ Len(rows) \in Nat /\ Len(rows) <= Len(given)
        /\ built \in Seq(1 .. Len(given)) \union {Nothing}
        /\ num \in Nat /\ late \in BOOLEAN /\ (keeps => ~late)
    BY DEF LiveSound, Sound, WellTyped
  <1>2. MaxDocs \in Nat /\ Len(given') <= MaxDocs
    BY <1>1, MaxDocsAssumption DEF Room
  <1>3. NewDocs(n) \in Seq(1 .. Len(given')) /\ Len(NewDocs(n)) = n
    BY <1>1 DEF NewDocs
  <1>4. /\ rows' \in Seq(1 .. Len(given')) /\ Len(rows') = Len(rows) + n
        /\ \A i \in 1 .. Len(rows) : rows'[i] = rows[i]
        /\ \A i \in 1 .. n : rows'[Len(rows) + i] = Len(given) + i
    <2>1. rows \in Seq(1 .. Len(given'))
      BY <1>1
    <2> QED
      BY <1>1, <1>3, <2>1 DEF NewDocs
  <1>5. built' \in Seq(1 .. Len(given')) \union {Nothing}
    <2>1. \A s \in Seq(1 .. Len(given)) : s \in Seq(1 .. Len(given'))
      BY <1>1
    <2> QED
      BY <1>1, <2>1
  <1>6. WellTyped(rows', built', num', i2e', given')
    BY <1>1, <1>2, <1>4, <1>5 DEF WellTyped
  <1>7. late' \in BOOLEAN /\ (keeps => ~late')
    BY <1>1 DEF JoinsLate
  <1>8. ASSUME ~late'
        PROVE  InOrder(keeps', rows', built', num', given') /\ ~late /\ Len(rows) = Len(given)
    <2>1. ~late /\ ~JoinsLate
      BY <1>8, <1>1 DEF JoinsLate
    <2>2. InOrder(keeps, rows, built, num, given)
      BY <2>1 DEF LiveSound, Sound
    <2>3. Len(rows) = Len(given)
      BY <2>1, <2>2 DEF InOrder, JoinsLate
    <2>4. Identity(rows')
      <3>1. ASSUME NEW i \in 1 .. Len(rows')
            PROVE  rows'[i] = i
        <4>1. CASE i <= Len(rows)
          BY <1>1, <1>4, <2>2, <4>1 DEF InOrder, Identity
        <4>2. CASE ~(i <= Len(rows))
          <5>1. i - Len(rows) \in 1 .. n /\ Len(rows) + (i - Len(rows)) = i
            BY <1>1, <1>4, <4>2
          <5> QED
            BY <1>4, <2>3, <5>1
        <4> QED
          BY <4>1, <4>2
      <3> QED
        BY <3>1 DEF Identity
    <2> QED
      BY <1>4, <1>8, <2>1, <2>2, <2>3, <2>4 DEF InOrder
  <1> QED
    BY <1>6, <1>7, <1>8 DEF LiveSound, Sound

(* What a saved index holds is not touched by what happens in memory. *)
LEMMA FileStays == FileSound /\ UNCHANGED <<keeps, file>> => FileSound'
  BY DEF FileSound
-----------------------------------------------------------------------------
LEMMA InitSound == Init => IInv
  <1> SUFFICES ASSUME Init PROVE IInv
    OBVIOUS
  <1>1. WellTyped(rows, built, num, i2e, given)
    BY MaxDocsAssumption DEF Init, WellTyped
  <1>2. LiveSound
    <2>1. rows = <<>> /\ given = <<>> /\ num = 0 /\ built = Nothing /\ late = FALSE
      BY DEF Init
    <2>2. Identity(<<>>)
      BY DEF Identity
    <2>3. InOrder(keeps, rows, built, num, given)
      BY <2>1, <2>2 DEF InOrder
    <2> QED
      BY <1>1, <2>1, <2>3 DEF LiveSound, Sound
  <1>3. MapSound
    BY DEF Init, MapSound, Named, Inverts, Range
  <1>4. FileSound
    BY DEF Init, FileSound
  <1> QED
    BY <1>2, <1>3, <1>4 DEF IInv, Init

(* add() leaves the map as it is, and the new documents without a name. *)
LEMMA AddSound ==
  ASSUME IInv, NEW n \in 1 .. MaxDocs, Room(n), Add(n)
  PROVE  IInv'
  <1>1. n \in Nat \ {0}
    BY MaxDocsAssumption
  <1>2. /\ given \in Seq(Names) /\ Len(given) \in Nat
        /\ num \in 0 .. Len(given) /\ (keeps => ~late) /\ late \in BOOLEAN
        /\ i2e \in Seq(Ids \union {0}) /\ Len(i2e) \in Nat /\ Len(i2e) <= Len(given)
    BY DEF IInv, LiveSound, Sound, WellTyped
  <1>3. given' = given \o [i \in 1 .. n |-> NoId] /\ [i \in 1 .. n |-> NoId] \in Seq(Names)
    BY <1>1 DEF Add, Names
  <1>4. /\ given' \in Seq(Names) /\ Len(given') = Len(given) + n
        /\ \A d \in 1 .. Len(given) : given'[d] = given[d]
        /\ \A d \in Len(given) + 1 .. Len(given) + n : given'[d] = NoId
    BY <1>1, <1>2, <1>3
  <1>5. /\ num' = num + n /\ rows' = rows \o NewDocs(n) /\ late' = (late \/ JoinsLate)
        /\ UNCHANGED <<keeps, built, borrowed, i2e, e2i, discard, file>> /\ ~discard
    BY DEF Add, DelegateAdd, mapVars
  <1>6. ~late' => num' = Len(given')
    <2>1. ~late => num = Len(given)
      BY DEF IInv, LiveSound, Sound, InOrder
    <2> QED
      BY <1>1, <1>2, <1>4, <1>5, <2>1
  <1>7. LiveSound' /\ (~late' => ~late)
    <2>1. num' \in 0 .. Len(given') /\ i2e' \in Seq(Ids \union {0}) /\ Len(i2e') <= Len(given')
      BY <1>1, <1>2, <1>4, <1>5
    <2>2. LiveSound
      BY DEF IInv
    <2> QED
      BY <1>1, <1>4, <1>5, <1>6, <2>1, <2>2, RowsJoin
  <1>8. Named(i2e', given', late')
    <2> SUFFICES ASSUME ~late', NEW d \in 1 .. Len(given'), given'[d] # NoId
                 PROVE  d <= Len(i2e') /\ i2e'[d] = given'[d]
      BY DEF Named
    <2>1. d \in 1 .. Len(given)
      BY <1>1, <1>2, <1>4
    <2>2. Named(i2e, given, late) /\ ~late
      BY <1>5, <1>7 DEF IInv, MapSound
    <2> QED
      BY <1>4, <1>5, <2>1, <2>2 DEF Named
  <1>9. ~Disciplined'
    <2>1. Len(given) + n \in 1 .. Len(given')
      BY <1>1, <1>2, <1>4
    <2>2. given'[Len(given) + n] = NoId
      BY <1>1, <1>2, <1>4
    <2> QED
      BY <2>1, <2>2 DEF Disciplined
  <1>10. MapSound'
    BY <1>5, <1>8, <1>9 DEF IInv, MapSound, Range
  <1> QED
    BY <1>5, <1>7, <1>10, FileStays DEF IInv

(* The names go where the delegate's count says the new rows begin. *)
LEMMA AddWithIdsSound ==
  ASSUME IInv, NEW n \in 1 .. MaxDocs, Room(n), NEW ids \in SeqsOf(n), AddWithIds(ids)
  PROVE  IInv'
  <1>1. n \in Nat \ {0} /\ MaxDocs \in Nat
    BY MaxDocsAssumption
  <1>2. /\ given \in Seq(Names) /\ Len(given) \in Nat /\ Len(given) + n <= MaxDocs
        /\ num \in 0 .. Len(given) /\ (keeps => ~late) /\ late \in BOOLEAN
        /\ rows \in Seq(1 .. Len(given)) /\ Len(rows) \in Nat /\ Len(rows) <= Len(given)
        /\ i2e \in Seq(Ids \union {0}) /\ Len(i2e) \in Nat /\ Len(i2e) <= Len(given)
    BY DEF IInv, LiveSound, Sound, WellTyped, Room
  <1>3. ids \in Seq(Ids) /\ ids \in Seq(Names) /\ ids \in Seq(Ids \union {0}) /\ Len(ids) = n
    BY <1>1 DEF SeqsOf, Names
  <1>4. /\ given' = given \o ids /\ given' \in Seq(Names) /\ Len(given') = Len(given) + n
        /\ \A d \in 1 .. Len(given) : given'[d] = given[d]
        /\ \A d \in Len(given) + 1 .. Len(given) + n : given'[d] = ids[d - Len(given)]
    <2>1. given' = given \o ids
      BY DEF AddWithIds
    <2>2. /\ given \o ids \in Seq(Names) /\ Len(given \o ids) = Len(given) + Len(ids)
          /\ \A d \in 1 .. Len(given) : (given \o ids)[d] = given[d]
          /\ \A d \in Len(given) + 1 .. Len(given) + Len(ids) :
               (given \o ids)[d] = ids[d - Len(given)]
      BY <1>2, <1>3, Joined
    <2> QED
      BY <1>3, <2>1, <2>2
  <1> DEFINE old == NumVectors
  <1>5. old \in 0 .. Len(given) /\ (~late => old = Len(given))
    <2>1. ~late => InOrder(keeps, rows, built, num, given)
      BY DEF IInv, LiveSound, Sound
    <2> QED
      BY <1>2, <2>1 DEF NumVectors, InOrder
  <1>6. /\ num' = num + n /\ rows' = rows \o NewDocs(n) /\ late' = (late \/ JoinsLate)
        /\ UNCHANGED <<keeps, built, borrowed, discard, file>> /\ ~discard
    BY <1>3 DEF AddWithIds, DelegateAdd
  <1>7. /\ i2e' = [i \in 1 .. old + n |->
                     IF i > old THEN ids[i - old] ELSE Resized(i2e, old + n)[i]]
        /\ e2i' = [x \in DOMAIN e2i \union Range(ids) |->
                     IF x \in Range(ids) THEN old + Reversed(ids)[x] ELSE e2i[x]]
    BY <1>3 DEF AddWithIds
  <1> HIDE DEF old
  <1>8. /\ i2e' \in Seq(Ids \union {0}) /\ Len(i2e') = old + n
        /\ \A i \in 1 .. old : i <= Len(i2e) => i2e'[i] = i2e[i]
        /\ \A i \in 1 .. n : i2e'[old + i] = ids[i]
    <2>1. ASSUME NEW i \in 1 .. old + n
          PROVE  /\ i2e'[i] \in Ids \union {0}
                 /\ i <= old /\ i <= Len(i2e) => i2e'[i] = i2e[i]
                 /\ i > old => i2e'[i] = ids[i - old]
      <3>1. CASE i > old
        <4>1. i - old \in 1 .. n
          BY <1>1, <1>5, <3>1
        <4>2. i2e'[i] = ids[i - old]
          BY <1>7, <3>1
        <4> QED
          BY <1>1, <1>3, <1>5, <3>1, <4>1, <4>2
      <3>2. CASE ~(i > old)
        <4>1. i2e'[i] = IF i <= Len(i2e) THEN i2e[i] ELSE 0
          BY <1>7, <3>2 DEF Resized
        <4> QED
          BY <1>2, <3>2, <4>1
      <3> QED
        BY <3>1, <3>2
    <2>2. old \in Nat /\ old + n \in Nat
      BY <1>1, <1>2, <1>5
    <2>3. i2e' \in [1 .. old + n -> Ids \union {0}]
      BY <1>7, <2>1
    <2>4. i2e' \in Seq(Ids \union {0}) /\ Len(i2e') = old + n
      BY <2>2, <2>3
    <2>5. \A i \in 1 .. n : i2e'[old + i] = ids[i]
      <3>1. ASSUME NEW i \in 1 .. n
            PROVE  i2e'[old + i] = ids[i]
        <4>1. old + i \in 1 .. old + n /\ old + i > old /\ (old + i) - old = i
          BY <1>1, <2>2
        <4> QED
          BY <2>1, <4>1
      <3> QED
        BY <3>1
    <2> QED
      BY <1>1, <2>1, <2>2, <2>4, <2>5
  <1>9. ~late' => num' = Len(given')
    <2>1. ~late => num = Len(given)
      BY DEF IInv, LiveSound, Sound, InOrder
    <2> QED
      BY <1>1, <1>2, <1>4, <1>6, <2>1
  <1>10. LiveSound' /\ (~late' => ~late)
    <2>1. num' \in 0 .. Len(given') /\ Len(i2e') <= Len(given')
      <3>1. num' = num + n /\ Len(given') = Len(given) + n /\ Len(i2e') = old + n
        BY <1>4, <1>6, <1>8
      <3>2. n \in Nat /\ Len(given) \in Nat /\ num \in 0 .. Len(given) /\ old \in 0 .. Len(given)
        BY <1>1, <1>2, <1>5
      <3> QED
        BY <3>1, <3>2
    <2>2. LiveSound
      BY DEF IInv
    <2> QED
      BY <1>1, <1>4, <1>6, <1>8, <1>9, <2>1, <2>2, RowsJoin
  <1>11. Named(i2e', given', late')
    <2> SUFFICES ASSUME ~late', NEW d \in 1 .. Len(given'), given'[d] # NoId
                 PROVE  d <= Len(i2e') /\ i2e'[d] = given'[d]
      BY DEF Named
    <2>1. old = Len(given) /\ Named(i2e, given, late) /\ ~late
      BY <1>5, <1>6, <1>10 DEF IInv, MapSound
    <2>2. CASE d <= Len(given)
      <3>1. d <= Len(i2e) /\ i2e[d] = given[d]
        BY <1>2, <1>4, <2>1, <2>2 DEF Named
      <3> QED
        BY <1>1, <1>2, <1>4, <1>8, <2>1, <2>2, <3>1
    <2>3. CASE ~(d <= Len(given))
      <3>1. d - Len(given) \in 1 .. n /\ Len(given) + (d - Len(given)) = d
            /\ d \in Len(given) + 1 .. Len(given) + n
        BY <1>1, <1>2, <1>4, <2>3
      <3>2. i2e'[d] = ids[d - Len(given)] /\ given'[d] = ids[d - Len(given)]
        BY <1>4, <1>8, <2>1, <3>1
      <3> QED
        BY <1>1, <1>2, <1>8, <2>1, <3>1, <3>2
    <2> QED
      BY <2>2, <2>3
  <1>12. Inverts(Reversed(ids), ids)
    BY <1>3, ReversedInverts
  <1>13. ASSUME NEW x \in Range(ids)
         PROVE  e2i'[x] \in old .. old + n - 1 /\ i2e'[e2i'[x] + 1] = x
    <2>1. e2i'[x] = old + Reversed(ids)[x]
      BY <1>7
    <2>2. Reversed(ids)[x] \in 0 .. n - 1 /\ ids[Reversed(ids)[x] + 1] = x
      BY <1>3, <1>12 DEF Inverts
    <2>3. Reversed(ids)[x] + 1 \in 1 .. n /\ old + (Reversed(ids)[x] + 1) = e2i'[x] + 1
      BY <1>1, <1>2, <1>5, <2>1, <2>2
    <2>4. i2e'[old + (Reversed(ids)[x] + 1)] = x
      BY <1>8, <2>2, <2>3
    <2>5. e2i'[x] \in old .. old + n - 1
      BY <1>1, <1>2, <1>5, <2>1, <2>2
    <2>6. i2e'[e2i'[x] + 1] = x
      BY <2>3, <2>4
    <2> QED
      BY <2>5, <2>6
  <1>14. Range(e2i') \subseteq 0 .. MaxDocs - 1
    <2>1. ASSUME NEW x \in DOMAIN e2i'
          PROVE  e2i'[x] \in 0 .. MaxDocs - 1
      <3>1. CASE x \in Range(ids)
        BY <1>1, <1>2, <1>5, <1>13, <3>1
      <3>2. CASE x \notin Range(ids)
        <4>1. x \in DOMAIN e2i /\ e2i'[x] = e2i[x]
          BY <1>7, <3>2
        <4> QED
          BY <4>1 DEF IInv, MapSound, Range
      <3> QED
        BY <3>1, <3>2
    <2> QED
      BY <2>1 DEF Range
  <1>15. ASSUME Disciplined'
         PROVE  Inverts(e2i', i2e')
    <2>1. ~late' /\ ~late /\ \A d \in 1 .. Len(given') : given'[d] # NoId
      BY <1>10, <1>15 DEF Disciplined
    <2>2. Disciplined /\ old = Len(given) /\ Len(i2e) = old
      <3>1. \A d \in 1 .. Len(given) : given[d] # NoId
        BY <1>1, <1>2, <1>4, <2>1
      <3>2. Named(i2e, given, late)
        BY <1>6 DEF IInv, MapSound
      <3>3. Len(given) <= Len(i2e)
        <4>1. CASE Len(given) = 0
          BY <1>2, <4>1
        <4>2. CASE Len(given) # 0
          <5>1. Len(given) \in 1 .. Len(given)
            BY <1>2, <4>2
          <5> QED
            BY <2>1, <3>1, <3>2, <5>1 DEF Named
        <4> QED
          BY <4>1, <4>2
      <3> QED
        BY <1>2, <1>5, <2>1, <3>1, <3>3 DEF Disciplined
    <2>3. Inverts(e2i, i2e)
      BY <1>6, <2>2 DEF IInv, MapSound
    <2>4. Range(i2e') = Range(i2e) \union Range(ids)
      <3>1. ASSUME NEW i \in 1 .. old
            PROVE  i2e'[i] = i2e[i]
        BY <1>8, <2>2
      <3>2. \A i \in 1 .. old + n : i > old => i - old \in 1 .. n /\ old + (i - old) = i
        BY <1>1, <1>2, <1>5
      <3>3. /\ DOMAIN i2e' = 1 .. old + n /\ DOMAIN i2e = 1 .. old /\ DOMAIN ids = 1 .. n
            /\ \A i \in 1 .. old : i \in 1 .. old + n
            /\ \A i \in 1 .. n : old + i \in 1 .. old + n
            /\ \A i \in 1 .. old + n : i > old \/ i \in 1 .. old
        BY <1>1, <1>2, <1>3, <1>5, <1>8, <2>2
      <3>4. Range(i2e') \subseteq Range(i2e) \union Range(ids)
        <4>1. ASSUME NEW i \in 1 .. old + n
              PROVE  i2e'[i] \in Range(i2e) \union Range(ids)
          <5>1. CASE i > old
            <6>1. i - old \in 1 .. n /\ i2e'[i] = ids[i - old]
              BY <1>8, <3>2, <5>1
            <6> QED
              BY <3>3, <6>1 DEF Range
          <5>2. CASE i \in 1 .. old
            BY <3>1, <3>3, <5>2 DEF Range
          <5> QED
            BY <3>3, <5>1, <5>2
        <4> QED
          BY <3>3, <4>1 DEF Range
      <3>5. Range(i2e) \subseteq Range(i2e')
        BY <3>1, <3>3 DEF Range
      <3>6. Range(ids) \subseteq Range(i2e')
        <4>1. ASSUME NEW i \in 1 .. n
              PROVE  ids[i] \in Range(i2e')
          BY <1>8, <3>3 DEF Range
        <4> QED
          BY <3>3, <4>1 DEF Range
      <3> QED
        BY <3>4, <3>5, <3>6
    <2>5. DOMAIN e2i' = Range(i2e')
      BY <1>7, <2>3, <2>4 DEF Inverts
    <2>6. ASSUME NEW x \in Range(i2e')
          PROVE  e2i'[x] \in 0 .. Len(i2e') - 1 /\ i2e'[e2i'[x] + 1] = x
      <3>1. CASE x \in Range(ids)
        BY <1>1, <1>2, <1>5, <1>8, <1>13, <3>1
      <3>2. CASE x \notin Range(ids)
        <4>1. x \in Range(i2e) /\ e2i'[x] = e2i[x]
          BY <1>7, <2>3, <2>4, <3>2 DEF Inverts
        <4>2. e2i[x] \in 0 .. old - 1 /\ i2e[e2i[x] + 1] = x
          BY <2>2, <2>3, <4>1 DEF Inverts
        <4>3. e2i[x] + 1 \in 1 .. old /\ e2i[x] + 1 <= Len(i2e) /\ e2i[x] \in 0 .. old + n - 1
          BY <1>1, <1>2, <1>5, <2>2, <4>2
        <4>4. i2e'[e2i[x] + 1] = i2e[e2i[x] + 1]
          BY <1>8, <4>3
        <4>5. Len(i2e') = old + n
          BY <1>8
        <4>6. e2i'[x] \in 0 .. Len(i2e') - 1
          BY <1>1, <1>2, <1>5, <4>1, <4>3, <4>5
        <4>7. i2e'[e2i'[x] + 1] = x
          BY <4>1, <4>2, <4>4
        <4> QED
          BY <4>6, <4>7
      <3> QED
        BY <3>1, <3>2
    <2> QED
      BY <2>5, <2>6 DEF Inverts
  <1>16. MapSound'
    BY <1>11, <1>14, <1>15 DEF MapSound
  <1> QED
    BY <1>6, <1>10, <1>16, FileStays DEF IInv

(* read_csr_and_ids: the file's names are for all the rows there are, or    *)
(* the map is left alone and the index unusable.                            *)
LEMMA ReadSound ==
  ASSUME IInv, NEW n \in 1 .. MaxDocs, Room(n), NEW m \in n .. MaxDocs,
         NEW names \in SeqsOf(m), ReadCsrAndIds(n, names)
  PROVE  IInv'
  <1>1. n \in Nat \ {0} /\ m \in Nat /\ m <= MaxDocs /\ MaxDocs \in Nat
    BY MaxDocsAssumption
  <1>2. /\ given \in Seq(Names) /\ Len(given) \in Nat /\ Len(given) + n <= MaxDocs
        /\ num \in 0 .. Len(given) /\ (keeps => ~late) /\ late \in BOOLEAN
        /\ rows \in Seq(1 .. Len(given)) /\ Len(rows) \in Nat /\ Len(rows) <= Len(given)
        /\ i2e \in Seq(Ids \union {0}) /\ Len(i2e) \in Nat /\ Len(i2e) <= Len(given)
    BY DEF IInv, LiveSound, Sound, WellTyped, Room
  <1>3. names \in Seq(Ids) /\ names \in Seq(Names) /\ names \in Seq(Ids \union {0}) /\ Len(names) = m
        /\ \A i \in 1 .. m : names[i] \in Names
    BY <1>1 DEF SeqsOf, Names
  <1>4. /\ rows' = rows \o NewDocs(n) /\ num' = Len(rows') /\ late' = (late \/ JoinsLate)
        /\ UNCHANGED <<keeps, built, file>> /\ ~discard
        /\ borrowed' \in BOOLEAN
    <2>1. /\ DelegateRead(n) /\ late' = (late \/ JoinsLate) /\ UNCHANGED file /\ ~discard
          /\ borrowed \in BOOLEAN
      BY DEF ReadCsrAndIds, IInv
    <2>2. NewDocs(n) \in Seq(Nat)
      BY <1>1, <1>2 DEF NewDocs
    <2>3. rows = <<>> => rows \o NewDocs(n) = NewDocs(n)
      BY <2>2
    <2> QED
      BY <2>1, <2>3 DEF DelegateRead
  <1>5. Len(rows') = Len(rows) + n /\ num' = Len(rows) + n /\ NumVectors' = Len(rows')
        /\ \A i \in 1 .. n : rows'[Len(rows) + i] = Len(given) + i
    <2>1. NewDocs(n) \in Seq(Nat) /\ Len(NewDocs(n)) = n /\ rows \in Seq(Nat)
      <3>1. NewDocs(n) \in [1 .. n -> Nat]
        BY <1>1, <1>2 DEF NewDocs
      <3>2. rows \in [1 .. Len(rows) -> Nat]
        BY <1>2
      <3>3. NewDocs(n) \in Seq(Nat) /\ Len(NewDocs(n)) = n
        BY <1>1, <3>1
      <3>4. rows \in Seq(Nat)
        BY <1>2, <3>2
      <3> QED
        BY <3>3, <3>4
    <2>2. Len(rows') = Len(rows) + n
      <3>1. Len(rows \o NewDocs(n)) = Len(rows) + Len(NewDocs(n))
        BY <2>1, Joined
      <3> QED
        BY <1>4, <2>1, <3>1
    <2>3. \A i \in 1 .. n : rows'[Len(rows) + i] = Len(given) + i
      BY <1>1, <1>2, <1>4, <2>1 DEF NewDocs
    <2> QED
      BY <1>4, <2>2, <2>3 DEF NumVectors
  <1>6. num' \in 0 .. Len(given) + n /\ (~late' => num' = Len(given) + n)
    <2>1. num' \in 0 .. Len(given) + n
      BY <1>1, <1>2, <1>5
    <2>2. ASSUME ~late'
          PROVE  Len(rows) = Len(given)
      <3>1. ~late /\ ~JoinsLate
        BY <1>2, <1>4, <2>2
      <3> QED
        BY <3>1 DEF IInv, LiveSound, Sound, InOrder, JoinsLate
    <2> QED
      BY <1>5, <2>1, <2>2
  <1>7. CASE Len(names) # NumVectors'
    <2>1. /\ discard' = TRUE /\ UNCHANGED <<i2e, e2i>>
          /\ given' = given \o [i \in 1 .. n |-> NoId] /\ [i \in 1 .. n |-> NoId] \in Seq(Names)
      <3>1. [i \in 1 .. n |-> NoId] \in Seq(Names)
        BY <1>1 DEF Names
      <3> QED
        BY <1>7, <3>1 DEF ReadCsrAndIds, mapVars
    <2>2. given' \in Seq(Names) /\ Len(given') = Len(given) + n
      BY <1>1, <1>2, <2>1
    <2>3. i2e' \in Seq(Ids \union {0}) /\ Len(i2e') <= Len(given')
      BY <1>1, <1>2, <2>1, <2>2
    <2>4. LiveSound'
      BY <1>1, <1>4, <1>6, <2>2, <2>3, RowsJoin DEF IInv
    <2>5. MapSound'
      BY <2>1 DEF IInv, MapSound, Range
    <2> QED
      BY <1>4, <2>1, <2>4, <2>5, FileStays DEF IInv
  <1>8. CASE Len(names) = NumVectors'
    <2>1. m = Len(rows) + n /\ DOMAIN names = 1 .. m
      BY <1>3, <1>5, <1>8
    <2>2. /\ i2e' = names /\ e2i' = Reversed(names) /\ discard' = FALSE
          /\ given' = [d \in 1 .. Len(given) + n |->
                 IF \E i \in 1 .. Len(rows') : i <= Len(names) /\ rows'[i] = d
                   THEN names[CHOOSE i \in 1 .. Len(rows') : rows'[i] = d]
                   ELSE given[d]]
      BY <1>4, <1>8 DEF ReadCsrAndIds, SetIdMap, IInv
    <2>3. ASSUME NEW d \in 1 .. Len(given) + n
          PROVE  given'[d] \in Names
      <3>1. CASE \E i \in 1 .. Len(rows') : rows'[i] = d
        <4>1. (CHOOSE i \in 1 .. Len(rows') : rows'[i] = d) \in 1 .. m
          BY <1>5, <2>1, <3>1
        <4>2. given'[d] = names[CHOOSE i \in 1 .. Len(rows') : rows'[i] = d]
          BY <1>3, <1>5, <2>1, <2>2, <3>1
        <4> QED
          BY <1>3, <4>1, <4>2
      <3>2. CASE ~\E i \in 1 .. Len(rows') : rows'[i] = d
        <4>1. d \in 1 .. Len(given)
          <5>1. SUFFICES ASSUME d \notin 1 .. Len(given) PROVE FALSE
            OBVIOUS
          <5>2. d - Len(given) \in 1 .. n /\ Len(given) + (d - Len(given)) = d
            BY <1>1, <1>2, <5>1
          <5>3. Len(rows) + (d - Len(given)) \in 1 .. Len(rows')
            BY <1>1, <1>2, <1>5, <5>2
          <5> QED
            BY <1>5, <3>2, <5>2, <5>3
        <4>2. given'[d] = given[d]
          BY <2>2, <3>2
        <4> QED
          BY <1>2, <4>1, <4>2
      <3> QED
        BY <3>1, <3>2
    <2>4. given' \in Seq(Names) /\ Len(given') = Len(given) + n
      <3>1. given' \in [1 .. Len(given) + n -> Names]
        BY <2>2, <2>3
      <3>2. Len(given) + n \in Nat
        BY <1>1, <1>2
      <3> QED
        BY <3>1, <3>2
    <2>5. i2e' \in Seq(Ids \union {0}) /\ Len(i2e') = m /\ m <= Len(given')
      BY <1>1, <1>2, <1>3, <2>1, <2>2, <2>4
    <2>6. LiveSound' /\ (~late' => Len(rows) = Len(given))
      BY <1>1, <1>4, <1>6, <2>4, <2>5, RowsJoin DEF IInv
    <2>7. Named(i2e', given', late')
      <3> SUFFICES ASSUME ~late', NEW d \in 1 .. Len(given')
                   PROVE  d <= Len(i2e') /\ i2e'[d] = given'[d]
        BY DEF Named
      <3>1. Len(rows') = m /\ Len(given') = m /\ Identity(rows')
        BY <1>5, <2>1, <2>4, <2>6 DEF LiveSound, Sound, InOrder
      <3>2. d \in 1 .. Len(rows') /\ \A i \in 1 .. Len(rows') : rows'[i] = d <=> i = d
        BY <3>1 DEF Identity
      <3>3. (CHOOSE i \in 1 .. Len(rows') : rows'[i] = d) = d
        BY <3>2
      <3>4. given'[d] = names[d]
        BY <1>3, <2>2, <2>4, <3>1, <3>2, <3>3
      <3> QED
        BY <2>2, <2>5, <3>1, <3>4
    <2>8. Inverts(e2i', i2e') /\ Range(e2i') \subseteq 0 .. MaxDocs - 1
      BY <1>1, <1>3, <2>2, ReversedInverts, ReversedInRange
    <2>9. MapSound'
      BY <2>7, <2>8 DEF MapSound
    <2> QED
      BY <1>4, <2>2, <2>6, <2>9, FileStays DEF IInv
  <1> QED
    BY <1>7, <1>8

(* build() takes what rows there are. *)
LEMMA BuildSound == ASSUME IInv, Build PROVE IInv'
  <1>1. /\ WellTyped(rows, built, num, i2e, given)
        /\ rows \in Seq(1 .. Len(given)) /\ Len(given) \in Nat /\ Len(rows) \in Nat
        /\ Len(rows) <= Len(given)
    BY DEF IInv, LiveSound, Sound, WellTyped
  <1>2. UNCHANGED <<keeps, i2e, e2i, discard, given, late, file>>
    BY DEF Build, mapVars
  <1>3. CASE UNCHANGED <<rows, borrowed, built, num>>
    BY <1>2, <1>3, FileStays DEF IInv, LiveSound, MapSound, Disciplined, Range
  <1>4. CASE keeps /\ built' = rows /\ UNCHANGED <<rows, borrowed, num>>
    <2>1. WellTyped(rows', built', num', i2e', given')
      BY <1>1, <1>2, <1>4 DEF WellTyped
    <2>2. ~late => InOrder(keeps, rows, rows, num, given)
      BY DEF IInv, LiveSound, Sound, InOrder
    <2>3. LiveSound'
      BY <1>2, <1>4, <2>1, <2>2 DEF IInv, LiveSound, Sound
    <2> QED
      BY <1>2, <1>4, <2>3, FileStays DEF IInv, MapSound, Disciplined, Range
  <1>5. CASE /\ ~keeps /\ rows # <<>> /\ built' = rows /\ num' = Len(rows)
             /\ rows' = <<>> /\ borrowed' = FALSE
    <2>1. WellTyped(rows', built', num', i2e', given')
      <3>1. rows' \in Seq(1 .. Len(given)) /\ Len(rows') = 0
        BY <1>5
      <3> QED
        BY <1>1, <1>2, <1>5, <3>1 DEF WellTyped
    <2>2. ~late => InOrder(FALSE, <<>>, rows, Len(rows), given)
      <3>1. Identity(<<>>)
        BY DEF Identity
      <3> QED
        BY <1>5, <3>1 DEF IInv, LiveSound, Sound, InOrder
    <2>3. LiveSound'
      BY <1>2, <1>5, <2>1, <2>2 DEF IInv, LiveSound, Sound, InOrder
    <2> QED
      BY <1>2, <1>5, <2>3, FileStays DEF IInv, MapSound, Disciplined, Range
  <1> QED
    BY <1>3, <1>4, <1>5 DEF Build, DelegateBuild

(* The file is as sound as the index it was written from: what the delegate *)
(* leaves out of it is rows it has not built from, and those it counts.     *)
LEMMA SaveSound == ASSUME IInv, Save PROVE IInv'
  <1>1. /\ UNCHANGED <<keeps, rows, borrowed, built, num, i2e, e2i, discard, given, late>>
        /\ ~discard
    BY DEF Save, delegateVars, mapVars
  <1> DEFINE r == IF keeps THEN rows ELSE <<>>
  <1>2. /\ file'.i2e = i2e /\ file'.built = built /\ file'.given = given /\ file'.late = late
        /\ file'.rows = r /\ file'.num = num
    BY DEF Save
  <1>3. Sound(keeps, r, built, num, i2e, given, late)
    <2>1. CASE keeps
      BY <2>1 DEF IInv, LiveSound
    <2>2. CASE ~keeps
      <3>1. r = <<>>
        BY <2>2
      <3>2. Identity(<<>>) /\ <<>> \in Seq(1 .. Len(given)) /\ Len(<<>>) = 0
        BY DEF Identity
      <3>3. Sound(keeps, rows, built, num, i2e, given, late) /\ Len(given) \in Nat
        BY DEF IInv, LiveSound, Sound, WellTyped
      <3>4. WellTyped(<<>>, built, num, i2e, given)
        BY <3>2, <3>3 DEF Sound, WellTyped
      <3>5. ~late => InOrder(keeps, <<>>, built, num, given)
        BY <2>2, <3>2, <3>3 DEF Sound, InOrder
      <3> HIDE DEF r
      <3> QED
        BY <3>1, <3>3, <3>4, <3>5 DEF Sound
    <2> QED
      BY <2>1, <2>2
  <1> HIDE DEF r
  <1>4. Named(i2e, given, late)
    BY <1>1 DEF IInv, MapSound
  <1>5. FileSound'
    BY <1>1, <1>2, <1>3, <1>4 DEF FileSound
  <1> QED
    BY <1>1, <1>5 DEF IInv, LiveSound, MapSound, Disciplined, Range

(* Whatever is in the file, a load makes an index as sound of it. *)
LEMMA LoadSound == ASSUME IInv, Load PROVE IInv'
  <1>1. /\ rows' = file.rows /\ built' = file.built /\ num' = file.num /\ i2e' = file.i2e
        /\ e2i' = Reversed(file.i2e) /\ discard' = FALSE /\ given' = file.given /\ late' = file.late
        /\ UNCHANGED <<keeps, file>> /\ borrowed' \in BOOLEAN /\ file # Nothing
    BY DEF Load, SetIdMap
  <1>2. /\ Sound(keeps, file.rows, file.built, file.num, file.i2e, file.given, file.late)
        /\ Named(file.i2e, file.given, file.late)
    BY <1>1 DEF IInv, FileSound
  <1>3. LiveSound'
    BY <1>1, <1>2 DEF LiveSound
  <1>4. /\ file.i2e \in Seq(Ids \union {0}) /\ Len(file.i2e) \in Nat
        /\ Len(file.given) \in Nat /\ Len(file.i2e) <= Len(file.given) /\ Len(file.given) <= MaxDocs
    BY <1>2 DEF Sound, WellTyped
  <1>5. Inverts(e2i', i2e') /\ Range(e2i') \subseteq 0 .. MaxDocs - 1
    BY <1>1, <1>4, ReversedInverts, ReversedInRange, MaxDocsAssumption
  <1>6. MapSound'
    BY <1>1, <1>2, <1>5 DEF MapSound
  <1> QED
    BY <1>1, <1>3, <1>6, FileStays DEF IInv

LEMMA StepSound == IInv /\ [Next]_vars => IInv'
  <1> SUFFICES ASSUME IInv, [Next]_vars
               PROVE  IInv'
    OBVIOUS
  <1>1. CASE UNCHANGED vars
    BY <1>1, FileStays
       DEF IInv, LiveSound, MapSound, Disciplined, Range, vars, delegateVars, mapVars
  <1> QED
    BY <1>1, AddSound, AddWithIdsSound, ReadSound, BuildSound, SaveSound, LoadSound DEF Next

THEOREM IInvHolds == Spec => []IInv
  BY InitSound, StepSound, PTL DEF Spec
-----------------------------------------------------------------------------
(* The variables keep their types: every entry of the delegate's rows and   *)
(* lists is a document there is, every internal id a row there may be.      *)
THEOREM TypesHold == Spec => []TypeOK
  <1>1. IInv => TypeOK
    <2> SUFFICES ASSUME IInv PROVE TypeOK
      OBVIOUS
    <2>1. WellTyped(rows, built, num, i2e, given) /\ late \in BOOLEAN
      BY DEF IInv, LiveSound, Sound
    <2>2. Len(given) \in Nat /\ Len(given) <= MaxDocs /\ MaxDocs \in Nat
      BY <2>1, MaxDocsAssumption DEF WellTyped
    <2>3. \A s \in Seq(1 .. Len(given)) : s \in Seq(1 .. MaxDocs)
      BY <2>2
    <2>4. rows \in Seq(1 .. MaxDocs) /\ built \in Seq(1 .. MaxDocs) \union {Nothing}
      BY <2>1, <2>3 DEF WellTyped
    <2>5. num \in 0 .. MaxDocs
      BY <2>1, <2>2 DEF WellTyped
    <2> QED
      BY <2>1, <2>4, <2>5 DEF IInv, MapSound, TypeOK, WellTyped, Names
  <1> QED
    BY <1>1, IInvHolds, PTL

(* num_vectors() counts every document added, built or not, copied or       *)
(* mapped, before and after a load (inverted_index.h:38-45).                *)
THEOREM EveryRowIsCounted == Spec => []CountsEveryRow
  <1>1. IInv => CountsEveryRow
    BY DEF IInv, LiveSound, Sound, InOrder, CountsEveryRow, NumVectors
  <1> QED
    BY <1>1, IInvHolds, PTL

(* For every number of documents and names, through any sequence of adds,   *)
(* reads, builds, saves and loads, the map takes whatever internal id the   *)
(* lists hold to the name the caller gave that row (id_map_index.cpp:61-67). *)
THEOREM LabelsHold == Spec => []LabelsAreTheCallers
  <1>1. IInv => LabelsAreTheCallers
    <2> SUFFICES ASSUME IInv, Disciplined, ~discard, built # Nothing, NEW i \in 1 .. Len(built)
                 PROVE  i <= Len(i2e) /\ i2e[i] = given[built[i]]
      BY DEF LabelsAreTheCallers
    <2>1. ~late /\ \A d \in 1 .. Len(given) : given[d] # NoId
      BY DEF Disciplined
    <2>2. built[i] = i /\ built[i] \in 1 .. Len(given)
      BY <2>1 DEF IInv, LiveSound, Sound, WellTyped, InOrder, Identity
    <2> QED
      BY <2>1, <2>2 DEF IInv, MapSound, Named
  <1> QED
    BY <1>1, IInvHolds, PTL

(* A selector selects the same rows whether it is asked row by row, through *)
(* internal_to_external_, or enumerated, through external_to_internal_.     *)
THEOREM SelectorsHold == Spec => []SelectorsAgree
  <1>1. IInv => SelectorsAgree
    <2> SUFFICES ASSUME IInv, Disciplined, ~discard, IsInjective(i2e), NEW x \in Ids
                 PROVE  {i \in 0 .. Len(i2e) - 1 : i2e[i + 1] = x}
                          = IF x \in DOMAIN e2i THEN {e2i[x]} ELSE {}
      BY DEF SelectorsAgree
    <2>1. Inverts(e2i, i2e)
      BY DEF IInv, MapSound
    <2>2. i2e \in Seq(Ids \union {0}) /\ Len(i2e) \in Nat /\ DOMAIN i2e = 1 .. Len(i2e)
      BY DEF IInv, LiveSound, Sound, WellTyped
    <2>3. ASSUME NEW i \in 0 .. Len(i2e) - 1, i2e[i + 1] = x
          PROVE  x \in DOMAIN e2i /\ i = e2i[x]
      <3>1. i + 1 \in DOMAIN i2e
        BY <2>2
      <3>2. x \in Range(i2e)
        BY <2>3, <3>1 DEF Range
      <3>3. e2i[x] \in 0 .. Len(i2e) - 1 /\ i2e[e2i[x] + 1] = x
        BY <2>1, <3>2 DEF Inverts
      <3>4. e2i[x] + 1 \in DOMAIN i2e
        BY <2>2, <3>3
      <3>5. i + 1 = e2i[x] + 1
        BY <2>3, <3>1, <3>3, <3>4 DEF IsInjective
      <3> QED
        BY <2>1, <3>2, <3>3, <3>5 DEF Inverts
    <2>4. ASSUME x \in DOMAIN e2i
          PROVE  e2i[x] \in 0 .. Len(i2e) - 1 /\ i2e[e2i[x] + 1] = x
      BY <2>1, <2>4 DEF Inverts
    <2> QED
      BY <2>3, <2>4
  <1> QED
    BY <1>1, IInvHolds, PTL
-----------------------------------------------------------------------------
(* Index files.                                                             *)

-----------------------------------------------------------------------------
(* Sequences, taken apart from the front.                                   *)

LEMMA ConsIs ==
  ASSUME NEW S, NEW x \in S, NEW s \in Seq(S)
  PROVE  /\ Cons(x, s) \in Seq(S) /\ Cons(x, s) # <<>> /\ Len(Cons(x, s)) = Len(s) + 1
         /\ Head(Cons(x, s)) = x /\ Tail(Cons(x, s)) = s
  <1>1. /\ Cons(x, s) \in Seq(S) /\ Len(Cons(x, s)) = Len(s) + 1 /\ Cons(x, s)[1] = x
        /\ \A i \in 1 .. Len(s) : Cons(x, s)[i + 1] = s[i]
    BY DEF Cons
  <1>2. Tail(Cons(x, s)) = s
    <2>1. Tail(Cons(x, s)) \in Seq(S) /\ Len(Tail(Cons(x, s))) = Len(s)
      BY <1>1
    <2>2. ASSUME NEW i \in 1 .. Len(s) PROVE Tail(Cons(x, s))[i] = s[i]
      BY <1>1
    <2> QED
      BY <2>1, <2>2
  <1> QED
    BY <1>1, <1>2

LEMMA JoinAssoc ==
  ASSUME NEW S, NEW a \in Seq(S), NEW b \in Seq(S), NEW c \in Seq(S)
  PROVE  (a \o b) \o c = a \o (b \o c)
  <1>1. (a \o b) \o c \in Seq(S) /\ a \o (b \o c) \in Seq(S)
        /\ Len((a \o b) \o c) = Len(a \o (b \o c))
    OBVIOUS
  <1>2. ASSUME NEW i \in 1 .. Len((a \o b) \o c)
        PROVE  ((a \o b) \o c)[i] = (a \o (b \o c))[i]
    OBVIOUS
  <1> QED
    BY <1>1, <1>2

LEMMA JoinNone ==
  ASSUME NEW S, NEW s \in Seq(S)
  PROVE  <<>> \o s = s /\ s \o <<>> = s
  OBVIOUS

LEMMA ConsJoin ==
  ASSUME NEW S, NEW x \in S, NEW s \in Seq(S), NEW t \in Seq(S)
  PROVE  Cons(x, s) \o t = Cons(x, s \o t) /\ <<x>> \o t = Cons(x, t)
  <1>1. <<x>> \in Seq(S)
    OBVIOUS
  <1> QED
    BY <1>1, JoinAssoc DEF Cons

(* A sequence that is not empty is its head before its tail. *)
LEMMA HeadTail ==
  ASSUME NEW S, NEW s \in Seq(S), s # <<>>
  PROVE  /\ Head(s) \in S /\ Tail(s) \in Seq(S) /\ s = Cons(Head(s), Tail(s))
         /\ Len(Tail(s)) = Len(s) - 1 /\ Head(s) = s[1]
         /\ \A i \in 1 .. Len(s) - 1 : Tail(s)[i] = s[i + 1]
  <1>1. Len(s) \in Nat /\ Len(s) # 0
    OBVIOUS
  <1>2. Head(s) \in S /\ Tail(s) \in Seq(S) /\ Len(Tail(s)) = Len(s) - 1
    BY <1>1
  <1>3. ASSUME NEW i \in 1 .. Len(s) PROVE s[i] = Cons(Head(s), Tail(s))[i]
    <2>1. CASE i = 1
      BY <1>1, <1>2, <2>1 DEF Cons
    <2>2. CASE i # 1
      <3>1. i - 1 \in 1 .. Len(Tail(s)) /\ Tail(s)[i - 1] = s[i]
        BY <1>1, <2>2
      <3> QED
        BY <1>1, <1>2, <2>2, <3>1 DEF Cons
    <2> QED
      BY <2>1, <2>2
  <1>4. Cons(Head(s), Tail(s)) \in Seq(S) /\ Len(Cons(Head(s), Tail(s))) = Len(s)
    <2>1. Head(s) \in S /\ Tail(s) \in Seq(S) /\ Len(Tail(s)) + 1 = Len(s)
      BY <1>1, <1>2
    <2> QED
      BY <2>1, ConsIs
  <1>5. s = Cons(Head(s), Tail(s))
    BY <1>3, <1>4
  <1> QED
    BY <1>1, <1>2, <1>5

(* R has of the sequences joined what is left after the first so many.      *)
Leaves(R, q, S, n) ==
  /\ R \in [0 .. n -> Seq(S)]
  /\ R[n] = <<>>
  /\ \A i \in 1 .. n : R[i - 1] = q[i] \o R[i]

LEMMA LeavesExist ==
  ASSUME NEW S, NEW n \in Nat, NEW q \in [1 .. n -> Seq(S)]
  PROVE  \E R : Leaves(R, q, S, n)
  <1> DEFINE step == [p \in Seq(S) \X Nat |-> IF p[2] \in 1 .. n THEN q[n - p[2] + 1] \o p[1] ELSE p[1]]
  <1>1. step \in [Seq(S) \X Nat -> Seq(S)]
    <2>1. ASSUME NEW p \in Seq(S) \X Nat
          PROVE  (IF p[2] \in 1 .. n THEN q[n - p[2] + 1] \o p[1] ELSE p[1]) \in Seq(S)
      <3>1. p[1] \in Seq(S) /\ p[2] \in Nat
        OBVIOUS
      <3>2. p[2] \in 1 .. n => n - p[2] + 1 \in 1 .. n
        BY <3>1
      <3>3. p[2] \in 1 .. n => q[n - p[2] + 1] \in Seq(S)
        BY <3>2
      <3> QED
        BY <3>1, <3>3
    <2> QED
      BY <2>1
  <1>2. <<>> \in Seq(S)
    OBVIOUS
  <1>3. PICK f : Recursion(f, Seq(S), <<>>, step, n)
    <2> HIDE DEF step
    <2> QED
      BY <1>1, <1>2, RecursionExists
  <1>4. f \in [0 .. n -> Seq(S)] /\ f[0] = <<>> /\ \A m \in 1 .. n : f[m] = step[<<f[m - 1], m>>]
    BY <1>3 DEF Recursion
  <1> DEFINE R == [i \in 0 .. n |-> f[n - i]]
  <1>5. R \in [0 .. n -> Seq(S)]
    <2>1. \A i \in 0 .. n : n - i \in 0 .. n
      OBVIOUS
    <2> HIDE DEF step
    <2> QED
      BY <1>4, <2>1
  <1>6. R[n] = <<>>
    <2> HIDE DEF step
    <2> QED
      BY <1>4
  <1>7. ASSUME NEW i \in 1 .. n
        PROVE  R[i - 1] = q[i] \o R[i]
    <2>1. i - 1 \in 0 .. n /\ i \in 0 .. n /\ n - i \in 0 .. n /\ n - i + 1 \in 1 .. n
          /\ n - (i - 1) = n - i + 1 /\ (n - i + 1) - 1 = n - i /\ n - (n - i + 1) + 1 = i
      OBVIOUS
    <2>2. R[i - 1] = f[n - i + 1] /\ R[i] = f[n - i]
      BY <2>1
    <2>3. f[n - i + 1] = step[<<f[n - i], n - i + 1>>]
      <3> HIDE DEF step
      <3> QED
        BY <1>4, <2>1
    <2>4. f[n - i] \in Seq(S) /\ n - i + 1 \in Nat
      <3> HIDE DEF step
      <3> QED
        BY <1>4, <2>1
    <2>5. step[<<f[n - i], n - i + 1>>] = q[i] \o f[n - i]
      BY <2>1, <2>4
    <2> QED
      BY <2>2, <2>3, <2>5
  <1> HIDE DEF R
  <1> QED
    BY <1>5, <1>6, <1>7 DEF Leaves

(* Joined one after the other they are all. *)
LEMMA LeavesFlatten ==
  ASSUME NEW S, NEW n \in Nat, NEW q \in [1 .. n -> Seq(S)], NEW R, Leaves(R, q, S, n)
  PROVE  R[0] = FlattenSeq(q)
  <1>1. Len(q) = n /\ DOMAIN q = 1 .. n /\ q \in Seq(Seq(S))
    BY FunctionIsSequence
  <1>2. CASE n = 0
    <2>1. q = <<>>
      BY <1>1, <1>2
    <2> QED
      BY <1>1, <1>2, <2>1 DEF Leaves, FlattenSeq
  <1>3. CASE n # 0
    <2> DEFINE step == [p \in Seq(S) \X Nat |-> IF p[2] + 1 \in 1 .. n THEN p[1] \o q[p[2] + 1] ELSE p[1]]
               Row(g) == [i \in 1 .. n |-> IF i = 1 THEN q[i] ELSE g[i - 1] \o q[i]]
               flatten == CHOOSE g : g = Row(g)
    <2>1. step \in [Seq(S) \X Nat -> Seq(S)]
      <3>1. ASSUME NEW p \in Seq(S) \X Nat
            PROVE  (IF p[2] + 1 \in 1 .. n THEN p[1] \o q[p[2] + 1] ELSE p[1]) \in Seq(S)
        <4>1. p[1] \in Seq(S) /\ p[2] \in Nat
          OBVIOUS
        <4>2. p[2] + 1 \in 1 .. n => q[p[2] + 1] \in Seq(S)
          BY <4>1
        <4> QED
          BY <4>1, <4>2
      <3> QED
        BY <3>1
    <2>2. q[1] \in Seq(S) /\ n - 1 \in Nat
      BY <1>3
    <2>3. PICK f : Recursion(f, Seq(S), q[1], step, n - 1)
      <3> HIDE DEF step
      <3> QED
        BY <2>1, <2>2, RecursionExists
    <2>4. f \in [0 .. n - 1 -> Seq(S)] /\ f[0] = q[1] /\ \A m \in 1 .. n - 1 : f[m] = step[<<f[m - 1], m>>]
      BY <2>3 DEF Recursion
    <2> DEFINE h == [i \in 1 .. n |-> f[i - 1]]
    <2>5. ASSUME NEW i \in 1 .. n
          PROVE  h[i] = IF i = 1 THEN q[i] ELSE h[i - 1] \o q[i]
      <3>1. CASE i = 1
        <4> HIDE DEF step
        <4> QED
          BY <2>4, <3>1
      <3>2. CASE i # 1
        <4>1. i - 1 \in 1 .. n - 1 /\ i - 1 \in 1 .. n /\ (i - 1) - 1 \in 0 .. n - 1 /\ (i - 1) + 1 = i
              /\ i - 1 \in Nat
          BY <3>2
        <4>2. f[i - 1] = step[<<f[(i - 1) - 1], i - 1>>] /\ f[(i - 1) - 1] \in Seq(S)
          <5> HIDE DEF step
          <5> QED
            BY <2>4, <4>1
        <4>3. step[<<f[(i - 1) - 1], i - 1>>] = f[(i - 1) - 1] \o q[i]
          BY <4>1, <4>2
        <4> HIDE DEF step
        <4>4. h[i] = f[i - 1] /\ h[i - 1] = f[(i - 1) - 1]
          BY <4>1
        <4> QED
          BY <3>2, <4>2, <4>3, <4>4
      <3> QED
        BY <3>1, <3>2
    <2>6. h = Row(h)
      <3> HIDE DEF h
      <3>1. h = [i \in 1 .. n |-> h[i]]
        BY DEF h
      <3> QED
        BY <2>5, <3>1
    <2> HIDE DEF h, step
    <2>7. flatten = Row(flatten)
      <3> HIDE DEF Row
      <3> QED
        BY <2>6
    <2>8. FlattenSeq(q) = flatten[n]
      BY <1>1, <1>3 DEF FlattenSeq
    <2> HIDE DEF flatten
    <2>9. \A i \in 1 .. n : flatten[i] = IF i = 1 THEN q[i] ELSE flatten[i - 1] \o q[i]
      BY <2>7
    <2> DEFINE P(m) == m + 1 \in 1 .. n =>
                         flatten[m + 1] \in Seq(S) /\ flatten[m + 1] \o R[m + 1] = R[0]
               D    == {m \in Nat : P(m)}
    <2>10. R \in [0 .. n -> Seq(S)] /\ R[n] = <<>> /\ \A i \in 1 .. n : R[i - 1] = q[i] \o R[i]
      BY DEF Leaves
    <2>11. P(0)
      <3>1. 1 \in 1 .. n /\ 0 + 1 = 1 /\ 1 - 1 = 0
        BY <1>3
      <3>2. flatten[1] = q[1]
        BY <2>9, <3>1
      <3>3. R[0] = q[1] \o R[1]
        BY <2>10, <3>1
      <3> QED
        BY <2>2, <3>1, <3>2, <3>3
    <2>12. ASSUME NEW m \in Nat, P(m), (m + 1) + 1 \in 1 .. n
           PROVE  flatten[(m + 1) + 1] \in Seq(S) /\ flatten[(m + 1) + 1] \o R[(m + 1) + 1] = R[0]
      <3> DEFINE a == flatten[m + 1]
                 b == q[(m + 1) + 1]
                 c == R[(m + 1) + 1]
      <3>1. m + 1 \in 1 .. n /\ ((m + 1) + 1) - 1 = m + 1 /\ m + 1 \in 0 .. n /\ (m + 1) + 1 \in 0 .. n
            /\ (m + 1) + 1 # 1
        BY <2>12
      <3>2. a \in Seq(S) /\ a \o R[m + 1] = R[0]
        BY <2>12, <3>1
      <3>3. flatten[(m + 1) + 1] = a \o b
        BY <2>9, <2>12, <3>1
      <3>4. b \in Seq(S) /\ c \in Seq(S)
        BY <2>10, <2>12, <3>1
      <3>5. R[m + 1] = b \o c
        BY <2>10, <2>12, <3>1
      <3> HIDE DEF a, b, c, P
      <3>6. (a \o b) \o c = a \o (b \o c) /\ a \o b \in Seq(S)
        BY <3>2, <3>4, JoinAssoc
      <3> QED
        BY <3>2, <3>3, <3>5, <3>6 DEF c
    <2>13. P(n - 1)
      <3> HIDE DEF P
      <3>1. 0 \in D
        BY <2>11
      <3>2. ASSUME NEW m \in Nat, m \in D PROVE m + 1 \in D
        <4>1. P(m + 1)
          <5>1. P(m)
            BY <3>2
          <5> QED
            BY <2>12, <5>1 DEF P
        <4> QED
          BY <4>1
      <3> HIDE DEF D
      <3>3. n - 1 \in D
        BY <2>2, <3>1, <3>2, NatSetInduction
      <3> QED
        BY <3>3 DEF D
    <2>14. flatten[n] \in Seq(S) /\ flatten[n] \o R[n] = R[0]
      <3>1. (n - 1) + 1 = n /\ n \in 1 .. n
        BY <1>3
      <3> QED
        BY <2>13, <3>1
    <2> QED
      BY <2>8, <2>10, <2>14, JoinNone
  <1> QED
    BY <1>2, <1>3
-----------------------------------------------------------------------------
(* What a reader expects, and what it is to find.                           *)

ArrayPlaces ==
  {"id_map", "indptr", "indices", "values", "docs", "offsets", "term_ids", "term_ptr", "csc_cluster",
   "csc_value", "doc_ids", "codes", "max_term_scores", "section", "locators"}

ScalarPlaces ==
  {"id", "version", "dim", "map_size", "sq_type", "vmin", "vmax", "vector_count", "dimension",
   "element_size", "n_lists", "n_docs", "n_offsets", "n_clusters", "summary_width", "n_terms", "nnz",
   "num_vectors", "n_term", "posting_width", "list_size", "scores_size", "section_len", "count"}

HeaderPlaces == {"id", "version", "dim", "payload", "map_size", "id_map"}

(* The bytes of an array stand for themselves. *)
Values == Int \union ArrayPlaces \union Writable \union {NoValue}

Cells ==
  {c \in [what : ArrayPlaces \union ScalarPlaces, bytes : Nat, align : Nat \ {0}, array : BOOLEAN,
          value : Values] :
     c.bytes = 0 => c.value = NoValue}

(* The offsets of a corpus are never empty, a scalar neither. *)
Expected ==
  {x \in [what : ArrayPlaces \union ScalarPlaces \union Marks, bytes : Nat, align : Nat \ {0},
          array : BOOLEAN] :
     /\ x.array <=> x.what \in ArrayPlaces
     /\ x.what \in Marks => x.bytes = 0 /\ x.align = 1
     /\ x.what \in ScalarPlaces \union {"indptr"} => x.bytes > 0}

IsGot(g) ==
  g = [w \in Kept |-> g[w]] /\ g["n_term"] \in Nat /\ g["summary_width"] \in Nat \ {0}

Ahead(t, what) == \E i \in DOMAIN t : t[i].what = what

Inside(t) == \A i \in DOMAIN t : t[i].what \notin HeaderPlaces

(* The rest of a header, at the end of what is expected.                    *)
EndsHeader(t) ==
  /\ t # <<>>
  /\ \A i \in DOMAIN t : /\ t[i].what \in HeaderPlaces \ {"map_size"}
                         /\ t[i].what = "payload" <=> i = Len(t)

InnerOf(ix)  == IF ix.id = "IDMP" THEN ix.delegate ELSE ix
Supports(ix) == ix.version = Version /\ InnerOf(ix).version = Version

(* A header of the index was read: its own, or then its delegate's.         *)
HeaderRead(g, ix) ==
  \/ g["id"] = ix.id /\ g["version"] = ix.version
  \/ /\ ix.id = "IDMP" /\ ix.version = Version
     /\ g["id"] = ix.delegate.id /\ g["version"] = ix.delegate.version

(* There are m items of eight bytes or more. *)
Spans(s, m) ==
  \E f \in [1 .. m -> 1 .. Len(s)] :
    /\ \A i, j \in 1 .. m : i < j => f[i] < f[j]
    /\ \A i \in 1 .. m : s[f[i]].bytes >= 8

(* What was written passes the checks of the scalars that were read. *)
Fits(check, s, g, ix) ==
  /\ check = "check_quantizer" => g["sq_type"] \in {0, 1} /\ g["vmax"] > g["vmin"]
  /\ check = "check_element_size" =>
       \/ g["id"] = "INVT" /\ g["posting_width"] = 4 /\ Spans(s, g["n_term"])
       \/ g["id"] = "SEIS" /\ (g["vector_count"] > 0 => g["element_size"] = 4)
       \/ g["id"] = "SESQ" /\ (g["vector_count"] > 0 => g["element_size"] = g["sq_type"] + 1)
  /\ check = "check_scores"   => g["scores_size"] = g["n_term"]
  /\ check = "check_locators" => g["count"] = g["num_vectors"]
  /\ check = "check_widths"   => (g["id"] = "DSSQ" => g["sq_type"] + 1 = InnerOf(ix).width)

(* After the header of an inverted index, all of it is postings and scores. *)
PostingsAhead(x, t, v, g) ==
  /\ x.what \in ArrayPlaces \union {"num_vectors", "n_term", "posting_width", "list_size", "scores_size"}
  /\ x.what \in {"num_vectors", "n_term"} => Ahead(t, "posting_width")
  /\ x.what = "list_size" => g["n_term"] > 0 /\ Ahead(t, "scores_size") /\ ~Ahead(t, "n_term")
  /\ x.what = "scores_size" => v = g["n_term"] /\ ~Ahead(t, "n_term")

(* What is still expected after the item x, which holds v: what a reader    *)
(* that does not get v runs into.                                           *)
Consequence(x, t, v, g, ix) ==
  /\ x.what \notin HeaderPlaces => Inside(t)
  /\ x.what \in {"id", "version", "dim", "id_map"} => EndsHeader(t)
  /\ x.what = "version" => HeaderRead(Noted(g, "version", v), ix)
  /\ x.what = "dim" => HeaderRead(g, ix)
  /\ x.what = "id_map" => Ahead(t, "id")
  /\ x.what = "map_size" => t = <<>>
  /\ g["id"] = "INVT" /\ x.what \notin HeaderPlaces => PostingsAhead(x, t, v, g)

Place(t, s, g) == <<t, s, g>>

(* A reader that expects t and has read g meets s: what comes first is what *)
(* it expects, and with that it is in one of the places P.                  *)
Meets(t, s, g, ix, P) ==
  /\ t \in Seq(Expected) /\ s \in Seq(Cells) /\ IsGot(g)
  /\ Inside(t) => Supports(ix) /\ g["id"] = InnerOf(ix).id
  /\ t = <<>> => s = <<>>
  /\ t # <<>> /\ Head(t).what = "payload" =>
       /\ HeaderRead(g, ix) /\ Tail(t) = <<>>
       /\ g["version"] = Version => Place(Payload(g["id"]), s, g) \in P
  /\ t # <<>> /\ Head(t).what \in Marks \ {"payload"} =>
       Fits(Head(t).what, s, g, ix) /\ Place(Tail(t), s, g) \in P
  /\ t # <<>> /\ Head(t).what \notin Marks =>
       LET x == Head(t)
           v == Head(s).value
           h == Noted(g, x.what, v)
       IN  /\ s # <<>> /\ Head(s) = Valued(x, v)
           /\ Consequence(x, Tail(t), v, g, ix)
           /\ Place(Then(x.what, v, h) \o Tail(t), Tail(s), h) \in P

(* A reader that expects t and has read g reads s to its end.               *)
Follows(t, s, g, ix) ==
  \E P : Place(t, s, g) \in P /\ \A p \in P : Meets(p[1], p[2], p[3], ix, P)

LEMMA MeetsMore ==
  ASSUME NEW t, NEW s, NEW g, NEW ix, NEW P, NEW Q, P \subseteq Q, Meets(t, s, g, ix, P)
  PROVE  Meets(t, s, g, ix, Q)
  BY DEF Meets

LEMMA PlaceIs ==
  ASSUME NEW t, NEW s, NEW g
  PROVE  Place(t, s, g)[1] = t /\ Place(t, s, g)[2] = s /\ Place(t, s, g)[3] = g
  BY DEF Place

(* One step back. *)
LEMMA FollowsBefore ==
  ASSUME NEW t, NEW s, NEW g, NEW ix, NEW u, NEW r, NEW h,
         Meets(t, s, g, ix, {Place(u, r, h)}), Follows(u, r, h, ix)
  PROVE  Follows(t, s, g, ix)
  <1>1. PICK P : Place(u, r, h) \in P /\ \A p \in P : Meets(p[1], p[2], p[3], ix, P)
    BY DEF Follows
  <1> DEFINE Q == P \union {Place(t, s, g)}
  <1>2. ASSUME NEW p \in Q
        PROVE  Meets(p[1], p[2], p[3], ix, Q)
    <2>1. CASE p \in P
      BY <1>1, <2>1, MeetsMore
    <2>2. CASE p = Place(t, s, g)
      <3>1. {Place(u, r, h)} \subseteq Q
        BY <1>1
      <3> HIDE DEF Q
      <3> QED
        BY <2>2, <3>1, MeetsMore, PlaceIs
    <2> QED
      BY <2>1, <2>2
  <1>3. Place(t, s, g) \in Q
    OBVIOUS
  <1> HIDE DEF Q
  <1> QED
    BY <1>2, <1>3 DEF Follows

(* A reader that follows is at its end, or one step on follows still.       *)
LEMMA FollowsOn ==
  ASSUME NEW t, NEW s, NEW g, NEW ix, Follows(t, s, g, ix)
  PROVE  /\ t \in Seq(Expected) /\ s \in Seq(Cells) /\ IsGot(g)
         /\ Inside(t) => Supports(ix) /\ g["id"] = InnerOf(ix).id
         /\ t = <<>> => s = <<>>
         /\ t # <<>> /\ Head(t).what = "payload" =>
              /\ HeaderRead(g, ix) /\ Tail(t) = <<>>
              /\ g["version"] = Version => Follows(Payload(g["id"]), s, g, ix)
         /\ t # <<>> /\ Head(t).what \in Marks \ {"payload"} =>
              Fits(Head(t).what, s, g, ix) /\ Follows(Tail(t), s, g, ix)
         /\ t # <<>> /\ Head(t).what \notin Marks =>
              LET x == Head(t)
                  v == Head(s).value
                  h == Noted(g, x.what, v)
              IN  /\ s # <<>> /\ Head(s) = Valued(x, v)
                  /\ Consequence(x, Tail(t), v, g, ix)
                  /\ Follows(Then(x.what, v, h) \o Tail(t), Tail(s), h, ix)
  <1>1. PICK P : Place(t, s, g) \in P /\ \A p \in P : Meets(p[1], p[2], p[3], ix, P)
    BY DEF Follows
  <1>2. Meets(t, s, g, ix, P)
    BY <1>1, PlaceIs
  <1>3. \A u, r, h : Place(u, r, h) \in P => Follows(u, r, h, ix)
    BY <1>1 DEF Follows
  <1> QED
    BY <1>2, <1>3 DEF Meets
-----------------------------------------------------------------------------
(* One item after the other.                                                *)

Branches ==
  {"vector_count", "indptr", "n_docs", "n_offsets", "n_terms", "nnz", "n_lists", "posting_width",
   "list_size", "scores_size", "section_len", "count", "map_size"}

LEMMA ThenNothing ==
  ASSUME NEW what, what \notin Branches, NEW v, NEW g
  PROVE  Then(what, v, g) = <<>>
  <1>1. VectorsNext(what, v, g) = <<>> /\ ClustersNext(what, v, g) = <<>>
    BY DEF VectorsNext, ClustersNext, Branches
  <1>2. ListsNext(what, v) = <<>> /\ PostingsNext(what, v, g) = <<>>
    BY DEF ListsNext, PostingsNext, Branches
  <1>3. DiskNext(what, v) = <<>> /\ IdMapNext(what, v) = <<>>
    BY DEF DiskNext, IdMapNext, Branches
  <1> QED
    BY <1>1, <1>2, <1>3 DEF Then

(* What an item may hold. *)
Suits(x, v) == v \in Values /\ (x.bytes = 0 => v = NoValue)

LEMMA ValuedIs ==
  ASSUME NEW x \in Expected, x.what \notin Marks, NEW v, Suits(x, v)
  PROVE  Valued(x, v) \in Cells /\ Valued(x, v).value = v
  BY DEF Valued, Cells, Expected, Suits

LEMMA NotedIs ==
  ASSUME NEW g, IsGot(g), NEW what, NEW v,
         what = "n_term" => v \in Nat, what = "summary_width" => v \in Nat \ {0}
  PROVE  /\ IsGot(Noted(g, what, v))
         /\ what \in Kept => Noted(g, what, v)[what] = v
         /\ \A w \in Kept : w # what => Noted(g, what, v)[w] = g[w]
  <1>1. "n_term" \in Kept /\ "summary_width" \in Kept
    BY DEF Kept
  <1> QED
    BY <1>1 DEF IsGot, Noted

LEMMA FollowsItem ==
  ASSUME NEW x \in Expected, x.what \notin Marks, NEW v, Suits(x, v),
         NEW t \in Seq(Expected), NEW s \in Seq(Cells), NEW g, IsGot(g), NEW ix,
         Inside(Cons(x, t)) => Supports(ix) /\ g["id"] = InnerOf(ix).id,
         Consequence(x, t, v, g, ix),
         Follows(Then(x.what, v, Noted(g, x.what, v)) \o t, s, Noted(g, x.what, v), ix)
  PROVE  Follows(Cons(x, t), Cons(Valued(x, v), s), g, ix)
  <1> DEFINE h == Noted(g, x.what, v)
             u == Then(x.what, v, h) \o t
             a == Cons(x, t)
             b == Cons(Valued(x, v), s)
  <1>1. a \in Seq(Expected) /\ a # <<>> /\ Head(a) = x /\ Tail(a) = t
    BY ConsIs
  <1>2. b \in Seq(Cells) /\ b # <<>> /\ Head(b) = Valued(x, v) /\ Tail(b) = s /\ Head(b).value = v
    <2>1. Valued(x, v) \in Cells /\ Valued(x, v).value = v
      BY ValuedIs
    <2> QED
      BY <2>1, ConsIs
  <1>3. "payload" \in Marks
    BY DEF Marks
  <1>4. Meets(a, b, g, ix, {Place(u, s, h)})
    <2> HIDE DEF a, b
    <2> QED
      BY <1>1, <1>2, <1>3 DEF Meets, a
  <1> HIDE DEF u, h
  <1> QED
    BY <1>4, FollowsBefore DEF u, h

LEMMA MarkIs ==
  ASSUME NEW what \in Marks
  PROVE  Mark(what) \in Expected /\ Mark(what).what = what /\ Mark(what).bytes = 0
  <1>1. what \notin ArrayPlaces \union ScalarPlaces \union {"indptr"}
    BY DEF Marks, ArrayPlaces, ScalarPlaces
  <1>2. Mark(what) = [what |-> what, bytes |-> 0, align |-> 1, array |-> FALSE]
    BY DEF Mark, Item
  <1> DEFINE x == [what |-> what, bytes |-> 0, align |-> 1, array |-> FALSE]
  <1>4. x \in Expected
    BY <1>1 DEF Expected
  <1> QED
    BY <1>2, <1>4

LEMMA FollowsMark ==
  ASSUME NEW what \in Marks \ {"payload"},
         NEW t \in Seq(Expected), NEW s \in Seq(Cells), NEW g, IsGot(g), NEW ix,
         Supports(ix), g["id"] = InnerOf(ix).id,
         Fits(what, s, g, ix), Follows(t, s, g, ix)
  PROVE  Follows(Cons(Mark(what), t), s, g, ix)
  <1> DEFINE x == Mark(what)
             a == Cons(x, t)
  <1>0. x \in Expected /\ x.what = what
    BY MarkIs
  <1>1. a \in Seq(Expected) /\ a # <<>> /\ Head(a) = x /\ Tail(a) = t
    BY <1>0, ConsIs
  <1>4. Meets(a, s, g, ix, {Place(t, s, g)})
    <2> HIDE DEF a, x
    <2> QED
      BY <1>0, <1>1 DEF Meets
  <1> QED
    BY <1>4, FollowsBefore

(* Where an index is, once its header has been accepted. *)
Within(g, ix) == IsGot(g) /\ Supports(ix) /\ g["id"] = InnerOf(ix).id

(* One sequence before the other, as one term for the provers. *)
Join(a, b) == a \o b

LEMMA JoinIs ==
  ASSUME NEW S, NEW a \in Seq(S), NEW b \in Seq(S)
  PROVE  Join(a, b) \in Seq(S) /\ Join(<<>>, b) = b /\ Join(a, <<>>) = a
  BY DEF Join

LEMMA JoinShifts ==
  ASSUME NEW S, NEW a \in Seq(S), NEW b \in Seq(S), NEW c \in Seq(S)
  PROVE  Join(Join(a, b), c) = Join(a, Join(b, c))
  BY JoinAssoc DEF Join

(* A reader within a payload. *)
Reads(t, s, g, ix) ==
  t \in Seq(Expected) /\ s \in Seq(Cells) /\ Inside(t) /\ Within(g, ix) /\ Follows(t, s, g, ix)

LEMMA InsideJoin ==
  ASSUME NEW x \in Expected, x.what \notin HeaderPlaces, NEW t \in Seq(Expected), Inside(t)
  PROVE  Inside(Cons(x, t))
  <1>1. Cons(x, t) \in Seq(Expected) /\ Len(Cons(x, t)) = Len(t) + 1 /\ Cons(x, t)[1] = x
        /\ \A i \in 1 .. Len(t) : Cons(x, t)[i + 1] = t[i]
    BY DEF Cons
  <1>2. ASSUME NEW i \in 1 .. Len(t) + 1 PROVE Cons(x, t)[i].what \notin HeaderPlaces
    <2>1. i = 1 \/ (i - 1 \in 1 .. Len(t) /\ (i - 1) + 1 = i)
      OBVIOUS
    <2>2. \A j \in 1 .. Len(t) : t[j].what \notin HeaderPlaces
      BY DEF Inside
    <2>3. CASE i = 1
      BY <1>1, <2>3
    <2>4. CASE i - 1 \in 1 .. Len(t) /\ (i - 1) + 1 = i
      BY <1>1, <2>2, <2>4
    <2> QED
      BY <2>1, <2>3, <2>4
  <1>3. DOMAIN Cons(x, t) = 1 .. Len(t) + 1
    BY <1>1
  <1> QED
    BY <1>2, <1>3 DEF Inside

LEMMA ReadsItem ==
  ASSUME NEW x \in Expected, x.what \notin Marks \union HeaderPlaces, NEW v, Suits(x, v),
         NEW t \in Seq(Expected), NEW s \in Seq(Cells), NEW g, NEW ix,
         Within(g, ix), Inside(t), g["id"] = "INVT" => PostingsAhead(x, t, v, g),
         Follows(Join(Then(x.what, v, Noted(g, x.what, v)), t), s, Noted(g, x.what, v), ix)
  PROVE  Reads(Cons(x, t), Cons(Valued(x, v), s), g, ix)
  <1>1. Consequence(x, t, v, g, ix)
    BY DEF Consequence, HeaderPlaces
  <1>2. Follows(Cons(x, t), Cons(Valued(x, v), s), g, ix)
    BY <1>1, FollowsItem DEF Within, Join
  <1>3. Valued(x, v) \in Cells
    BY ValuedIs
  <1>4. Cons(x, t) \in Seq(Expected) /\ Cons(Valued(x, v), s) \in Seq(Cells)
    BY <1>3, ConsIs
  <1> QED
    BY <1>2, <1>4, InsideJoin DEF Reads

LEMMA ReadsMark ==
  ASSUME NEW what \in Marks \ {"payload"}, NEW t, NEW s, NEW g, NEW ix,
         Reads(t, s, g, ix), Fits(what, s, g, ix)
  PROVE  Reads(Cons(Mark(what), t), s, g, ix)
  <1>1. Mark(what) \in Expected /\ Mark(what).what = what
    BY MarkIs
  <1>2. t \in Seq(Expected) /\ s \in Seq(Cells) /\ Inside(t) /\ Within(g, ix) /\ Follows(t, s, g, ix)
    BY DEF Reads
  <1>3. what \notin HeaderPlaces
    BY DEF Marks, HeaderPlaces
  <1>4. Inside(Cons(Mark(what), t))
    BY <1>1, <1>2, <1>3, InsideJoin
  <1>5. Follows(Cons(Mark(what), t), s, g, ix)
    BY <1>2, FollowsMark DEF Within
  <1>6. Cons(Mark(what), t) \in Seq(Expected)
    BY <1>1, <1>2, ConsIs
  <1> QED
    BY <1>2, <1>4, <1>5, <1>6 DEF Reads

(* The items there are. *)
LEMMA ScalarIs ==
  ASSUME NEW what \in ScalarPlaces, NEW bytes \in Nat \ {0}
  PROVE  /\ Scalar(what, bytes) \in Expected /\ PaddedScalar(what, bytes) \in Expected
         /\ Scalar(what, bytes).what = what /\ PaddedScalar(what, bytes).what = what
         /\ what \notin Marks /\ what \notin ArrayPlaces
  <1>1. what \notin Marks /\ what \notin ArrayPlaces
    BY DEF Marks, ArrayPlaces, ScalarPlaces
  <1>2. ASSUME NEW align \in {1, 8}
        PROVE  [what |-> what, bytes |-> bytes, align |-> align, array |-> FALSE] \in Expected
    <2> DEFINE x == [what |-> what, bytes |-> bytes, align |-> align, array |-> FALSE]
    <2> QED
      BY <1>1 DEF Expected
  <1>3. /\ Scalar(what, bytes) = [what |-> what, bytes |-> bytes, align |-> 1, array |-> FALSE]
        /\ PaddedScalar(what, bytes) = [what |-> what, bytes |-> bytes, align |-> 8, array |-> FALSE]
    BY DEF Scalar, PaddedScalar, Item
  <1> QED
    BY <1>1, <1>2, <1>3

LEMMA ArrayIs ==
  ASSUME NEW what \in ArrayPlaces, NEW count \in Nat, NEW width \in Nat, NEW align \in Nat \ {0},
         what = "indptr" => count * width > 0
  PROVE  /\ Array(what, count, width, align) \in Expected
         /\ Array(what, count, width, align).what = what
         /\ what \notin Marks /\ what \notin ScalarPlaces
  <1>1. what \notin Marks /\ what \notin ScalarPlaces
    BY DEF Marks, ArrayPlaces, ScalarPlaces
  <1>2. count * width \in Nat
    OBVIOUS
  <1> QED
    BY <1>1, <1>2 DEF Array, Item, Expected

LEMMA NotedSame ==
  ASSUME NEW g, IsGot(g), NEW what, what \notin Kept, NEW v
  PROVE  Noted(g, what, v) = g
  BY DEF IsGot, Noted

Plain == (ScalarPlaces \union ArrayPlaces) \ (HeaderPlaces \union Branches \union Kept)

(* An item nothing depends on. *)
LEMMA ReadsPlain ==
  ASSUME NEW x \in Expected, x.what \in Plain, NEW v, Suits(x, v), NEW t, NEW s, NEW g, NEW ix,
         Reads(t, s, g, ix), g["id"] = "INVT" => x.what \in ArrayPlaces
  PROVE  Reads(Cons(x, t), Cons(Valued(x, v), s), g, ix)
  <1>1. t \in Seq(Expected) /\ s \in Seq(Cells) /\ Inside(t) /\ Within(g, ix) /\ Follows(t, s, g, ix)
    BY DEF Reads
  <1>2. x.what \notin Marks \union HeaderPlaces \union Branches \union Kept
    BY DEF Plain, ScalarPlaces, ArrayPlaces, Marks
  <1>3. Noted(g, x.what, v) = g
    BY <1>1, <1>2, NotedSame DEF Within
  <1>4. Join(Then(x.what, v, g), t) = t
    BY <1>1, <1>2, ThenNothing, JoinIs
  <1>5. x.what \in ArrayPlaces => PostingsAhead(x, t, v, g)
    BY DEF PostingsAhead, ArrayPlaces
  <1> QED
    BY <1>1, <1>2, <1>3, <1>4, <1>5, ReadsItem

LEMMA ReadsScalar ==
  ASSUME NEW what \in Plain \ ArrayPlaces, NEW bytes \in Nat \ {0}, NEW v \in Int,
         NEW t, NEW s, NEW g, NEW ix, Reads(t, s, g, ix), g["id"] # "INVT"
  PROVE  Reads(Cons(Scalar(what, bytes), t), Join(WriteScalar(what, bytes, v), s), g, ix)
  <1>1. what \in ScalarPlaces
    BY DEF Plain
  <1>2. Scalar(what, bytes) \in Expected /\ Scalar(what, bytes).what = what
        /\ Scalar(what, bytes).bytes = bytes
    BY <1>1, ScalarIs DEF Scalar, Item
  <1>3. Suits(Scalar(what, bytes), v)
    BY <1>2 DEF Suits, Values
  <1>4. Join(WriteScalar(what, bytes, v), s) = Cons(Valued(Scalar(what, bytes), v), s)
    BY DEF WriteScalar, Cons, Join
  <1> QED
    BY <1>2, <1>3, <1>4, ReadsPlain

LEMMA ReadsArray ==
  ASSUME NEW what \in ArrayPlaces \ {"indptr", "id_map"}, NEW count \in Nat, NEW width \in Nat \ {0},
         NEW align \in Nat \ {0}, NEW value \in Values,
         NEW t, NEW s, NEW g, NEW ix, Reads(t, s, g, ix)
  PROVE  Reads(Cons(Array(what, count, width, align), t), Join(WriteArray(what, count, width, align, value), s),
               g, ix)
  <1> DEFINE x == Array(what, count, width, align)
             v == IF count = 0 THEN NoValue ELSE value
  <1>1. what \in Plain
    BY DEF Plain, ArrayPlaces, HeaderPlaces, Branches, Kept
  <1>2. x \in Expected /\ x.what = what /\ x.bytes = count * width
    BY ArrayIs DEF Array, Item
  <1>3. count # 0 => count * width # 0
    OBVIOUS
  <1>4. Suits(x, v)
    BY <1>2, <1>3 DEF Suits, Values
  <1>5. Join(WriteArray(what, count, width, align, value), s) = Cons(Valued(x, v), s)
    BY DEF WriteArray, Cons, Join
  <1> HIDE DEF x, v
  <1>6. Reads(Cons(x, t), Cons(Valued(x, v), s), g, ix)
    BY <1>1, <1>2, <1>4, ReadsPlain
  <1> QED
    BY <1>5, <1>6 DEF x

(* A scalar that is kept, or decides what comes next. *)
LEMMA ReadsKept ==
  ASSUME NEW what \in ScalarPlaces \ HeaderPlaces, NEW bytes \in Nat \ {0}, NEW v \in Int,
         NEW t \in Seq(Expected), NEW s \in Seq(Cells), NEW g, NEW ix, Within(g, ix), Inside(t),
         g["id"] = "INVT" => PostingsAhead(Scalar(what, bytes), t, v, g),
         Follows(Join(Then(what, v, Noted(g, what, v)), t), s, Noted(g, what, v), ix)
  PROVE  Reads(Cons(Scalar(what, bytes), t), Join(WriteScalar(what, bytes, v), s), g, ix)
  <1>2. Scalar(what, bytes) \in Expected /\ Scalar(what, bytes).what = what
        /\ Scalar(what, bytes).bytes = bytes /\ what \notin Marks
    BY ScalarIs DEF Scalar, Item
  <1>3. Suits(Scalar(what, bytes), v)
    BY <1>2 DEF Suits, Values
  <1>4. Join(WriteScalar(what, bytes, v), s) = Cons(Valued(Scalar(what, bytes), v), s)
    BY DEF WriteScalar, Cons, Join
  <1> QED
    BY <1>2, <1>3, <1>4, ReadsItem

-----------------------------------------------------------------------------
(* A corpus and clustered lists.                                            *)

Two(a, b)      == <<a, b>>
Three(a, b, c) == <<a, b, c>>

LEMMA JoinedPair ==
  ASSUME NEW X, NEW a \in X, NEW b \in X, NEW s \in Seq(X)
  PROVE  Two(a, b) \in Seq(X) /\ Join(Two(a, b), s) = Cons(a, Cons(b, s)) /\ Cons(b, s) \in Seq(X)
  <1>1. (<<a, b>> \o s) \in Seq(X) /\ <<a>> \o (<<b>> \o s) \in Seq(X)
    OBVIOUS
  <1>2. Len(<<a, b>> \o s) = Len(<<a>> \o (<<b>> \o s))
    OBVIOUS
  <1>3. \A i \in 1 .. Len(<<a, b>> \o s) : (<<a, b>> \o s)[i] = (<<a>> \o (<<b>> \o s))[i]
    OBVIOUS
  <1>4. ASSUME NEW p, NEW r, p \in Seq(X), r \in Seq(X), Len(p) = Len(r), \A i \in 1 .. Len(p) : p[i] = r[i]
        PROVE  p = r
    BY <1>4
  <1>5. <<a, b>> \in Seq(X) /\ <<b>> \o s \in Seq(X)
    OBVIOUS
  <1> QED
    BY <1>1, <1>2, <1>3, <1>4, <1>5 DEF Cons, Join, Two

LEMMA JoinedThree ==
  ASSUME NEW X, NEW a \in X, NEW b \in X, NEW c \in X, NEW s \in Seq(X)
  PROVE  Three(a, b, c) \in Seq(X) /\ Join(Three(a, b, c), s) = Cons(a, Cons(b, Cons(c, s)))
  <1>1. (<<a, b, c>> \o s) \in Seq(X) /\ <<a>> \o (<<b>> \o (<<c>> \o s)) \in Seq(X)
    OBVIOUS
  <1>2. Len(<<a, b, c>> \o s) = Len(<<a>> \o (<<b>> \o (<<c>> \o s)))
    OBVIOUS
  <1>3. \A i \in 1 .. Len(<<a, b, c>> \o s) : (<<a, b, c>> \o s)[i] = (<<a>> \o (<<b>> \o (<<c>> \o s)))[i]
    OBVIOUS
  <1>4. ASSUME NEW p, NEW r, p \in Seq(X), r \in Seq(X), Len(p) = Len(r), \A i \in 1 .. Len(p) : p[i] = r[i]
        PROVE  p = r
    BY <1>4
  <1>5. <<a, b, c>> \in Seq(X)
    OBVIOUS
  <1> QED
    BY <1>1, <1>2, <1>3, <1>4, <1>5 DEF Cons, Join, Three

(* What follows these is for the clustered lists, or for the corpus.        *)
LEMMA ThenClusters ==
  ASSUME NEW what \in {"n_docs", "n_offsets", "n_terms", "nnz"}, NEW v, NEW g,
         NEW X, ClustersNext(what, v, g) \in Seq(X)
  PROVE  Then(what, v, g) = ClustersNext(what, v, g)
  <1>1. VectorsNext(what, v, g) = <<>> /\ ListsNext(what, v) = <<>> /\ PostingsNext(what, v, g) = <<>>
        /\ DiskNext(what, v) = <<>> /\ IdMapNext(what, v) = <<>>
    BY DEF VectorsNext, ListsNext, PostingsNext, DiskNext, IdMapNext
  <1> QED
    BY <1>1 DEF Then

LEMMA ThenVectors ==
  ASSUME NEW what \in {"vector_count", "indptr"}, NEW v, NEW g, NEW X, VectorsNext(what, v, g) \in Seq(X)
  PROVE  Then(what, v, g) = VectorsNext(what, v, g)
  <1>1. ClustersNext(what, v, g) = <<>> /\ ListsNext(what, v) = <<>> /\ PostingsNext(what, v, g) = <<>>
        /\ DiskNext(what, v) = <<>> /\ IdMapNext(what, v) = <<>>
    BY DEF ClustersNext, ListsNext, PostingsNext, DiskNext, IdMapNext
  <1> QED
    BY <1>1 DEF Then
(* Joined from the left, taken apart from the left. *)
LEMMA Regrouped ==
  ASSUME NEW X, NEW a \in Seq(X), NEW b \in Seq(X), NEW c \in Seq(X), NEW s \in Seq(X)
  PROVE  Join(Join(Join(a, b), c), s) = Join(a, Join(b, Join(c, s))) /\ Join(Join(a, b), c) \in Seq(X)
  <1>1. Join(a, b) \in Seq(X) /\ Join(c, s) \in Seq(X)
    BY JoinIs
  <1>2. Join(Join(a, b), c) \in Seq(X)
    BY <1>1, JoinIs
  <1>3. Join(Join(Join(a, b), c), s) = Join(Join(a, b), Join(c, s))
    BY <1>1, JoinShifts
  <1>4. Join(Join(a, b), Join(c, s)) = Join(a, Join(b, Join(c, s)))
    BY <1>1, JoinShifts
  <1> QED
    BY <1>2, <1>3, <1>4

LEMMA RegroupedFive ==
  ASSUME NEW X, NEW a \in Seq(X), NEW b \in Seq(X), NEW c \in Seq(X), NEW d \in Seq(X), NEW e \in Seq(X),
         NEW s \in Seq(X)
  PROVE  /\ Join(Join(Join(Join(Join(a, b), c), d), e), s) = Join(a, Join(b, Join(c, Join(d, Join(e, s)))))
         /\ Join(Join(Join(Join(a, b), c), d), e) \in Seq(X)
  <1> DEFINE p == Join(Join(a, b), c)
             q == Join(d, Join(e, s))
  <1>1. Join(e, s) \in Seq(X)
    BY JoinIs
  <1>2. q \in Seq(X)
    BY <1>1, JoinIs
  <1> HIDE DEF q
  <1>3. Join(p, q) = Join(a, Join(b, Join(c, q))) /\ p \in Seq(X)
    BY <1>2, Regrouped
  <1> HIDE DEF p
  <1>4. Join(Join(Join(p, d), e), s) = Join(p, q) /\ Join(Join(p, d), e) \in Seq(X)
    BY <1>3, Regrouped DEF q
  <1> QED
    BY <1>3, <1>4 DEF p, q

LEMMA ScalarWritten ==
  ASSUME NEW what \in ScalarPlaces, NEW bytes \in Nat \ {0}, NEW v \in Values
  PROVE  WriteScalar(what, bytes, v) \in Seq(Cells)
  <1>1. Scalar(what, bytes) \in Expected /\ Scalar(what, bytes).what = what
        /\ Scalar(what, bytes).bytes = bytes /\ what \notin Marks
    BY ScalarIs DEF Scalar, Item
  <1>2. Valued(Scalar(what, bytes), v) \in Cells
    BY <1>1, ValuedIs DEF Suits
  <1> QED
    BY <1>2 DEF WriteScalar

LEMMA ArrayWritten ==
  ASSUME NEW what \in ArrayPlaces, NEW count \in Nat, NEW width \in Nat \ {0}, NEW align \in Nat \ {0},
         NEW value \in Values
  PROVE  WriteArray(what, count, width, align, value) \in Seq(Cells)
  <1> DEFINE x == Array(what, count, width, align)
             v == IF count = 0 THEN NoValue ELSE value
  <1>1. x = [what |-> what, bytes |-> count * width, align |-> align, array |-> TRUE]
    BY DEF Array, Item
  <1>2. count * width \in Nat /\ (count # 0 => count * width # 0)
    OBVIOUS
  <1>3. v \in Values
    BY DEF Values
  <1> HIDE DEF v
  <1>4. Valued(x, v) = [what |-> what, bytes |-> count * width, align |-> align, array |-> TRUE, value |-> v]
    BY <1>1 DEF Valued
  <1>5. count * width = 0 => v = NoValue
    BY <1>2 DEF v
  <1>6. Valued(x, v) \in Cells
    BY <1>2, <1>3, <1>4, <1>5 DEF Cells
  <1> QED
    BY <1>6 DEF WriteArray, v

(* After a corpus. *)
CorpusRead(g, count, width) ==
  LET h == Noted(g, "vector_count", count)
  IN  IF count = 0 THEN h ELSE Noted(h, "element_size", width)

LEMMA WithinNoted ==
  ASSUME NEW g, NEW ix, Within(g, ix), NEW what, NEW v,
         what = "n_term" => v \in Nat, what = "summary_width" => v \in Nat \ {0},
         what # "id" \/ v = g["id"]
  PROVE  /\ Within(Noted(g, what, v), ix) /\ Noted(g, what, v)["id"] = g["id"]
         /\ what \in Kept => Noted(g, what, v)[what] = v
         /\ \A w \in Kept : w # what => Noted(g, what, v)[w] = g[w]
  <1>1. "id" \in Kept
    BY DEF Kept
  <1>2. /\ IsGot(Noted(g, what, v))
        /\ what \in Kept => Noted(g, what, v)[what] = v
        /\ \A w \in Kept : w # what => Noted(g, what, v)[w] = g[w]
    BY NotedIs DEF Within
  <1> QED
    BY <1>1, <1>2 DEF Within

LEMMA VectorsFollow ==
  ASSUME NEW count \in Nat, NEW nnz \in Nat, NEW width \in Nat \ {0}, NEW dim \in Nat,
         NEW T, NEW S, NEW g, NEW ix, Within(g, ix), g["id"] # "INVT",
         Reads(T, S, CorpusRead(g, count, width), ix)
  PROVE  Reads(Cons(Scalar("vector_count", 8), T), Join(Vectors(count, nnz, width, dim), S), g, ix)
  <1> DEFINE h1 == Noted(g, "vector_count", count)
             h2 == Noted(h1, "element_size", width)
             s7 == Join(WriteArray("values", nnz * width, 1, width, "values"), S)
             s6 == Join(WriteArray("indices", nnz, 2, 2, "indices"), s7)
             s5 == Join(WriteArray("indptr", count + 1, 8, 8, nnz), s6)
             s4 == Join(WriteScalar("element_size", 8, width), s5)
             s3 == Join(WriteScalar("dimension", 8, dim), s4)
             t7 == Cons(Array("values", nnz * width, 1, width), T)
             t6 == Cons(Array("indices", nnz, 2, 2), t7)
             t5 == Cons(Array("indptr", count + 1, 8, 8), T)
             t4 == Cons(Scalar("element_size", 8), t5)
             t3 == Cons(Scalar("dimension", 8), t4)
  <1>1. Within(h1, ix) /\ h1["id"] # "INVT" /\ h1["vector_count"] = count
    <2>1. "vector_count" \in Kept
      BY DEF Kept
    <2> QED
      BY <2>1, WithinNoted
  <1>2. Within(h2, ix) /\ h2["id"] # "INVT" /\ h2["element_size"] = width
    <2>1. "element_size" \in Kept
      BY DEF Kept
    <2> HIDE DEF h1
    <2> QED
      BY <1>1, <2>1, WithinNoted
  <1>3. T \in Seq(Expected) /\ S \in Seq(Cells) /\ Inside(T)
    BY DEF Reads
  <1> HIDE DEF h1, h2
  <1>4. ASSUME count # 0
        PROVE  Reads(t3, s3, h1, ix)
    <2>1. Reads(T, S, h2, ix)
      BY <1>4 DEF CorpusRead, h1, h2
    <2>2. "values" \in ArrayPlaces \ {"indptr", "id_map"} /\ "indices" \in ArrayPlaces \ {"indptr", "id_map"}
          /\ "indptr" \in ArrayPlaces /\ "indptr" \notin HeaderPlaces /\ "indptr" \notin Kept
      BY DEF ArrayPlaces, HeaderPlaces, Kept
    <2>3. "values" \in Values /\ "indices" \in Values /\ nnz \in Values /\ nnz * width \in Nat
          /\ 1 \in Nat \ {0} /\ 2 \in Nat \ {0}
      BY DEF Values, ArrayPlaces
    <2>4. Reads(t7, s7, h2, ix)
      BY <2>1, <2>2, <2>3, ReadsArray
    <2> HIDE DEF t7, s7
    <2>5. Reads(t6, s6, h2, ix)
      BY <2>2, <2>3, <2>4, ReadsArray
    <2>6. Reads(t5, s5, h2, ix)
      <3> DEFINE x == Array("indptr", count + 1, 8, 8)
      <3>1. count + 1 \in Nat /\ (count + 1) * 8 > 0 /\ count + 1 # 0 /\ 8 \in Nat \ {0}
        OBVIOUS
      <3>2. x \in Expected /\ x.what = "indptr" /\ x.bytes = (count + 1) * 8 /\ "indptr" \notin Marks
        BY <3>1, <2>2, ArrayIs DEF Array, Item
      <3>3. Suits(x, nnz)
        BY <2>3, <3>1, <3>2 DEF Suits
      <3>4. s5 = Cons(Valued(x, nnz), s6)
        BY <3>1 DEF WriteArray, Cons, Join
      <3>5. Noted(h2, "indptr", nnz) = h2
        BY <1>2, <2>2, NotedSame DEF Within
      <3>6. VectorsNext("indptr", nnz, h2) = Two(Array("indices", nnz, 2, 2), Array("values", nnz * width, 1, width))
        BY <1>2 DEF VectorsNext, Two
      <3>7. Array("indices", nnz, 2, 2) \in Expected /\ Array("values", nnz * width, 1, width) \in Expected
        BY <2>2, <2>3, ArrayIs
      <3>8. VectorsNext("indptr", nnz, h2) \in Seq(Expected) /\ Join(VectorsNext("indptr", nnz, h2), T) = t6
        BY <1>3, <3>6, <3>7, JoinedPair DEF t7
      <3>9. Join(Then("indptr", nnz, h2), T) = t6
        BY <3>8, ThenVectors
      <3>10. s6 \in Seq(Cells) /\ Follows(t6, s6, h2, ix)
        BY <2>5 DEF Reads
      <3> HIDE DEF x, s6, t6
      <3>11. Reads(Cons(x, T), Cons(Valued(x, nnz), s6), h2, ix)
        BY <1>2, <1>3, <2>2, <3>2, <3>3, <3>5, <3>9, <3>10, ReadsItem
      <3> QED
        BY <3>4, <3>11 DEF x
    <2> HIDE DEF t5, s5
    <2>7. Reads(t4, s4, h1, ix)
      <3>1. "element_size" \in ScalarPlaces \ HeaderPlaces /\ "element_size" \notin Branches
        BY DEF ScalarPlaces, HeaderPlaces, Branches
      <3>2. t5 \in Seq(Expected) /\ s5 \in Seq(Cells) /\ Inside(t5) /\ Follows(t5, s5, h2, ix)
        BY <2>6 DEF Reads
      <3>3. Join(Then("element_size", width, h2), t5) = t5
        BY <3>1, <3>2, ThenNothing, JoinIs
      <3> QED
        BY <1>1, <3>1, <3>2, <3>3, ReadsKept DEF h2
    <2> HIDE DEF t4, s4
    <2>8. "dimension" \in Plain \ ArrayPlaces
      BY DEF Plain, ScalarPlaces, ArrayPlaces, HeaderPlaces, Branches, Kept
    <2> QED
      BY <1>1, <2>7, <2>8, ReadsScalar
  <1> HIDE DEF t3, s3
  <1>5. "vector_count" \in ScalarPlaces \ HeaderPlaces
    BY DEF ScalarPlaces, HeaderPlaces
  <1>6. CASE count = 0
    <2>1. Vectors(count, nnz, width, dim) = WriteScalar("vector_count", 8, count)
      BY <1>6 DEF Vectors, WriteScalar
    <2>2. VectorsNext("vector_count", count, h1) = <<>> /\ VectorsNext("vector_count", count, h1) \in Seq(Expected)
      BY <1>6 DEF VectorsNext
    <2>3. Join(Then("vector_count", count, h1), T) = T
      BY <2>2, <1>3, ThenVectors, JoinIs
    <2>4. Follows(T, S, h1, ix)
      BY <1>6 DEF CorpusRead, h1, Reads
    <2> QED
      BY <1>3, <1>5, <2>1, <2>3, <2>4, ReadsKept DEF h1
  <1>7. CASE count # 0
    <2>1. Scalar("dimension", 8) \in Expected /\ Scalar("element_size", 8) \in Expected
          /\ Array("indptr", count + 1, 8, 8) \in Expected
      <3>1. "dimension" \in ScalarPlaces /\ "element_size" \in ScalarPlaces /\ "indptr" \in ArrayPlaces
        BY DEF ScalarPlaces, ArrayPlaces
      <3>2. (count + 1) * 8 > 0
        OBVIOUS
      <3> QED
        BY <3>1, <3>2, ScalarIs, ArrayIs
    <2>2. VectorsNext("vector_count", count, h1)
            = Three(Scalar("dimension", 8), Scalar("element_size", 8), Array("indptr", count + 1, 8, 8))
      BY <1>7 DEF VectorsNext, Three
    <2>3. VectorsNext("vector_count", count, h1) \in Seq(Expected)
          /\ Join(VectorsNext("vector_count", count, h1), T) = t3
      BY <1>3, <2>1, <2>2, JoinedThree DEF t3
    <2>4. Join(Then("vector_count", count, h1), T) = t3
      BY <2>3, ThenVectors
    <2>5. t3 \in Seq(Expected) /\ s3 \in Seq(Cells) /\ Follows(t3, s3, h1, ix)
      BY <1>4, <1>7 DEF Reads
    <2>6. Join(Vectors(count, nnz, width, dim), S) = Join(WriteScalar("vector_count", 8, count), s3)
      <3> DEFINE a == WriteScalar("dimension", 8, dim)
                 b == WriteScalar("element_size", 8, width)
                 c == WriteArray("indptr", count + 1, 8, 8, nnz)
                 d == WriteArray("indices", nnz, 2, 2, "indices")
                 e == WriteArray("values", nnz * width, 1, width, "values")
                 u == WriteScalar("vector_count", 8, count)
      <3>1. a \in Seq(Cells) /\ b \in Seq(Cells) /\ u \in Seq(Cells)
        <4>1. "dimension" \in ScalarPlaces /\ "element_size" \in ScalarPlaces /\ "vector_count" \in ScalarPlaces
          BY DEF ScalarPlaces
        <4>2. dim \in Values /\ width \in Values /\ count \in Values
          BY DEF Values
        <4>3. 8 \in Nat \ {0}
          OBVIOUS
        <4> QED
          BY <4>1, <4>2, <4>3, ScalarWritten
      <3>2. c \in Seq(Cells) /\ d \in Seq(Cells) /\ e \in Seq(Cells)
        <4>1. "indptr" \in ArrayPlaces /\ "indices" \in ArrayPlaces /\ "values" \in ArrayPlaces
          BY DEF ArrayPlaces
        <4>2. nnz \in Values /\ "indices" \in Values /\ "values" \in Values /\ nnz * width \in Nat
              /\ count + 1 \in Nat
          BY DEF Values, ArrayPlaces
        <4>3. 8 \in Nat \ {0} /\ 2 \in Nat \ {0} /\ 1 \in Nat \ {0}
          OBVIOUS
        <4>4. c \in Seq(Cells)
          BY <4>1, <4>2, <4>3, ArrayWritten
        <4>5. d \in Seq(Cells)
          BY <4>1, <4>2, <4>3, ArrayWritten
        <4>6. e \in Seq(Cells)
          BY <4>1, <4>2, <4>3, ArrayWritten
        <4> QED
          BY <4>4, <4>5, <4>6
      <3>3. Vectors(count, nnz, width, dim) = Join(u, Join(Join(Join(Join(a, b), c), d), e))
        BY <1>7 DEF Vectors, Join
      <3>4. s3 = Join(a, Join(b, Join(c, Join(d, Join(e, S)))))
        BY DEF s3, s4, s5, s7
      <3> HIDE DEF a, b, c, d, e, u
      <3> DEFINE q == Join(Join(Join(Join(a, b), c), d), e)
      <3>5. q \in Seq(Cells) /\ Join(q, S) = Join(a, Join(b, Join(c, Join(d, Join(e, S)))))
        BY <1>3, <3>1, <3>2, RegroupedFive
      <3> HIDE DEF q
      <3>6. Join(Join(u, q), S) = Join(u, Join(q, S))
        BY <1>3, <3>1, <3>5, JoinShifts
      <3> QED
        BY <3>3, <3>4, <3>5, <3>6 DEF u, q
    <2> QED
      BY <1>3, <1>5, <2>4, <2>5, <2>6, ReadsKept DEF h1
  <1> QED
    BY <1>6, <1>7

(* A scalar that decides what comes next, though it is not kept. *)
LEMMA ReadsBranch ==
  ASSUME NEW what \in ScalarPlaces \ (HeaderPlaces \union Kept), NEW bytes \in Nat \ {0}, NEW v \in Int,
         NEW t \in Seq(Expected), Inside(t), NEW u, NEW s, NEW g, NEW ix, g["id"] # "INVT",
         Join(Then(what, v, g), t) = u, Reads(u, s, g, ix)
  PROVE  Reads(Cons(Scalar(what, bytes), t), Join(WriteScalar(what, bytes, v), s), g, ix)
  <1>1. s \in Seq(Cells) /\ Within(g, ix) /\ Follows(u, s, g, ix)
    BY DEF Reads
  <1>2. Noted(g, what, v) = g
    BY <1>1, NotedSame DEF Within
  <1> QED
    BY <1>1, <1>2, ReadsKept

LEMMA JoinedOne ==
  ASSUME NEW X, NEW a \in X, NEW s \in Seq(X)
  PROVE  <<a>> \in Seq(X) /\ Join(<<a>>, s) = Cons(a, s) /\ Cons(a, s) \in Seq(X)
  BY ConsIs DEF Cons, Join

LEMMA Shorts ==
  ASSUME NEW X, NEW a \in X, NEW b \in X
  PROVE  <<a>> = Cons(a, <<>>) /\ Two(a, b) = Cons(a, Cons(b, <<>>))
  <1>1. <<a, b>> \in Seq(X) /\ <<a>> \o (<<b>> \o <<>>) \in Seq(X)
    OBVIOUS
  <1>2. Len(<<a, b>>) = Len(<<a>> \o (<<b>> \o <<>>))
    OBVIOUS
  <1>3. \A i \in 1 .. Len(<<a, b>>) : <<a, b>>[i] = (<<a>> \o (<<b>> \o <<>>))[i]
    OBVIOUS
  <1>4. ASSUME NEW p, NEW r, p \in Seq(X), r \in Seq(X), Len(p) = Len(r), \A i \in 1 .. Len(p) : p[i] = r[i]
        PROVE  p = r
    BY <1>4
  <1>5. <<a>> = Cons(a, <<>>)
    BY DEF Cons
  <1> QED
    BY <1>1, <1>2, <1>3, <1>4, <1>5 DEF Cons, Two

Four(a, b, c, d) == <<a, b, c, d>>

LEMMA JoinedFour ==
  ASSUME NEW X, NEW a \in X, NEW b \in X, NEW c \in X, NEW d \in X, NEW s \in Seq(X)
  PROVE  Four(a, b, c, d) \in Seq(X) /\ Join(Four(a, b, c, d), s) = Cons(a, Cons(b, Cons(c, Cons(d, s))))
  <1>1. (<<a, b, c, d>> \o s) \in Seq(X) /\ <<a>> \o (<<b>> \o (<<c>> \o (<<d>> \o s))) \in Seq(X)
    OBVIOUS
  <1>2. Len(<<a, b, c, d>> \o s) = Len(<<a>> \o (<<b>> \o (<<c>> \o (<<d>> \o s))))
    OBVIOUS
  <1>3. \A i \in 1 .. Len(<<a, b, c, d>> \o s) :
          (<<a, b, c, d>> \o s)[i] = (<<a>> \o (<<b>> \o (<<c>> \o (<<d>> \o s))))[i]
    OBVIOUS
  <1>4. ASSUME NEW p, NEW r, p \in Seq(X), r \in Seq(X), Len(p) = Len(r), \A i \in 1 .. Len(p) : p[i] = r[i]
        PROVE  p = r
    BY <1>4
  <1>5. <<a, b, c, d>> \in Seq(X)
    OBVIOUS
  <1> QED
    BY <1>1, <1>2, <1>3, <1>4, <1>5 DEF Cons, Join, Four

LEMMA Sizes == \A n \in {1, 2, 4, 8, 12} : n \in Nat \ {0}
  OBVIOUS

(* The items of clustered lists. *)
LEMMA ClusterItems ==
  /\ \A what \in {"n_lists", "n_docs", "n_offsets", "n_clusters", "summary_width", "n_terms", "nnz"} :
       what \in ScalarPlaces \ HeaderPlaces /\ Scalar(what, 8) \in Expected
  /\ \A what \in {"n_lists", "n_docs", "n_offsets", "n_terms", "nnz"} :
       what \in ScalarPlaces \ (HeaderPlaces \union Kept)
  /\ "n_clusters" \in Plain \ ArrayPlaces
  /\ \A what \in {"docs", "offsets", "term_ids", "term_ptr", "csc_cluster", "csc_value"} :
       what \in ArrayPlaces \ {"indptr", "id_map"} /\ what \in Values
  /\ Nat \subseteq Values /\ Nat \subseteq Int
  <1>1. ASSUME NEW what \in {"n_lists", "n_docs", "n_offsets", "n_clusters", "summary_width", "n_terms", "nnz"}
        PROVE  what \in ScalarPlaces \ HeaderPlaces /\ Scalar(what, 8) \in Expected
    <2>1. what \in ScalarPlaces \ HeaderPlaces
      BY DEF ScalarPlaces, HeaderPlaces
    <2> QED
      BY <2>1, ScalarIs, Sizes
  <1>2. \A what \in {"n_lists", "n_docs", "n_offsets", "n_terms", "nnz"} :
          what \in ScalarPlaces \ (HeaderPlaces \union Kept)
    BY DEF ScalarPlaces, HeaderPlaces, Kept
  <1>3. "n_clusters" \in Plain \ ArrayPlaces
    BY DEF Plain, ScalarPlaces, ArrayPlaces, HeaderPlaces, Branches, Kept
  <1>4. \A what \in {"docs", "offsets", "term_ids", "term_ptr", "csc_cluster", "csc_value"} :
          what \in ArrayPlaces \ {"indptr", "id_map"} /\ what \in Values
    BY DEF ArrayPlaces, Values
  <1>5. Nat \subseteq Values /\ Nat \subseteq Int
    BY DEF Values
  <1> QED
    BY <1>1, <1>2, <1>3, <1>4, <1>5

(* How wide the summaries of a list are. *)
SummaryWidth(l, width) == IF l.clusters = 0 THEN 4 ELSE width

ListSizes == [docs : Nat, clusters : Nat, terms : Nat, nnz : Nat]

LEMMA SummariesFollow ==
  ASSUME NEW l \in ListSizes, NEW width \in Nat \ {0}, NEW T, NEW S, NEW g, NEW ix,
         Within(g, ix), g["id"] # "INVT",
         Reads(T, S, Noted(g, "summary_width", SummaryWidth(l, width)), ix)
  PROVE  Reads(Cons(Scalar("n_clusters", 8), Cons(Scalar("summary_width", 8), Cons(Scalar("n_terms", 8), T))),
               Join(Summaries(l, width), S), g, ix)
  <1> DEFINE w == SummaryWidth(l, width)
             h == Noted(g, "summary_width", w)
             v9 == WriteArray("csc_value", l.nnz * w, 1, w, "csc_value")
             v8 == WriteArray("csc_cluster", l.nnz, 2, 2, "csc_cluster")
             v7 == WriteScalar("nnz", 8, l.nnz)
             v6 == WriteArray("term_ptr", l.terms + 1, 4, 4, l.nnz)
             v5 == WriteArray("term_ids", l.terms, 2, 2, "term_ids")
             v4 == IF l.terms = 0 THEN <<>> ELSE Join(v5, v6)
             v3 == WriteScalar("n_terms", 8, l.terms)
             v2 == WriteScalar("summary_width", 8, w)
             v1 == WriteScalar("n_clusters", 8, l.clusters)
             t9 == Cons(Array("csc_value", l.nnz * w, 1, w), T)
             t8 == Cons(Array("csc_cluster", l.nnz, 2, 2), t9)
             t7 == Cons(Scalar("nnz", 8), T)
             t6 == Cons(Array("term_ptr", l.terms + 1, 4, 4), t7)
             t5 == Cons(Array("term_ids", l.terms, 2, 2), t6)
             t3 == Cons(Scalar("n_terms", 8), T)
             t2 == Cons(Scalar("summary_width", 8), t3)
             s9 == Join(v9, S)
             s8 == Join(v8, s9)
             s7 == Join(v7, s8)
             s4 == Join(v4, s7)
             s3 == Join(v3, s4)
             s2 == Join(v2, s3)
  <1>1. l.docs \in Nat /\ l.clusters \in Nat /\ l.terms \in Nat /\ l.nnz \in Nat /\ w \in Nat \ {0}
        /\ l.nnz * w \in Nat /\ l.terms + 1 \in Nat
    BY DEF ListSizes, SummaryWidth
  <1> HIDE DEF w
  <1>2. Within(h, ix) /\ h["id"] # "INVT" /\ h["summary_width"] = w
    <2>1. "summary_width" \in Kept
      BY DEF Kept
    <2> QED
      BY <1>1, <2>1, WithinNoted
  <1>3. T \in Seq(Expected) /\ S \in Seq(Cells) /\ Inside(T) /\ Reads(T, S, h, ix)
    BY DEF Reads, w
  <1> HIDE DEF h
  <1>4. v9 \in Seq(Cells) /\ v8 \in Seq(Cells) /\ v5 \in Seq(Cells) /\ v6 \in Seq(Cells)
    <2>1. v9 \in Seq(Cells)
      BY <1>1, ClusterItems, ArrayWritten, Sizes
    <2>2. v8 \in Seq(Cells)
      BY <1>1, ClusterItems, ArrayWritten, Sizes
    <2>3. v5 \in Seq(Cells)
      BY <1>1, ClusterItems, ArrayWritten, Sizes
    <2>4. v6 \in Seq(Cells)
      BY <1>1, ClusterItems, ArrayWritten, Sizes
    <2> QED
      BY <2>1, <2>2, <2>3, <2>4
  <1>5. v7 \in Seq(Cells) /\ v3 \in Seq(Cells) /\ v2 \in Seq(Cells) /\ v1 \in Seq(Cells)
    <2>1. v7 \in Seq(Cells)
      BY <1>1, ClusterItems, ScalarWritten, Sizes
    <2>2. v3 \in Seq(Cells)
      BY <1>1, ClusterItems, ScalarWritten, Sizes
    <2>3. v2 \in Seq(Cells)
      BY <1>1, ClusterItems, ScalarWritten, Sizes
    <2>4. v1 \in Seq(Cells)
      BY <1>1, ClusterItems, ScalarWritten, Sizes
    <2> QED
      BY <2>1, <2>2, <2>3, <2>4
  <1>6. v4 \in Seq(Cells)
    BY <1>4, JoinIs
  <1>7. Join(Summaries(l, width), S) = Join(v1, s2)
    <2> HIDE DEF v1, v2, v3, v7, v8, v9, v4
    <2>1. Summaries(l, width) = Join(Join(Join(Join(Join(Join(v1, v2), v3), v4), v7), v8), v9)
      BY DEF Summaries, Join, SummaryWidth, w, v1, v2, v3, v4, v5, v6, v7, v8, v9
    <2> DEFINE p3 == Join(Join(v1, v2), v3)
               p5 == Join(Join(p3, v4), v7)
               p7 == Join(Join(p5, v8), v9)
    <2>2. S \in Seq(Cells)
      BY <1>3
    <2>3. s9 \in Seq(Cells)
      BY <1>4, <2>2, JoinIs
    <2>4. s8 \in Seq(Cells)
      BY <1>4, <2>3, JoinIs
    <2>5. s7 \in Seq(Cells)
      BY <1>5, <2>4, JoinIs
    <2>6. s4 \in Seq(Cells)
      BY <1>6, <2>5, JoinIs
    <2> HIDE DEF s4
    <2>7. Join(p3, s4) = Join(v1, s2) /\ p3 \in Seq(Cells)
      BY <1>5, <2>6, Regrouped
    <2> HIDE DEF p3, s8
    <2>8. Join(p5, s8) = Join(p3, s4) /\ p5 \in Seq(Cells)
      BY <1>5, <1>6, <2>4, <2>7, Regrouped DEF s4
    <2> HIDE DEF p5
    <2>9. Join(p7, S) = Join(p5, s8)
      BY <1>4, <2>2, <2>8, Regrouped DEF s8
    <2> HIDE DEF p7, s2
    <2> QED
      BY <2>1, <2>7, <2>8, <2>9 DEF p3, p5, p7
  <1> HIDE DEF v1, v2, v3, v4, v7, v8, v9
  <1>8. Reads(t9, s9, h, ix)
    BY <1>1, <1>3, ClusterItems, Sizes, ReadsArray DEF v9
  <1> HIDE DEF t9, s9
  <1>9. Reads(t8, s8, h, ix)
    BY <1>1, <1>8, ClusterItems, Sizes, ReadsArray DEF v8
  <1>10. Reads(t7, s7, h, ix)
    <2> DEFINE a == Array("csc_cluster", l.nnz, 2, 2)
               b == Array("csc_value", l.nnz * w, 1, w)
    <2>1. a \in Expected /\ b \in Expected
      BY <1>1, ClusterItems, Sizes, ArrayIs
    <2>2. ClustersNext("nnz", l.nnz, h) = Two(a, b)
      BY <1>2 DEF ClustersNext, Two
    <2>3. Two(a, b) \in Seq(Expected) /\ Join(Two(a, b), T) = t8
      <3>1. t8 = Cons(a, Cons(b, T))
        BY DEF t9
      <3> HIDE DEF a, b, t8
      <3> QED
        BY <1>3, <2>1, <3>1, JoinedPair
    <2>4. Then("nnz", l.nnz, h) = Two(a, b)
      BY <2>2, <2>3, ThenClusters
    <2> HIDE DEF a, b, t8, s8
    <2> QED
      BY <1>1, <1>2, <1>3, <1>9, <2>3, <2>4, ClusterItems, Sizes, ReadsBranch DEF v7
  <1> HIDE DEF t8, s8, t7, s7
  <1>11. ASSUME l.terms # 0 PROVE Reads(t5, s4, h, ix)
    <2>1. Reads(t6, Join(v6, s7), h, ix)
      BY <1>1, <1>10, ClusterItems, Sizes, ReadsArray
    <2> HIDE DEF t6
    <2>2. Reads(t5, Join(v5, Join(v6, s7)), h, ix)
      BY <1>1, <2>1, ClusterItems, Sizes, ReadsArray
    <2>3. v4 = Join(v5, v6)
      BY <1>11 DEF v4
    <2>4. s7 \in Seq(Cells)
      BY <1>10 DEF Reads
    <2> HIDE DEF v5, v6, t5
    <2>5. s4 = Join(v5, Join(v6, s7))
      BY <1>4, <2>3, <2>4, JoinShifts
    <2> QED
      BY <2>2, <2>5
  <1>12. ASSUME l.terms = 0 PROVE Reads(t7, s4, h, ix)
    <2>1. v4 = <<>> /\ s7 \in Seq(Cells)
      BY <1>10, <1>12 DEF v4, Reads
    <2>2. s4 = s7
      BY <2>1, JoinIs
    <2> QED
      BY <1>10, <2>2
  <1> HIDE DEF s4, v5, v6
  <1>13. Reads(t3, s3, h, ix)
    <2> DEFINE a == Array("term_ids", l.terms, 2, 2)
               b == Array("term_ptr", l.terms + 1, 4, 4)
               c == Scalar("nnz", 8)
    <2>1. a \in Expected /\ b \in Expected /\ c \in Expected
      BY <1>1, ClusterItems, Sizes, ArrayIs
    <2>2. CASE l.terms # 0
      <3>1. ClustersNext("n_terms", l.terms, h) = Join(Two(a, b), <<c>>)
        BY <2>2 DEF ClustersNext, Two, Join
      <3>2. t5 = Cons(a, Cons(b, Cons(c, T)))
        BY DEF t7
      <3> HIDE DEF a, b, c, t5
      <3>3. <<c>> \in Seq(Expected) /\ Join(<<c>>, T) = Cons(c, T) /\ Cons(c, T) \in Seq(Expected)
        BY <1>3, <2>1, JoinedOne
      <3>4. Two(a, b) \in Seq(Expected) /\ Join(Two(a, b), Cons(c, T)) = t5
        BY <2>1, <3>2, <3>3, JoinedPair
      <3>5. Join(Join(Two(a, b), <<c>>), T) = t5 /\ Join(Two(a, b), <<c>>) \in Seq(Expected)
        <4> DEFINE p == Two(a, b)
                   q == <<c>>
        <4> HIDE DEF p, q
        <4>1. p \in Seq(Expected) /\ q \in Seq(Expected)
          BY <3>3, <3>4 DEF p, q
        <4>2. Join(Join(p, q), T) = Join(p, Join(q, T)) /\ Join(p, q) \in Seq(Expected)
          BY <1>3, <4>1, JoinShifts, JoinIs
        <4> QED
          BY <3>3, <3>4, <4>2 DEF p, q
      <3>6. Then("n_terms", l.terms, h) = Join(Two(a, b), <<c>>)
        BY <3>1, <3>5, ThenClusters
      <3> QED
        BY <1>1, <1>2, <1>3, <1>11, <2>2, <3>5, <3>6, ClusterItems, Sizes, ReadsBranch DEF v3
    <2>3. CASE l.terms = 0
      <3>1. ClustersNext("n_terms", l.terms, h) = <<c>>
        BY <2>3 DEF ClustersNext
      <3>2. <<c>> \in Seq(Expected) /\ Join(<<c>>, T) = t7
        <4> HIDE DEF c
        <4> QED
          BY <1>3, <2>1, JoinedOne DEF t7, c
      <3>3. Then("n_terms", l.terms, h) = <<c>>
        BY <3>1, <3>2, ThenClusters
      <3> HIDE DEF c
      <3> QED
        BY <1>1, <1>2, <1>3, <1>12, <2>3, <3>2, <3>3, ClusterItems, Sizes, ReadsBranch DEF v3
    <2> QED
      BY <2>2, <2>3
  <1> HIDE DEF t3, s3
  <1>14. Reads(t2, s2, g, ix)
    <2>1. t3 \in Seq(Expected) /\ s3 \in Seq(Cells) /\ Inside(t3) /\ Follows(t3, s3, h, ix)
      BY <1>13 DEF Reads
    <2>2. "summary_width" \notin Branches
      BY DEF Branches
    <2>3. Join(Then("summary_width", w, h), t3) = t3
      BY <2>1, <2>2, ThenNothing, JoinIs
    <2> QED
      BY <1>1, <2>1, <2>3, ClusterItems, Sizes, ReadsKept DEF v2, h
  <1> HIDE DEF t2, s2
  <1>15. Reads(Cons(Scalar("n_clusters", 8), t2), Join(v1, s2), g, ix)
    BY <1>1, <1>14, ClusterItems, Sizes, ReadsScalar DEF v1
  <1> QED
    BY <1>7, <1>15 DEF t2, t3

(* Of a list that has summaries, and of the section of blocks, the width is *)
(* that of the index.                                                       *)
Narrows(width) ==
  {s \in Seq(Cells) :
     \A i \in 1 .. Len(s) :
       /\ s[i].what = "section" => s[i].value = width
       /\ s[i].what = "summary_width" => i > 1 /\ (s[i - 1].value > 0 => s[i].value = width)}

LEMMA NarrowsJoin ==
  ASSUME NEW width, NEW a \in Narrows(width), NEW b \in Narrows(width)
  PROVE  Join(a, b) \in Narrows(width)
  <1> DEFINE s == Join(a, b)
             n == Len(a)
  <1>1. a \in Seq(Cells) /\ b \in Seq(Cells) /\ n \in Nat /\ Len(b) \in Nat
    BY DEF Narrows
  <1>2. s \in Seq(Cells) /\ Len(s) = n + Len(b) /\ (\A i \in 1 .. n : s[i] = a[i])
        /\ \A i \in n + 1 .. n + Len(b) : s[i] = b[i - n]
    BY <1>1 DEF Join
  <1> HIDE DEF s, n
  <1>3. ASSUME NEW i \in 1 .. Len(s)
        PROVE  /\ s[i].what = "section" => s[i].value = width
               /\ s[i].what = "summary_width" => i > 1 /\ (s[i - 1].value > 0 => s[i].value = width)
    <2>1. CASE i \in 1 .. n
      <3>1. s[i] = a[i] /\ (i > 1 => i - 1 \in 1 .. n /\ s[i - 1] = a[i - 1])
        BY <1>1, <1>2, <2>1
      <3> QED
        BY <2>1, <3>1 DEF Narrows, n
    <2>2. CASE i \in n + 1 .. n + Len(b)
      <3> DEFINE j == i - n
      <3>1. j \in 1 .. Len(b) /\ s[i] = b[j]
        BY <1>1, <1>2, <2>2
      <3>2. j > 1 => i > 1 /\ s[i - 1] = b[j - 1]
        <4>1. j > 1 => i - 1 \in n + 1 .. n + Len(b) /\ (i - 1) - n = j - 1 /\ i > 1
          BY <1>1, <2>2
        <4> QED
          BY <1>2, <4>1
      <3> HIDE DEF j
      <3> QED
        BY <3>1, <3>2 DEF Narrows
    <2> QED
      BY <1>1, <1>2, <2>1, <2>2
  <1> QED
    BY <1>2, <1>3 DEF s, Narrows

LEMMA NarrowsNone ==
  ASSUME NEW width
  PROVE  <<>> \in Narrows(width)
  BY DEF Narrows

LEMMA NarrowsScalar ==
  ASSUME NEW width, NEW what \in ScalarPlaces \ {"summary_width"}, NEW bytes \in Nat \ {0}, NEW v \in Values
  PROVE  WriteScalar(what, bytes, v) \in Narrows(width)
  <1>1. WriteScalar(what, bytes, v) \in Seq(Cells)
    BY ScalarWritten
  <1>2. what # "section"
    BY DEF ScalarPlaces
  <1> DEFINE s == WriteScalar(what, bytes, v)
  <1>3. Len(s) = 1 /\ s[1].what = what
    BY DEF WriteScalar, Valued, Scalar, Item
  <1> HIDE DEF s
  <1>4. \A i \in 1 .. Len(s) : s[i].what = what
    <2>1. \A i \in 1 .. 1 : i = 1
      OBVIOUS
    <2> QED
      BY <1>3, <2>1
  <1>5. s \in Narrows(width)
    BY <1>1, <1>2, <1>4 DEF Narrows, s
  <1> QED
    BY <1>5 DEF s

LEMMA NarrowsArray ==
  ASSUME NEW width, NEW what \in ArrayPlaces, NEW count \in Nat, NEW each \in Nat \ {0},
         NEW align \in Nat \ {0}, NEW v \in Values, what = "section" => v = width /\ count # 0
  PROVE  WriteArray(what, count, each, align, v) \in Narrows(width)
  <1> DEFINE s == WriteArray(what, count, each, align, v)
  <1>1. s \in Seq(Cells)
    BY ArrayWritten
  <1>2. what # "summary_width"
    BY DEF ArrayPlaces
  <1>3. Len(s) = 1 /\ s[1].what = what /\ (count # 0 => s[1].value = v)
    BY DEF WriteArray, Valued, Array, Item
  <1> HIDE DEF s
  <1>4. s \in Narrows(width)
    BY <1>1, <1>2, <1>3 DEF Narrows
  <1> QED
    BY <1>4 DEF s

LEMMA SummariesNarrow ==
  ASSUME NEW l \in ListSizes, NEW width \in Nat \ {0}
  PROVE  Summaries(l, width) \in Narrows(width)
  <1> DEFINE w == SummaryWidth(l, width)
             v9 == WriteArray("csc_value", l.nnz * w, 1, w, "csc_value")
             v8 == WriteArray("csc_cluster", l.nnz, 2, 2, "csc_cluster")
             v7 == WriteScalar("nnz", 8, l.nnz)
             v6 == WriteArray("term_ptr", l.terms + 1, 4, 4, l.nnz)
             v5 == WriteArray("term_ids", l.terms, 2, 2, "term_ids")
             v4 == IF l.terms = 0 THEN <<>> ELSE Join(v5, v6)
             v3 == WriteScalar("n_terms", 8, l.terms)
             v2 == WriteScalar("summary_width", 8, w)
             v1 == WriteScalar("n_clusters", 8, l.clusters)
  <1>1. l.docs \in Nat /\ l.clusters \in Nat /\ l.terms \in Nat /\ l.nnz \in Nat /\ w \in Nat \ {0}
        /\ l.nnz * w \in Nat /\ l.terms + 1 \in Nat /\ (l.clusters > 0 => w = width)
    BY DEF ListSizes, SummaryWidth
  <1> HIDE DEF w
  <1>2. "csc_value" # "section" /\ "csc_cluster" # "section" /\ "term_ptr" # "section" /\ "term_ids" # "section"
    OBVIOUS
  <1>3. v9 \in Narrows(width)
    BY <1>1, ClusterItems, Sizes, NarrowsArray
  <1>4. v8 \in Narrows(width)
    BY <1>1, ClusterItems, Sizes, NarrowsArray
  <1>5. v7 \in Narrows(width)
    BY <1>1, ClusterItems, Sizes, NarrowsScalar
  <1>6. v6 \in Narrows(width)
    BY <1>1, ClusterItems, Sizes, NarrowsArray
  <1>7. v5 \in Narrows(width)
    BY <1>1, ClusterItems, Sizes, NarrowsArray
  <1>8. v3 \in Narrows(width)
    BY <1>1, ClusterItems, Sizes, NarrowsScalar
  <1>9. Join(v1, v2) \in Narrows(width)
    <2> DEFINE s == Join(v1, v2)
               a == Valued(Scalar("n_clusters", 8), l.clusters)
               b == Valued(Scalar("summary_width", 8), w)
    <2>1. a \in Cells /\ b \in Cells
      <3>1. Suits(Scalar("n_clusters", 8), l.clusters) /\ Suits(Scalar("summary_width", 8), w)
        BY <1>1 DEF Suits, Values, Scalar, Item
      <3>2. Scalar("n_clusters", 8) \in Expected /\ Scalar("summary_width", 8) \in Expected
            /\ Scalar("n_clusters", 8).what \notin Marks /\ Scalar("summary_width", 8).what \notin Marks
        BY ClusterItems DEF Scalar, Item, Marks
      <3> QED
        BY <3>1, <3>2, ValuedIs
    <2>2. a.what = "n_clusters" /\ a.value = l.clusters /\ b.what = "summary_width" /\ b.value = w
      BY DEF Valued, Scalar, Item
    <2>3. s = <<a>> \o <<b>>
      BY DEF WriteScalar, Join
    <2> HIDE DEF a, b, s
    <2>4. s \in Seq(Cells) /\ Len(s) = 2 /\ s[1] = a /\ s[2] = b
      BY <2>1, <2>3
    <2>5. \A i \in 1 .. 2 : i = 1 \/ i = 2
      OBVIOUS
    <2>6. ASSUME NEW i \in 1 .. Len(s)
          PROVE  /\ s[i].what = "section" => s[i].value = width
                 /\ s[i].what = "summary_width" => i > 1 /\ (s[i - 1].value > 0 => s[i].value = width)
      <3>1. CASE i = 1
        BY <2>2, <2>4, <3>1
      <3>2. CASE i = 2
        <4>1. s[i - 1] = a /\ i > 1
          BY <2>4, <3>2
        <4> QED
          BY <1>1, <2>2, <2>4, <3>2, <4>1
      <3> QED
        BY <2>4, <2>5, <3>1, <3>2
    <2>7. s \in Narrows(width)
      BY <2>4, <2>6 DEF Narrows
    <2> QED
      BY <2>7 DEF s
  <1> HIDE DEF v1, v2, v3, v7, v8, v9, v5, v6
  <1>10. v4 \in Narrows(width)
    BY <1>6, <1>7, NarrowsJoin, NarrowsNone
  <1> HIDE DEF v4
  <1> DEFINE p2 == Join(v1, v2)
             p3 == Join(p2, v3)
             p4 == Join(p3, v4)
             p5 == Join(p4, v7)
             p6 == Join(p5, v8)
  <1>11. Summaries(l, width) = Join(p6, v9)
    BY DEF Summaries, Join, SummaryWidth, w, v1, v2, v3, v4, v5, v6, v7, v8, v9
  <1> HIDE DEF p2
  <1>12. p3 \in Narrows(width)
    BY <1>8, <1>9, NarrowsJoin DEF p2
  <1> HIDE DEF p3
  <1>13. p4 \in Narrows(width)
    BY <1>10, <1>12, NarrowsJoin
  <1> HIDE DEF p4
  <1>14. p5 \in Narrows(width)
    BY <1>5, <1>13, NarrowsJoin
  <1> HIDE DEF p5
  <1>15. p6 \in Narrows(width)
    BY <1>4, <1>14, NarrowsJoin
  <1> HIDE DEF p6
  <1> QED
    BY <1>3, <1>11, <1>15, NarrowsJoin

LEMMA ListNarrow ==
  ASSUME NEW l \in ListSizes, NEW width \in Nat \ {0}, NEW bare \in BOOLEAN
  PROVE  ClusteredList(l, width, bare) \in Narrows(width)
  <1> DEFINE docs    == IF bare THEN 0 ELSE l.docs
             offsets == IF bare \/ l.clusters = 0 THEN 0 ELSE l.clusters + 1
             v1 == WriteScalar("n_docs", 8, docs)
             v2 == WriteArray("docs", docs, 4, 4, "docs")
             v3 == WriteScalar("n_offsets", 8, offsets)
             v4 == WriteArray("offsets", offsets, 4, 4, "offsets")
             v5 == Summaries(l, width)
  <1>1. docs \in Nat /\ offsets \in Nat
    BY DEF ListSizes
  <1> DEFINE p2 == Join(v1, v2)
             p3 == Join(p2, v3)
             p4 == Join(p3, v4)
  <1>2. ClusteredList(l, width, bare) = Join(p4, v5)
    BY DEF ClusteredList, Join
  <1> HIDE DEF docs, offsets
  <1>3. v1 \in Narrows(width)
    BY <1>1, ClusterItems, Sizes, NarrowsScalar
  <1>4. v2 \in Narrows(width)
    BY <1>1, ClusterItems, Sizes, NarrowsArray
  <1>5. v3 \in Narrows(width)
    BY <1>1, ClusterItems, Sizes, NarrowsScalar
  <1>6. v4 \in Narrows(width)
    BY <1>1, ClusterItems, Sizes, NarrowsArray
  <1>7. v5 \in Narrows(width)
    BY SummariesNarrow
  <1> HIDE DEF v1, v2, v3, v4, v5
  <1>8. p2 \in Narrows(width)
    BY <1>3, <1>4, NarrowsJoin
  <1> HIDE DEF p2
  <1>9. p3 \in Narrows(width)
    BY <1>5, <1>8, NarrowsJoin
  <1> HIDE DEF p3
  <1>10. p4 \in Narrows(width)
    BY <1>6, <1>9, NarrowsJoin
  <1> HIDE DEF p4
  <1> QED
    BY <1>2, <1>7, <1>10, NarrowsJoin

LEMMA ListFollow ==
  ASSUME NEW l \in ListSizes, NEW width \in Nat \ {0}, NEW bare \in BOOLEAN, NEW T, NEW S, NEW g, NEW ix,
         Within(g, ix), g["id"] # "INVT",
         Reads(T, S, Noted(g, "summary_width", SummaryWidth(l, width)), ix)
  PROVE  Reads(Cons(Scalar("n_docs", 8), T), Join(ClusteredList(l, width, bare), S), g, ix)
  <1> DEFINE docs    == IF bare THEN 0 ELSE l.docs
             offsets == IF bare \/ l.clusters = 0 THEN 0 ELSE l.clusters + 1
             v1 == WriteScalar("n_docs", 8, docs)
             v2 == WriteArray("docs", docs, 4, 4, "docs")
             v3 == WriteScalar("n_offsets", 8, offsets)
             v4 == WriteArray("offsets", offsets, 4, 4, "offsets")
             v5 == Summaries(l, width)
             s5 == Join(v5, S)
             s4 == Join(v4, s5)
             s3 == Join(v3, s4)
             s2 == Join(v2, s3)
             a == Array("offsets", offsets, 4, 4)
             b == Scalar("n_clusters", 8)
             c == Scalar("summary_width", 8)
             d == Scalar("n_terms", 8)
             e == Array("docs", docs, 4, 4)
             f == Scalar("n_offsets", 8)
             t5 == Cons(b, Cons(c, Cons(d, T)))
             t4 == Cons(a, t5)
             t3 == Cons(f, T)
             t2 == Cons(e, t3)
  <1>1. docs \in Nat /\ offsets \in Nat
    BY DEF ListSizes
  <1>2. ClusteredList(l, width, bare) = Join(Join(Join(Join(v1, v2), v3), v4), v5)
    BY DEF ClusteredList, Join
  <1> HIDE DEF docs, offsets
  <1>3. T \in Seq(Expected) /\ S \in Seq(Cells) /\ Inside(T)
    BY DEF Reads
  <1>4. a \in Expected /\ b \in Expected /\ c \in Expected /\ d \in Expected /\ e \in Expected /\ f \in Expected
    BY <1>1, ClusterItems, Sizes, ArrayIs
  <1>5. v1 \in Seq(Cells) /\ v2 \in Seq(Cells) /\ v3 \in Seq(Cells) /\ v4 \in Seq(Cells) /\ v5 \in Seq(Cells)
    <2>1. v1 \in Seq(Cells)
      BY <1>1, ClusterItems, Sizes, ScalarWritten
    <2>2. v2 \in Seq(Cells)
      BY <1>1, ClusterItems, Sizes, ArrayWritten
    <2>3. v3 \in Seq(Cells)
      BY <1>1, ClusterItems, Sizes, ScalarWritten
    <2>4. v4 \in Seq(Cells)
      BY <1>1, ClusterItems, Sizes, ArrayWritten
    <2>5. v5 \in Seq(Cells)
      BY SummariesNarrow DEF Narrows
    <2> QED
      BY <2>1, <2>2, <2>3, <2>4, <2>5
  <1>6. Join(ClusteredList(l, width, bare), S) = Join(v1, s2)
    <2> HIDE DEF v1, v2, v3, v4, v5
    <2> QED
      BY <1>2, <1>3, <1>5, RegroupedFive
  <1>7. Reads(t5, s5, g, ix)
    BY SummariesFollow
  <1> HIDE DEF v1, v2, v3, v4, v5, t5, s5
  <1>8. Reads(t4, s4, g, ix)
    BY <1>1, <1>7, ClusterItems, Sizes, ReadsArray DEF v4
  <1>9. Reads(t3, s3, g, ix)
    <2>1. ClustersNext("n_offsets", offsets, g) = Four(a, b, c, d)
      BY DEF ClustersNext, Four
    <2> HIDE DEF a, b, c, d, t4, s4
    <2>2. Four(a, b, c, d) \in Seq(Expected) /\ Join(Four(a, b, c, d), T) = t4
      BY <1>3, <1>4, JoinedFour DEF t4, t5
    <2>3. Then("n_offsets", offsets, g) = Four(a, b, c, d)
      BY <2>1, <2>2, ThenClusters
    <2> QED
      BY <1>1, <1>3, <1>8, <2>2, <2>3, ClusterItems, Sizes, ReadsBranch DEF v3
  <1> HIDE DEF t3, s3
  <1>10. Reads(t2, s2, g, ix)
    BY <1>1, <1>9, ClusterItems, Sizes, ReadsArray DEF v2
  <1>11. ClustersNext("n_docs", docs, g) = Two(e, f)
    BY DEF ClustersNext, Two
  <1> HIDE DEF e, f, t2, s2
  <1>12. Two(e, f) \in Seq(Expected) /\ Join(Two(e, f), T) = t2
    BY <1>3, <1>4, JoinedPair DEF t2, t3
  <1>13. Then("n_docs", docs, g) = Two(e, f)
    BY <1>11, <1>12, ThenClusters
  <1>14. Reads(Cons(Scalar("n_docs", 8), T), Join(v1, s2), g, ix)
    BY <1>1, <1>3, <1>10, <1>12, <1>13, ClusterItems, Sizes, ReadsBranch DEF v1
  <1> QED
    BY <1>6, <1>14

LEMMA Downward ==
  ASSUME NEW n \in Nat, NEW D, n \in D, \A i \in 1 .. n : i \in D => i - 1 \in D
  PROVE  0 \in D
  <1> DEFINE E == {m \in Nat : m <= n => n - m \in D}
  <1>1. 0 \in E
    OBVIOUS
  <1>2. ASSUME NEW m \in Nat, m \in E PROVE m + 1 \in E
    <2>1. CASE m + 1 <= n
      <3>1. n - m \in D /\ n - m \in 1 .. n /\ (n - m) - 1 = n - (m + 1)
        BY <1>2, <2>1
      <3> QED
        BY <3>1
    <2>2. CASE ~(m + 1 <= n)
      BY <2>2
    <2> QED
      BY <2>1, <2>2
  <1> HIDE DEF E
  <1>3. n \in E
    BY <1>1, <1>2, NatSetInduction
  <1>4. n - n = 0
    OBVIOUS
  <1> QED
    BY <1>3, <1>4 DEF E

LEMMA RepeatIs ==
  ASSUME NEW X, NEW x \in X, NEW n \in Nat, NEW T \in Seq(X)
  PROVE  /\ Repeat(x, n) \in Seq(X)
         /\ Join(Repeat(x, 0), T) = T
         /\ Join(Repeat(x, n + 1), T) = Cons(x, Join(Repeat(x, n), T))
  <1>1. \A m \in Nat : Repeat(x, m) \in Seq(X) /\ Len(Repeat(x, m)) = m /\ \A i \in 1 .. m : Repeat(x, m)[i] = x
    BY DEF Repeat
  <1>2. Repeat(x, 0) = <<>>
    BY <1>1
  <1> DEFINE a == Repeat(x, n + 1)
             b == Repeat(x, n)
             p == a \o T
             q == <<x>> \o (b \o T)
  <1>3. a \in Seq(X) /\ Len(a) = n + 1 /\ (\A i \in 1 .. n + 1 : a[i] = x)
        /\ b \in Seq(X) /\ Len(b) = n /\ \A i \in 1 .. n : b[i] = x
    BY <1>1
  <1> HIDE DEF a, b
  <1>4. p \in Seq(X) /\ q \in Seq(X) /\ Len(p) = n + 1 + Len(T) /\ Len(q) = n + 1 + Len(T)
    BY <1>3
  <1>5. ASSUME NEW i \in 1 .. n + 1 + Len(T) PROVE p[i] = q[i]
    <2>1. CASE i \in 1 .. n + 1
      BY <1>3, <2>1
    <2>2. CASE i \notin 1 .. n + 1
      BY <1>3, <2>2
    <2> QED
      BY <2>1, <2>2
  <1> HIDE DEF p, q
  <1>6. p = q
    BY <1>4, <1>5
  <1> QED
    BY <1>1, <1>2, <1>6, JoinIs DEF a, b, p, q, Join, Cons

LEMMA NotedTwice ==
  ASSUME NEW g, IsGot(g), NEW what \in Kept, NEW v, NEW w
  PROVE  Noted(Noted(g, what, v), what, w) = Noted(g, what, w) /\ Noted(g, what, g[what]) = g
  <1> DEFINE a == Noted(Noted(g, what, v), what, w)
             b == Noted(g, what, w)
  <1>1. \A k \in Kept : a[k] = b[k]
    BY DEF Noted
  <1>2. a = b
    BY <1>1 DEF Noted
  <1>3. Noted(g, what, g[what]) = g
    BY DEF Noted, IsGot
  <1> QED
    BY <1>2, <1>3

(* The lists of an index, one after the other. *)
LEMMA ListsFollow ==
  ASSUME NEW lists \in Seq(ListSizes), NEW width \in Nat \ {0}, NEW bare \in BOOLEAN, NEW T, NEW S, NEW g, NEW ix,
         Within(g, ix), g["id"] # "INVT",
         \A W \in Nat \ {0} : Reads(T, S, Noted(g, "summary_width", W), ix)
  PROVE  /\ Reads(Cons(Scalar("n_lists", 8), T), Join(ClusteredLists(lists, width, bare), S), g, ix)
         /\ ClusteredLists(lists, width, bare) \in Narrows(width)
  <1> DEFINE n == Len(lists)
             q == [i \in 1 .. n |-> ClusteredList(lists[i], width, bare)]
             x == Scalar("n_docs", 8)
             h(W) == Noted(g, "summary_width", W)
             v0 == WriteScalar("n_lists", 8, n)
  <1>1. n \in Nat /\ DOMAIN lists = 1 .. n /\ \A i \in 1 .. n : lists[i] \in ListSizes
    OBVIOUS
  <1>2. \A i \in 1 .. n : q[i] = ClusteredList(lists[i], width, bare) /\ q[i] \in Narrows(width)
    BY <1>1, ListNarrow
  <1>3. \A i \in 1 .. n : q[i] \in Seq(Cells)
    BY <1>2 DEF Narrows
  <1> HIDE DEF n
  <1>4. q \in [1 .. n -> Seq(Cells)]
    BY <1>3
  <1>5. ClusteredLists(lists, width, bare) = Join(v0, FlattenSeq(q))
    BY <1>1 DEF ClusteredLists, Join, n
  <1> HIDE DEF q
  <1>6. PICK R : Leaves(R, q, Cells, n)
    BY <1>1, <1>4, LeavesExist
  <1>7. R[0] = FlattenSeq(q)
    BY <1>1, <1>4, <1>6, LeavesFlatten
  <1>8. R \in [0 .. n -> Seq(Cells)] /\ R[n] = <<>> /\ \A i \in 1 .. n : R[i - 1] = Join(q[i], R[i])
    BY <1>6 DEF Leaves, Join
  <1>9. T \in Seq(Expected) /\ S \in Seq(Cells) /\ Inside(T)
    <2>1. 4 \in Nat \ {0}
      OBVIOUS
    <2> QED
      BY <2>1 DEF Reads
  <1>10. x \in Expected
    BY ClusterItems
  <1>11. "summary_width" \in Kept /\ IsGot(g)
    BY DEF Kept, Within
  <1> HIDE DEF x
  <1>12. \A W \in Nat \ {0} : Within(h(W), ix) /\ h(W)["id"] # "INVT"
    BY <1>11, WithinNoted
  <1> DEFINE t(i) == Join(Repeat(x, n - i), T)
             s(i) == Join(R[i], S)
             D == {i \in 0 .. n : \A W \in Nat \ {0} : Reads(t(i), s(i), h(W), ix)}
  <1>13. n \in D
    <2>1. n - n = 0 /\ n \in 0 .. n
      BY <1>1
    <2>2. t(n) = T
      BY <1>9, <1>10, <2>1, RepeatIs
    <2>3. s(n) = S
      BY <1>8, <1>9, JoinIs
    <2> QED
      BY <2>1, <2>2, <2>3
  <1>14. ASSUME NEW i \in 1 .. n, i \in D PROVE i - 1 \in D
    <2>1. i \in 0 .. n /\ i - 1 \in 0 .. n /\ n - i \in Nat /\ n - (i - 1) = (n - i) + 1
      BY <1>1
    <2>2. t(i - 1) = Cons(x, t(i))
      BY <1>9, <1>10, <2>1, RepeatIs
    <2>3. s(i - 1) = Join(q[i], s(i))
      <3>1. q[i] \in Seq(Cells) /\ R[i] \in Seq(Cells) /\ R[i - 1] = Join(q[i], R[i])
        BY <1>3, <1>8, <2>1
      <3> QED
        BY <1>9, <3>1, JoinShifts
    <2> HIDE DEF t, s
    <2>4. ASSUME NEW W \in Nat \ {0}
          PROVE  Reads(t(i - 1), s(i - 1), h(W), ix)
      <3> DEFINE V == SummaryWidth(lists[i], width)
      <3>1. V \in Nat \ {0}
        BY DEF SummaryWidth
      <3>2. Reads(t(i), s(i), h(V), ix)
        BY <1>14, <3>1
      <3>3. Noted(h(W), "summary_width", V) = h(V)
        BY <1>11, NotedTwice
      <3>4. Within(h(W), ix) /\ h(W)["id"] # "INVT"
        BY <1>12
      <3> HIDE DEF h
      <3>5. Reads(Cons(Scalar("n_docs", 8), t(i)), Join(ClusteredList(lists[i], width, bare), s(i)), h(W), ix)
        BY <1>1, <3>2, <3>3, <3>4, ListFollow
      <3> QED
        BY <1>2, <2>2, <2>3, <3>5 DEF x
    <2> QED
      BY <2>1, <2>4
  <1>15. 0 \in D
    <2> HIDE DEF D
    <2> QED
      BY <1>1, <1>13, <1>14, Downward
  <1>16. Reads(t(0), s(0), g, ix)
    <2>1. g["summary_width"] \in Nat \ {0} /\ h(g["summary_width"]) = g
      BY <1>11, NotedTwice DEF IsGot
    <2> HIDE DEF t, s, h
    <2> QED
      BY <1>15, <2>1
  <1>17. Reads(Cons(Scalar("n_lists", 8), T), Join(v0, s(0)), g, ix)
    <2>1. t(0) = Join(Repeat(x, n), T)
      BY <1>1
    <2>2. ListsNext("n_lists", n) = Repeat(x, n) /\ Repeat(x, n) \in Seq(Expected)
      BY <1>1, <1>9, <1>10, RepeatIs DEF ListsNext, x
    <2>3. Then("n_lists", n, g) = Repeat(x, n)
      <3>1. VectorsNext("n_lists", n, g) = <<>> /\ ClustersNext("n_lists", n, g) = <<>>
            /\ PostingsNext("n_lists", n, g) = <<>> /\ DiskNext("n_lists", n) = <<>> /\ IdMapNext("n_lists", n) = <<>>
        BY DEF VectorsNext, ClustersNext, PostingsNext, DiskNext, IdMapNext
      <3> QED
        BY <2>2, <3>1 DEF Then
    <2> HIDE DEF t, s
    <2> QED
      BY <1>1, <1>9, <1>16, <2>1, <2>3, ClusterItems, Sizes, ReadsBranch
  <1>18. Join(ClusteredLists(lists, width, bare), S) = Join(v0, s(0))
    <2>1. v0 \in Seq(Cells) /\ R[0] \in Seq(Cells)
      BY <1>1, <1>8, ClusterItems, Sizes, ScalarWritten
    <2> HIDE DEF v0
    <2> QED
      BY <1>5, <1>7, <1>9, <2>1, JoinShifts
  <1>19. R[0] \in Narrows(width)
    <2> DEFINE E == {i \in 0 .. n : R[i] \in Narrows(width)}
    <2>1. n \in E
      BY <1>1, <1>8, NarrowsNone
    <2>2. ASSUME NEW i \in 1 .. n, i \in E PROVE i - 1 \in E
      <3>1. i - 1 \in 0 .. n
        BY <1>1
      <3>2. R[i - 1] = Join(q[i], R[i])
        BY <1>8
      <3>3. R[i] \in Narrows(width)
        BY <2>2
      <3>4. q[i] \in Narrows(width)
        BY <1>2
      <3> QED
        BY <3>1, <3>2, <3>3, <3>4, NarrowsJoin
    <2>3. 0 \in E
      <3> HIDE DEF E
      <3> QED
        BY <1>1, <2>1, <2>2, Downward
    <2> QED
      BY <2>3
  <1>20. v0 \in Narrows(width)
    BY <1>1, ClusterItems, Sizes, NarrowsScalar
  <1>21. ClusteredLists(lists, width, bare) \in Narrows(width)
    BY <1>5, <1>7, <1>19, <1>20, NarrowsJoin
  <1> QED
    BY <1>17, <1>18, <1>21

-----------------------------------------------------------------------------
(* The payloads.                                                            *)

LEMMA ReadsNothing ==
  ASSUME NEW g, NEW ix, Within(g, ix)
  PROVE  Reads(<<>>, <<>>, g, ix)
  <1> DEFINE P == {Place(<<>>, <<>>, g)}
  <1>1. <<>> \in Seq(Expected) /\ <<>> \in Seq(Cells) /\ Inside(<<>>)
    BY DEF Inside
  <1>2. Meets(<<>>, <<>>, g, ix, P)
    BY <1>1 DEF Meets, Within
  <1>3. \A p \in P : Meets(p[1], p[2], p[3], ix, P)
    BY <1>2, PlaceIs
  <1>4. Follows(<<>>, <<>>, g, ix)
    <2> HIDE DEF P
    <2>1. Place(<<>>, <<>>, g) \in P
      BY DEF P
    <2> QED
      BY <1>3, <2>1 DEF Follows
  <1> QED
    BY <1>1, <1>4 DEF Reads

LEMMA CorpusReadIs ==
  ASSUME NEW g, NEW ix, Within(g, ix), NEW count \in Nat, NEW width \in Nat
  PROVE  /\ Within(CorpusRead(g, count, width), ix)
         /\ CorpusRead(g, count, width)["id"] = g["id"]
         /\ CorpusRead(g, count, width)["vector_count"] = count
         /\ count > 0 => CorpusRead(g, count, width)["element_size"] = width
         /\ \A w \in Kept \ {"vector_count", "element_size"} : CorpusRead(g, count, width)[w] = g[w]
  <1> DEFINE a == Noted(g, "vector_count", count)
             b == Noted(a, "element_size", width)
             h == CorpusRead(g, count, width)
  <1>1. "vector_count" \in Kept /\ "element_size" \in Kept /\ "id" \in Kept
    BY DEF Kept
  <1>2. Within(a, ix) /\ a["id"] = g["id"] /\ a["vector_count"] = count
        /\ \A w \in Kept : w # "vector_count" => a[w] = g[w]
    BY <1>1, WithinNoted
  <1> HIDE DEF a
  <1>3. Within(b, ix) /\ b["id"] = a["id"] /\ b["element_size"] = width
        /\ \A w \in Kept : w # "element_size" => b[w] = a[w]
    BY <1>1, <1>2, WithinNoted
  <1> HIDE DEF b
  <1>4. b["vector_count"] = count
    BY <1>1, <1>2, <1>3
  <1>5. h = IF count = 0 THEN a ELSE b
    BY DEF CorpusRead, a, b
  <1> HIDE DEF h
  <1>6. /\ Within(h, ix) /\ h["id"] = g["id"] /\ h["vector_count"] = count
        /\ count > 0 => h["element_size"] = width
        /\ \A w \in Kept \ {"vector_count", "element_size"} : h[w] = g[w]
    BY <1>2, <1>3, <1>4, <1>5
  <1> QED
    BY <1>6 DEF h

LEMMA VectorsNarrow ==
  ASSUME NEW count \in Nat, NEW nnz \in Nat, NEW width \in Nat \ {0}, NEW dim \in Nat, NEW w
  PROVE  Vectors(count, nnz, width, dim) \in Narrows(w)
  <1> DEFINE a == WriteScalar("dimension", 8, dim)
             b == WriteScalar("element_size", 8, width)
             c == WriteArray("indptr", count + 1, 8, 8, nnz)
             d == WriteArray("indices", nnz, 2, 2, "indices")
             e == WriteArray("values", nnz * width, 1, width, "values")
             u == WriteScalar("vector_count", 8, count)
  <1>1. /\ "dimension" \in ScalarPlaces \ {"summary_width"} /\ "element_size" \in ScalarPlaces \ {"summary_width"}
        /\ "vector_count" \in ScalarPlaces \ {"summary_width"}
        /\ "indptr" \in ArrayPlaces /\ "indices" \in ArrayPlaces /\ "values" \in ArrayPlaces
    BY DEF ScalarPlaces, ArrayPlaces
  <1>2. dim \in Values /\ width \in Values /\ count \in Values /\ nnz \in Values
        /\ "indices" \in Values /\ "values" \in Values /\ nnz * width \in Nat /\ count + 1 \in Nat
    BY DEF Values, ArrayPlaces
  <1>3. a \in Narrows(w)
    BY <1>1, <1>2, Sizes, NarrowsScalar
  <1>4. b \in Narrows(w)
    BY <1>1, <1>2, Sizes, NarrowsScalar
  <1>5. u \in Narrows(w)
    BY <1>1, <1>2, Sizes, NarrowsScalar
  <1>6. c \in Narrows(w)
    BY <1>1, <1>2, Sizes, NarrowsArray
  <1>7. d \in Narrows(w)
    BY <1>1, <1>2, Sizes, NarrowsArray
  <1>8. e \in Narrows(w)
    BY <1>1, <1>2, Sizes, NarrowsArray
  <1> DEFINE p2 == Join(a, b)
             p3 == Join(p2, c)
             p4 == Join(p3, d)
             p5 == Join(p4, e)
  <1>9. count # 0 => Vectors(count, nnz, width, dim) = Join(u, p5)
    BY DEF Vectors, Join
  <1>10. count = 0 => Vectors(count, nnz, width, dim) = u
    BY DEF Vectors, WriteScalar
  <1> HIDE DEF a, b, c, d, e, u
  <1>11. p2 \in Narrows(w)
    BY <1>3, <1>4, NarrowsJoin
  <1> HIDE DEF p2
  <1>12. p3 \in Narrows(w)
    BY <1>6, <1>11, NarrowsJoin
  <1> HIDE DEF p3
  <1>13. p4 \in Narrows(w)
    BY <1>7, <1>12, NarrowsJoin
  <1> HIDE DEF p4
  <1>14. p5 \in Narrows(w)
    BY <1>8, <1>13, NarrowsJoin
  <1> HIDE DEF p5
  <1> QED
    BY <1>5, <1>9, <1>10, <1>14, NarrowsJoin

(* What a clustered index is made of. *)
LEMMA ClusteredIs ==
  ASSUME NEW d, IsClustered(d)
  PROVE  d.lists \in Seq(ListSizes) /\ d.nnz \in Nat
  BY DEF IsClustered, ListSizes

LEMMA SeismicFollow ==
  ASSUME NEW d, NEW g, NEW ix, Within(g, ix), IsClustered(d), d.rows \in Nat, d.dim \in Nat,
         d.width \in Nat \ {0},
         \/ g["id"] = "SEIS" /\ d.width = 4
         \/ g["id"] = "SESQ" /\ g["sq_type"] = d.width - 1
  PROVE  Reads(SeismicItems, SeismicPayload(d), g, ix) /\ SeismicPayload(d) \in Narrows(d.width)
  <1> DEFINE h  == CorpusRead(g, d.rows, d.width)
             c  == Mark("check_element_size")
             n  == Scalar("n_lists", 8)
             v1 == Vectors(d.rows, d.nnz, d.width, d.dim)
             v2 == ClusteredLists(d.lists, d.width, FALSE)
             s2 == Join(v2, <<>>)
             t2 == Cons(n, <<>>)
             t1 == Cons(c, t2)
  <1>1. Within(h, ix) /\ h["id"] = g["id"] /\ h["id"] # "INVT" /\ h["vector_count"] = d.rows
        /\ (d.rows > 0 => h["element_size"] = d.width) /\ h["sq_type"] = g["sq_type"]
    <2>1. "sq_type" \in Kept \ {"vector_count", "element_size"}
      BY DEF Kept
    <2>2. d.rows \in Nat /\ d.width \in Nat /\ g["id"] # "INVT"
      OBVIOUS
    <2>3. PICK count, width : count = d.rows /\ width = d.width
      OBVIOUS
    <2>4. count \in Nat /\ width \in Nat
      BY <2>2, <2>3
    <2> DEFINE k == CorpusRead(g, count, width)
    <2>5. Within(g, ix)
      OBVIOUS
    <2>6. h = k
      BY <2>3
    <2> HIDE DEF h
    <2>7. Within(k, ix) /\ k["id"] = g["id"]
      BY ONLY <2>4, <2>5, CorpusReadIs
    <2>8. k["vector_count"] = count
      BY ONLY <2>4, <2>5, CorpusReadIs
    <2>9. count > 0 => k["element_size"] = width
      BY ONLY <2>4, <2>5, CorpusReadIs
    <2>10. \A w \in Kept \ {"vector_count", "element_size"} : k[w] = g[w]
      BY ONLY <2>4, <2>5, CorpusReadIs
    <2> HIDE DEF k
    <2> QED
      BY <2>1, <2>2, <2>3, <2>6, <2>7, <2>8, <2>9, <2>10
  <1> HIDE DEF h
  <1>2. d.lists \in Seq(ListSizes) /\ d.nnz \in Nat
    BY ClusteredIs
  <1>3. ASSUME NEW W \in Nat \ {0}
        PROVE  Reads(<<>>, <<>>, Noted(h, "summary_width", W), ix)
    BY <1>1, WithinNoted, ReadsNothing
  <1>4. Reads(t2, s2, h, ix) /\ v2 \in Narrows(d.width)
    <2>1. FALSE \in BOOLEAN /\ d.width \in Nat \ {0}
      OBVIOUS
    <2>2. \A W \in Nat \ {0} : Reads(<<>>, <<>>, Noted(h, "summary_width", W), ix)
      BY <1>3
    <2>3. Within(h, ix) /\ h["id"] # "INVT"
      BY <1>1
    <2> QED
      BY <1>2, <2>1, <2>2, <2>3, ListsFollow
  <1> HIDE DEF t2, s2
  <1>5. Reads(t1, s2, h, ix)
    <2>1. Fits("check_element_size", s2, h, ix)
      BY <1>1 DEF Fits
    <2>2. "check_element_size" \in Marks \ {"payload"}
      BY DEF Marks
    <2> QED
      BY <1>4, <2>1, <2>2, ReadsMark
  <1> HIDE DEF t1
  <1>6. Reads(Cons(Scalar("vector_count", 8), t1), Join(v1, s2), g, ix)
    BY <1>2, <1>5, VectorsFollow DEF h
  <1>7. v1 \in Narrows(d.width)
    BY <1>2, VectorsNarrow
  <1>8. SeismicPayload(d) = Join(v1, v2)
    BY DEF SeismicPayload, Join
  <1>9. SeismicItems = Cons(Scalar("vector_count", 8), t1)
    <2>1. c \in Expected /\ n \in Expected /\ <<>> \in Seq(Expected)
      BY ClusterItems, MarkIs DEF Marks
    <2>2. SeismicItems = Join(<<Scalar("vector_count", 8)>>, Two(c, n))
      BY DEF SeismicItems, VectorItems, Join, Two
    <2> HIDE DEF c, n
    <2>4. Two(c, n) = t1
      BY <2>1, Shorts DEF t1, t2
    <2> QED
      BY <2>2, <2>4 DEF Join, Cons
  <1> HIDE DEF v1, v2
  <1>10. s2 = v2
    BY <1>4, JoinIs DEF s2, Narrows
  <1> QED
    BY <1>4, <1>6, <1>7, <1>8, <1>9, <1>10, NarrowsJoin

(* After the header of a quantized payload. *)
QuantizerRead(g, d) ==
  Noted(Noted(Noted(g, "sq_type", d.width - 1), "vmin", d.vmin), "vmax", d.vmax)

LEMMA QuantizerFollow ==
  ASSUME NEW d, IsQuantized(d), NEW T, NEW S, NEW g, NEW ix, Within(g, ix), g["id"] # "INVT",
         Reads(T, S, QuantizerRead(g, d), ix)
  PROVE  /\ Reads(Join(QuantizerItems, T), Join(Quantizer(d), S), g, ix)
         /\ \A w : Quantizer(d) \in Narrows(w)
  <1> DEFINE a == Noted(g, "sq_type", d.width - 1)
             b == Noted(a, "vmin", d.vmin)
             c == Noted(b, "vmax", d.vmax)
             v1 == WriteScalar("sq_type", 1, d.width - 1)
             v2 == WriteScalar("vmin", 4, d.vmin)
             v3 == WriteScalar("vmax", 4, d.vmax)
             s3 == Join(v3, S)
             s2 == Join(v2, s3)
             m  == Mark("check_quantizer")
             t4 == Cons(m, T)
             t3 == Cons(Scalar("vmax", 4), t4)
             t2 == Cons(Scalar("vmin", 4), t3)
             t1 == Cons(Scalar("sq_type", 1), t2)
  <1>1. d.width - 1 \in {0, 1} /\ d.width - 1 \in Int /\ d.vmin \in Int /\ d.vmax \in Int /\ d.vmin < d.vmax
    BY DEF IsQuantized
  <1>2. /\ "sq_type" \in (ScalarPlaces \ HeaderPlaces) /\ "sq_type" \notin Branches
        /\ "vmin" \in (ScalarPlaces \ HeaderPlaces) /\ "vmin" \notin Branches
        /\ "vmax" \in (ScalarPlaces \ HeaderPlaces) /\ "vmax" \notin Branches
        /\ "sq_type" \in Kept /\ "vmin" \in Kept /\ "vmax" \in Kept
    BY DEF ScalarPlaces, HeaderPlaces, Branches, Kept
  <1>3. c = QuantizerRead(g, d)
    BY DEF QuantizerRead
  <1>4. Within(a, ix) /\ a["id"] = g["id"] /\ a["sq_type"] = d.width - 1
    BY <1>2, WithinNoted
  <1> HIDE DEF a
  <1>5. Within(b, ix) /\ b["id"] = a["id"] /\ b["vmin"] = d.vmin /\ b["sq_type"] = a["sq_type"]
    BY <1>2, <1>4, WithinNoted
  <1> HIDE DEF b
  <1>6. Reads(T, S, c, ix) /\ Within(c, ix) /\ c["sq_type"] = d.width - 1 /\ c["vmin"] = d.vmin
        /\ c["vmax"] = d.vmax
    <2>1. Within(c, ix) /\ c["vmax"] = d.vmax /\ c["sq_type"] = b["sq_type"] /\ c["vmin"] = b["vmin"]
      BY <1>2, <1>5, WithinNoted
    <2> HIDE DEF c
    <2> QED
      BY <1>3, <1>4, <1>5, <2>1
  <1> HIDE DEF c
  <1>7. Reads(t4, S, c, ix)
    <2>1. Fits("check_quantizer", S, c, ix)
      BY <1>1, <1>6 DEF Fits
    <2>2. "check_quantizer" \in Marks \ {"payload"}
      BY DEF Marks
    <2> QED
      BY <1>6, <2>1, <2>2, ReadsMark
  <1> HIDE DEF t4
  <1>8. \A what \in {"sq_type", "vmin", "vmax"} : \A v, k : \A t \in Seq(Expected) : Join(Then(what, v, k), t) = t
    <2>1. \A t \in Seq(Expected) : Join(<<>>, t) = t
      BY JoinIs
    <2> QED
      BY <1>2, <2>1, ThenNothing
  <1>9. Reads(t3, s3, b, ix)
    <2>1. t4 \in Seq(Expected) /\ S \in Seq(Cells) /\ Inside(t4) /\ Follows(t4, S, c, ix)
      BY <1>7 DEF Reads
    <2>2. Join(Then("vmax", d.vmax, c), t4) = t4
      BY <1>8, <2>1
    <2> QED
      BY <1>1, <1>2, <1>4, <1>5, <2>1, <2>2, Sizes, ReadsKept DEF c
  <1> HIDE DEF t3, s3
  <1>10. Reads(t2, s2, a, ix)
    <2>1. t3 \in Seq(Expected) /\ s3 \in Seq(Cells) /\ Inside(t3) /\ Follows(t3, s3, b, ix)
      BY <1>9 DEF Reads
    <2>2. Join(Then("vmin", d.vmin, b), t3) = t3
      BY <1>8, <2>1
    <2> QED
      BY <1>1, <1>2, <1>4, <2>1, <2>2, Sizes, ReadsKept DEF b
  <1> HIDE DEF t2, s2
  <1>11. Reads(t1, Join(v1, s2), g, ix)
    <2>1. t2 \in Seq(Expected) /\ s2 \in Seq(Cells) /\ Inside(t2) /\ Follows(t2, s2, a, ix)
      BY <1>10 DEF Reads
    <2>2. Join(Then("sq_type", d.width - 1, a), t2) = t2
      BY <1>8, <2>1
    <2> QED
      BY <1>1, <1>2, <2>1, <2>2, Sizes, ReadsKept DEF a
  <1>12. Join(QuantizerItems, T) = t1
    <2> DEFINE x == Scalar("sq_type", 1)
               y == Scalar("vmin", 4)
               z == Scalar("vmax", 4)
    <2>1. QuantizerItems = Four(x, y, z, m)
      BY DEF QuantizerItems, Four
    <2>2. x \in Expected /\ y \in Expected /\ z \in Expected /\ m \in Expected
      BY <1>2, Sizes, ScalarIs, MarkIs DEF Marks
    <2>3. T \in Seq(Expected)
      BY DEF Reads
    <2>4. t1 = Cons(x, Cons(y, Cons(z, Cons(m, T))))
      BY DEF t2, t3, t4
    <2> HIDE DEF x, y, z, m, t1
    <2> QED
      BY <2>1, <2>2, <2>3, <2>4, JoinedFour
  <1>13. v1 \in Seq(Cells) /\ v2 \in Seq(Cells) /\ v3 \in Seq(Cells)
         /\ \A w : v1 \in Narrows(w) /\ v2 \in Narrows(w) /\ v3 \in Narrows(w)
    <2>1. Int \subseteq Values
      BY DEF Values
    <2>2. v1 \in Seq(Cells) /\ \A w : v1 \in Narrows(w)
      BY <1>1, <1>2, <2>1, Sizes, ScalarWritten, NarrowsScalar
    <2>3. v2 \in Seq(Cells) /\ \A w : v2 \in Narrows(w)
      BY <1>1, <1>2, <2>1, Sizes, ScalarWritten, NarrowsScalar
    <2>4. v3 \in Seq(Cells) /\ \A w : v3 \in Narrows(w)
      BY <1>1, <1>2, <2>1, Sizes, ScalarWritten, NarrowsScalar
    <2> QED
      BY <2>2, <2>3, <2>4
  <1>14. Quantizer(d) = Join(Join(v1, v2), v3)
    BY DEF Quantizer, Join
  <1> HIDE DEF v1, v2, v3
  <1>15. Join(Quantizer(d), S) = Join(v1, s2)
    <2>1. S \in Seq(Cells)
      BY DEF Reads
    <2> QED
      BY <1>13, <1>14, <2>1, Regrouped DEF s2, s3
  <1>16. \A w : Quantizer(d) \in Narrows(w)
    BY <1>13, <1>14, NarrowsJoin
  <1> QED
    BY <1>11, <1>12, <1>15, <1>16


(* A scalar on a boundary of eight. *)
WritePadded(what, v) == <<Valued(PaddedScalar(what, 8), v)>>

LEMMA PaddedWritten ==
  ASSUME NEW what \in ScalarPlaces \ {"summary_width"}, NEW v \in Int
  PROVE  WritePadded(what, v) \in Seq(Cells) /\ \A w : WritePadded(what, v) \in Narrows(w)
  <1> DEFINE c == Valued(PaddedScalar(what, 8), v)
  <1>1. PaddedScalar(what, 8) \in Expected /\ PaddedScalar(what, 8).what = what
        /\ PaddedScalar(what, 8).bytes = 8 /\ what \notin Marks /\ what \notin ArrayPlaces
    BY Sizes, ScalarIs DEF PaddedScalar, Item
  <1>2. Suits(PaddedScalar(what, 8), v)
    BY <1>1 DEF Suits, Values
  <1>3. c \in Cells /\ c.what = what
    BY <1>1, <1>2, ValuedIs DEF Valued
  <1>4. what # "section"
    BY <1>1 DEF ArrayPlaces
  <1> HIDE DEF c
  <1>5. <<c>> \in Seq(Cells) /\ Len(<<c>>) = 1 /\ <<c>>[1] = c
    BY <1>3
  <1>6. \A w : <<c>> \in Narrows(w)
    BY <1>3, <1>4, <1>5 DEF Narrows
  <1> QED
    BY <1>5, <1>6 DEF WritePadded, c

LEMMA ReadsPadded ==
  ASSUME NEW what \in ScalarPlaces \ HeaderPlaces, NEW v \in Int,
         NEW t \in Seq(Expected), NEW s \in Seq(Cells), NEW g, NEW ix, Within(g, ix), Inside(t),
         g["id"] # "INVT",
         Follows(Join(Then(what, v, Noted(g, what, v)), t), s, Noted(g, what, v), ix)
  PROVE  Reads(Cons(PaddedScalar(what, 8), t), Join(WritePadded(what, v), s), g, ix)
  <1>1. PaddedScalar(what, 8) \in Expected /\ PaddedScalar(what, 8).what = what
        /\ PaddedScalar(what, 8).bytes = 8 /\ what \notin Marks
    BY Sizes, ScalarIs DEF PaddedScalar, Item
  <1>2. Suits(PaddedScalar(what, 8), v)
    BY <1>1 DEF Suits, Values
  <1>3. Join(WritePadded(what, v), s) = Cons(Valued(PaddedScalar(what, 8), v), s)
    BY DEF WritePadded, Cons, Join
  <1> QED
    BY <1>1, <1>2, <1>3, ReadsItem

(* What follows this is for the disk index. *)
LEMMA ThenDisk ==
  ASSUME NEW what \in {"section_len", "count"}, NEW v, NEW g, NEW X, DiskNext(what, v) \in Seq(X)
  PROVE  Then(what, v, g) = DiskNext(what, v)
  <1>1. VectorsNext(what, v, g) = <<>> /\ ClustersNext(what, v, g) = <<>>
    BY DEF VectorsNext, ClustersNext
  <1>2. ListsNext(what, v) = <<>> /\ PostingsNext(what, v, g) = <<>> /\ IdMapNext(what, v) = <<>>
    BY DEF ListsNext, PostingsNext, IdMapNext
  <1> DEFINE d == DiskNext(what, v)
  <1>3. d \in Seq(X)
    OBVIOUS
  <1>4. Then(what, v, g) = (((((<<>> \o <<>>) \o <<>>) \o <<>>) \o d) \o <<>>)
    BY <1>1, <1>2 DEF Then
  <1> HIDE DEF d
  <1>5. <<>> \o <<>> = <<>>
    OBVIOUS
  <1> QED
    BY <1>3, <1>4, <1>5, JoinNone DEF d

(* The section of the blocks, their locators, the corpus that is left.      *)
LEMMA SectionFollow ==
  ASSUME NEW count \in Nat, NEW section \in Nat \ {0}, NEW left \in Nat, NEW nnz \in Nat,
         NEW width \in Nat \ {0}, NEW dim \in Nat, NEW g, NEW ix, Within(g, ix), g["id"] # "INVT",
         g["num_vectors"] = count, g["id"] = "DSSQ" => g["sq_type"] + 1 = width /\ InnerOf(ix).width = width
  PROVE  Reads(Cons(PaddedScalar("section_len", 8), <<>>),
               Join(WritePadded("section_len", section),
                 Join(WriteArray("section", section, 1, 1, width),
                   Join(WritePadded("count", count),
                     Join(WriteArray("locators", count, 12, 4, "locators"),
                       Join(Vectors(left, nnz, width, dim), <<>>))))), g, ix)
  <1> DEFINE h  == Noted(g, "count", count)
             k  == CorpusRead(h, left, width)
             a  == Mark("check_widths")
             b  == Scalar("vector_count", 8)
             c  == Array("locators", count, 12, 4)
             d  == Mark("check_locators")
             e  == PaddedScalar("count", 8)
             f  == Array("section", section, 1, 1)
             v1 == WritePadded("section_len", section)
             v2 == WriteArray("section", section, 1, 1, width)
             v3 == WritePadded("count", count)
             v4 == WriteArray("locators", count, 12, 4, "locators")
             v5 == Vectors(left, nnz, width, dim)
             s5 == Join(v5, <<>>)
             s4 == Join(v4, s5)
             s3 == Join(v3, s4)
             s2 == Join(v2, s3)
             t6 == Cons(a, <<>>)
             t5 == Cons(b, t6)
             t4 == Cons(c, t5)
             t3 == Cons(d, t4)
             t2 == Cons(e, <<>>)
             t1 == Cons(f, t2)
  <1>1. /\ "count" \in Kept /\ "num_vectors" \in Kept /\ "sq_type" \in Kept \ {"vector_count", "element_size", "count"}
        /\ "section_len" \in ScalarPlaces \ HeaderPlaces /\ "section_len" \notin Kept
        /\ "count" \in ScalarPlaces \ HeaderPlaces /\ "vector_count" \in ScalarPlaces
        /\ "locators" \in ArrayPlaces \ {"indptr", "id_map"} /\ "section" \in ArrayPlaces \ {"indptr", "id_map"}
        /\ "locators" \in Values /\ width \in Values /\ count \in Int /\ section \in Int
    BY DEF Kept, ScalarPlaces, ArrayPlaces, HeaderPlaces, Values
  <1>2. Within(h, ix) /\ h["id"] = g["id"] /\ h["count"] = count /\ h["num_vectors"] = count
        /\ h["sq_type"] = g["sq_type"]
    BY <1>1, WithinNoted
  <1> HIDE DEF h
  <1>3. Within(k, ix) /\ k["id"] = g["id"] /\ k["sq_type"] = g["sq_type"]
    <2>1. left \in Nat /\ width \in Nat
      OBVIOUS
    <2>2. Within(k, ix) /\ k["id"] = h["id"]
      BY ONLY <1>2, <2>1, CorpusReadIs
    <2>3. \A w \in Kept \ {"vector_count", "element_size"} : k[w] = h[w]
      BY ONLY <1>2, <2>1, CorpusReadIs
    <2> HIDE DEF k
    <2> QED
      BY <1>1, <1>2, <2>2, <2>3
  <1> HIDE DEF k
  <1>4. a \in Expected /\ b \in Expected /\ c \in Expected /\ d \in Expected /\ e \in Expected /\ f \in Expected
    <2>1. a \in Expected /\ d \in Expected
      BY MarkIs DEF Marks
    <2>2. b \in Expected /\ e \in Expected
      BY <1>1, Sizes, ScalarIs
    <2>3. c \in Expected /\ f \in Expected
      BY <1>1, Sizes, ArrayIs
    <2> QED
      BY <2>1, <2>2, <2>3
  <1>5. Reads(t6, <<>>, k, ix)
    <2>1. Fits("check_widths", <<>>, k, ix)
      BY <1>3 DEF Fits
    <2>2. "check_widths" \in Marks \ {"payload"}
      BY DEF Marks
    <2>3. Reads(<<>>, <<>>, k, ix)
      BY <1>3, ReadsNothing
    <2> QED
      BY <2>1, <2>2, <2>3, ReadsMark
  <1> HIDE DEF t6
  <1>6. Reads(t5, s5, h, ix)
    BY <1>2, <1>5, VectorsFollow DEF k
  <1> HIDE DEF t5, s5
  <1>7. Reads(t4, s4, h, ix)
    BY <1>1, <1>6, Sizes, ReadsArray
  <1> HIDE DEF t4, s4
  <1>8. Reads(t3, s4, h, ix)
    <2>1. Fits("check_locators", s4, h, ix)
      BY <1>2 DEF Fits
    <2>2. "check_locators" \in Marks \ {"payload"}
      BY DEF Marks
    <2> QED
      BY <1>7, <2>1, <2>2, ReadsMark
  <1>9. DiskNext("count", count) = Join(Join(Two(d, c), <<b>>), <<a>>)
    BY DEF DiskNext, Two, VectorItems, Join
  <1>10. DiskNext("section_len", section) = Two(f, e)
    BY DEF DiskNext, Two
  <1> HIDE DEF a, b, c, d, e, f, v1, v2, v3, v4, v5
  <1>11. t6 = Cons(a, <<>>) /\ t5 = Cons(b, t6) /\ t4 = Cons(c, t5) /\ t3 = Cons(d, t4)
    BY DEF t6, t5, t4
  <1>12. Inside(<<>>) /\ <<>> \in Seq(Expected)
    BY DEF Inside
  <1>13. DiskNext("count", count) \in Seq(Expected) /\ Join(DiskNext("count", count), <<>>) = t3
    <2>1. Two(d, c) \in Seq(Expected) /\ <<b>> \in Seq(Expected) /\ <<a>> \in Seq(Expected)
      BY <1>4, <1>12, JoinedPair, JoinedOne
    <2>2. DiskNext("count", count) = Join(Two(d, c), Join(<<b>>, <<a>>))
      <3> DEFINE p == Two(d, c)
                 q == <<b>>
                 r == <<a>>
      <3>1. DiskNext("count", count) = Join(Join(p, q), r)
        BY <1>9
      <3>2. p \in Seq(Expected) /\ q \in Seq(Expected) /\ r \in Seq(Expected)
        BY <2>1
      <3> HIDE DEF p, q, r
      <3>3. DiskNext("count", count) = Join(p, Join(q, r))
        BY <3>1, <3>2, JoinShifts
      <3> QED
        BY <3>3 DEF p, q, r
    <2>3. Join(<<b>>, <<a>>) = Cons(b, <<a>>) /\ <<a>> = t6
      BY <1>4, <1>11, <2>1, JoinedOne, Shorts
    <2>4. t5 \in Seq(Expected)
      BY <1>4, <1>11, <2>1, <2>3, ConsIs
    <2>5. Join(Two(d, c), t5) = t3 /\ Cons(c, t5) \in Seq(Expected)
      BY <1>4, <1>11, <2>4, JoinedPair
    <2>6. DiskNext("count", count) = t3
      BY <1>11, <2>2, <2>3, <2>5
    <2>7. t3 \in Seq(Expected)
      BY <1>4, <1>11, <2>5, ConsIs
    <2> QED
      BY <2>6, <2>7, JoinIs
  <1>14. t3 \in Seq(Expected) /\ s4 \in Seq(Cells) /\ Follows(t3, s4, h, ix)
    BY <1>8 DEF Reads
  <1>15. Reads(t2, s3, g, ix)
    <2>1. Join(Then("count", count, h), <<>>) = t3
      BY <1>9, <1>13, ThenDisk
    <2> QED
      BY <1>1, <1>12, <1>14, <2>1, ReadsPadded DEF h, e, v3
  <1> HIDE DEF t2, s3
  <1>16. Reads(t1, s2, g, ix)
    BY <1>1, <1>15, Sizes, ReadsArray DEF f, v2
  <1>17. Two(f, e) \in Seq(Expected) /\ Join(Two(f, e), <<>>) = t1
    <2> DEFINE p == Two(f, e)
               n == Cons(e, <<>>)
    <2>1. p \in Seq(Expected) /\ Join(p, <<>>) = Cons(f, n)
      <3>1. p = Cons(f, n)
        BY <1>4, Shorts
      <3>2. p \in Seq(Expected)
        BY <1>4 DEF Two
      <3> HIDE DEF p, n
      <3> QED
        BY <3>1, <3>2, JoinIs
    <2>2. t2 = n
      BY DEF t2
    <2> HIDE DEF p, n
    <2>3. p \in Seq(Expected) /\ Join(p, <<>>) = t1
      BY <2>1, <2>2
    <2> QED
      BY <2>3 DEF p
  <1>18. t1 \in Seq(Expected) /\ s2 \in Seq(Cells) /\ Follows(t1, s2, g, ix)
    BY <1>16 DEF Reads
  <1>19. Noted(g, "section_len", section) = g
    BY <1>1, NotedSame DEF Within
  <1> HIDE DEF t1, s2
  <1>20. Reads(Cons(PaddedScalar("section_len", 8), <<>>), Join(v1, s2), g, ix)
    <2>1. Join(Then("section_len", section, g), <<>>) = t1
      BY <1>10, <1>17, ThenDisk
    <2> QED
      BY <1>1, <1>12, <1>18, <1>19, <2>1, ReadsPadded DEF v1
  <1> QED
    BY <1>20 DEF v1, v2, v3, v4, v5, s5, s4, s3, s2

LEMMA ThreeIs ==
  ASSUME NEW X, NEW a \in X, NEW b \in X, NEW c \in X
  PROVE  Three(a, b, c) \in Seq(X) /\ Three(a, b, c) = Cons(a, Cons(b, Cons(c, <<>>)))
  <1>0. PICK z : z = <<>>
    OBVIOUS
  <1>1. z \in Seq(X)
    BY <1>0
  <1>2. Three(a, b, c) \in Seq(X) /\ Join(Three(a, b, c), z) = Cons(a, Cons(b, Cons(c, z)))
    BY <1>1, JoinedThree
  <1> HIDE DEF Three
  <1>3. Join(Three(a, b, c), <<>>) = Three(a, b, c)
    BY <1>2, JoinIs
  <1> QED
    BY <1>0, <1>2, <1>3

LEMMA SectionNarrow ==
  ASSUME NEW count \in Nat, NEW section \in Nat \ {0}, NEW left \in Nat, NEW nnz \in Nat,
         NEW width \in Nat \ {0}, NEW dim \in Nat
  PROVE  /\ WritePadded("section_len", section) \in Narrows(width)
         /\ WriteArray("section", section, 1, 1, width) \in Narrows(width)
         /\ WritePadded("count", count) \in Narrows(width)
         /\ WriteArray("locators", count, 12, 4, "locators") \in Narrows(width)
         /\ Vectors(left, nnz, width, dim) \in Narrows(width)
  <1>1. /\ "section_len" \in ScalarPlaces \ {"summary_width"} /\ "count" \in ScalarPlaces \ {"summary_width"}
        /\ "section" \in ArrayPlaces /\ "locators" \in ArrayPlaces /\ "locators" \in Values
        /\ width \in Values /\ section \in Int /\ count \in Int
    BY DEF ScalarPlaces, ArrayPlaces, Values
  <1>2. WritePadded("section_len", section) \in Narrows(width) /\ WritePadded("count", count) \in Narrows(width)
    BY <1>1, PaddedWritten
  <1>3. WriteArray("section", section, 1, 1, width) \in Narrows(width)
    BY <1>1, Sizes, NarrowsArray
  <1>4. WriteArray("locators", count, 12, 4, "locators") \in Narrows(width)
    BY <1>1, Sizes, NarrowsArray
  <1>5. Vectors(left, nnz, width, dim) \in Narrows(width)
    BY VectorsNarrow
  <1> QED
    BY <1>2, <1>3, <1>4, <1>5

(* The parts of a disk index in its file. *)
DiskParts(count, lists, section, left, nnz, width, dim) ==
  Join(Join(Join(Join(Join(Join(
    WriteScalar("num_vectors", 8, count), ClusteredLists(lists, width, TRUE)), WritePadded("section_len", section)),
    WriteArray("section", section, 1, 1, width)), WritePadded("count", count)),
    WriteArray("locators", count, 12, 4, "locators")), Vectors(left, nnz, width, dim))

LEMMA DiskFollow ==
  ASSUME NEW count \in Nat, NEW lists \in Seq(ListSizes), NEW section \in Nat \ {0}, NEW left \in Nat,
         NEW nnz \in Nat, NEW width \in Nat \ {0}, NEW dim \in Nat, NEW g, NEW ix,
         Within(g, ix), g["id"] # "INVT",
         g["id"] = "DSSQ" => g["sq_type"] + 1 = width /\ InnerOf(ix).width = width
  PROVE  /\ Reads(DiskItems, DiskParts(count, lists, section, left, nnz, width, dim), g, ix)
         /\ DiskParts(count, lists, section, left, nnz, width, dim) \in Narrows(width)
  <1> DEFINE h  == Noted(g, "num_vectors", count)
             r1 == WriteScalar("num_vectors", 8, count)
             r2 == ClusteredLists(lists, width, TRUE)
             v1 == WritePadded("section_len", section)
             v2 == WriteArray("section", section, 1, 1, width)
             v3 == WritePadded("count", count)
             v4 == WriteArray("locators", count, 12, 4, "locators")
             v5 == Vectors(left, nnz, width, dim)
             s  == Join(v1, Join(v2, Join(v3, Join(v4, Join(v5, <<>>)))))
             s2 == Join(r2, s)
             p  == PaddedScalar("section_len", 8)
             n  == Scalar("n_lists", 8)
             t3 == Cons(p, <<>>)
             t2 == Cons(n, t3)
             t1 == Cons(Scalar("num_vectors", 8), t2)
             all == DiskParts(count, lists, section, left, nnz, width, dim)
  <1>1. /\ "num_vectors" \in Kept /\ "sq_type" \in Kept
        /\ "num_vectors" \in ScalarPlaces \ {"summary_width"} /\ "num_vectors" \in ScalarPlaces \ HeaderPlaces
        /\ "num_vectors" \notin Branches /\ "section_len" \in ScalarPlaces
        /\ count \in Int /\ count \in Values
    BY DEF Kept, ScalarPlaces, HeaderPlaces, Branches, Values
  <1>2. Within(h, ix) /\ h["id"] = g["id"] /\ h["num_vectors"] = count /\ h["sq_type"] = g["sq_type"]
    BY <1>1, WithinNoted
  <1> HIDE DEF h
  <1>3. ASSUME NEW W \in Nat \ {0} PROVE Reads(t3, s, Noted(h, "summary_width", W), ix)
    <2> DEFINE k == Noted(h, "summary_width", W)
    <2>1. Within(k, ix) /\ k["id"] = h["id"] /\ k["num_vectors"] = h["num_vectors"] /\ k["sq_type"] = h["sq_type"]
      BY <1>1, <1>2, WithinNoted
    <2> HIDE DEF k
    <2>2. Within(k, ix) /\ k["id"] # "INVT" /\ k["num_vectors"] = count
          /\ (k["id"] = "DSSQ" => k["sq_type"] + 1 = width /\ InnerOf(ix).width = width)
      BY <1>2, <2>1
    <2>3. Reads(t3, s, k, ix)
      BY <2>2, SectionFollow
    <2> QED
      BY <2>3 DEF k
  <1> HIDE DEF t3, s
  <1>4. Reads(t2, s2, h, ix) /\ r2 \in Narrows(width)
    <2>1. TRUE \in BOOLEAN
      OBVIOUS
    <2>2. \A W \in Nat \ {0} : Reads(t3, s, Noted(h, "summary_width", W), ix)
      BY <1>3
    <2>3. Within(h, ix) /\ h["id"] # "INVT"
      BY <1>2
    <2> QED
      BY <2>1, <2>2, <2>3, ListsFollow
  <1> HIDE DEF t2, s2
  <1>5. Reads(t1, Join(r1, s2), g, ix)
    <2>1. t2 \in Seq(Expected) /\ s2 \in Seq(Cells) /\ Inside(t2) /\ Follows(t2, s2, h, ix)
      BY <1>4 DEF Reads
    <2>2. Join(Then("num_vectors", count, h), t2) = t2
      BY <1>1, <2>1, ThenNothing, JoinIs
    <2> QED
      BY <1>1, <2>1, <2>2, Sizes, ReadsKept DEF h
  <1>6. DiskItems = t1
    <2> DEFINE x == Scalar("num_vectors", 8)
    <2>1. DiskItems = Three(x, n, p)
      BY DEF DiskItems, Three
    <2>2. x \in Expected /\ n \in Expected /\ p \in Expected /\ <<>> \in Seq(Expected)
      BY <1>1, Sizes, ScalarIs, ClusterItems
    <2>3. t1 = Cons(x, Cons(n, Cons(p, <<>>)))
      BY DEF t2, t3
    <2> HIDE DEF x, n, p, t1
    <2> QED
      BY <2>1, <2>2, <2>3, ThreeIs
  <1>7. r1 \in Narrows(width)
    BY <1>1, Sizes, NarrowsScalar
  <1>8. v1 \in Narrows(width) /\ v2 \in Narrows(width) /\ v3 \in Narrows(width) /\ v4 \in Narrows(width)
        /\ v5 \in Narrows(width)
    BY SectionNarrow
  <1> DEFINE p2 == Join(r1, r2)
             p3 == Join(p2, v1)
             p4 == Join(p3, v2)
             p5 == Join(p4, v3)
             p6 == Join(p5, v4)
             q4 == Join(v4, v5)
             q3 == Join(v3, q4)
             q2 == Join(v2, q3)
             q1 == Join(v1, q2)
  <1>9. all = Join(p6, v5)
    BY DEF DiskParts
  <1>10. s2 = Join(r2, Join(v1, Join(v2, Join(v3, Join(v4, Join(v5, <<>>))))))
    BY DEF s2, s
  <1> HIDE DEF r1, r2, v1, v2, v3, v4, v5, all
  <1>11. p2 \in Narrows(width)
    BY <1>4, <1>7, NarrowsJoin
  <1> HIDE DEF p2
  <1>12. p3 \in Narrows(width)
    BY <1>8, <1>11, NarrowsJoin
  <1> HIDE DEF p3
  <1>13. p4 \in Narrows(width)
    BY <1>8, <1>12, NarrowsJoin
  <1> HIDE DEF p4
  <1>14. p5 \in Narrows(width)
    BY <1>8, <1>13, NarrowsJoin
  <1> HIDE DEF p5
  <1>15. p6 \in Narrows(width)
    BY <1>8, <1>14, NarrowsJoin
  <1> HIDE DEF p6
  <1>16. all \in Narrows(width)
    BY <1>8, <1>9, <1>15, NarrowsJoin
  <1>17. /\ r1 \in Seq(Cells) /\ r2 \in Seq(Cells) /\ v1 \in Seq(Cells) /\ v2 \in Seq(Cells)
         /\ v3 \in Seq(Cells) /\ v4 \in Seq(Cells) /\ v5 \in Seq(Cells) /\ p2 \in Seq(Cells)
         /\ p3 \in Seq(Cells) /\ p4 \in Seq(Cells) /\ p5 \in Seq(Cells)
    BY <1>4, <1>7, <1>8, <1>11, <1>12, <1>13, <1>14 DEF Narrows
  <1>18. q4 \in Seq(Cells) /\ q4 = Join(v4, Join(v5, <<>>))
    BY <1>17, JoinIs
  <1>19. all = Join(p5, q4)
    BY <1>9, <1>17, JoinShifts DEF p6
  <1> HIDE DEF q4
  <1>20. q3 \in Seq(Cells) /\ all = Join(p4, q3)
    BY <1>17, <1>18, <1>19, JoinIs, JoinShifts DEF p5
  <1>21. q3 = Join(v3, Join(v4, Join(v5, <<>>)))
    BY <1>18
  <1> HIDE DEF q3
  <1>22. q2 \in Seq(Cells) /\ all = Join(p3, q2)
    BY <1>17, <1>20, JoinIs, JoinShifts DEF p4
  <1> HIDE DEF q2
  <1>23. q1 \in Seq(Cells) /\ all = Join(p2, q1)
    BY <1>17, <1>22, JoinIs, JoinShifts DEF p3
  <1>24. s2 = Join(r2, q1)
    BY <1>10, <1>21 DEF q2
  <1> HIDE DEF q1
  <1>25. all = Join(r1, s2)
    BY <1>17, <1>23, <1>24, JoinShifts DEF p2
  <1> QED
    BY <1>5, <1>6, <1>16, <1>25 DEF all

-----------------------------------------------------------------------------
(* An inverted index: postings and their scores.                            *)

LEMMA ThenPostings ==
  ASSUME NEW what \in {"posting_width", "list_size", "scores_size"}, NEW v, NEW g, NEW X,
         PostingsNext(what, v, g) \in Seq(X)
  PROVE  Then(what, v, g) = PostingsNext(what, v, g)
  <1>1. VectorsNext(what, v, g) = <<>> /\ ClustersNext(what, v, g) = <<>>
    BY DEF VectorsNext, ClustersNext
  <1>2. ListsNext(what, v) = <<>> /\ DiskNext(what, v) = <<>> /\ IdMapNext(what, v) = <<>>
    BY DEF ListsNext, DiskNext, IdMapNext
  <1> DEFINE d == PostingsNext(what, v, g)
  <1>3. d \in Seq(X)
    OBVIOUS
  <1>4. Then(what, v, g) = (((((<<>> \o <<>>) \o <<>>) \o d) \o <<>>) \o <<>>)
    BY <1>1, <1>2 DEF Then
  <1> HIDE DEF d
  <1>5. <<>> \o <<>> = <<>>
    OBVIOUS
  <1> QED
    BY <1>3, <1>4, <1>5, JoinNone DEF d

LEMMA AheadCons ==
  ASSUME NEW x, NEW t \in Seq(Expected), NEW what, x \in Expected
  PROVE  Ahead(Cons(x, t), what) <=> x.what = what \/ Ahead(t, what)
  <1> DEFINE c == Cons(x, t)
  <1>1. Len(c) = Len(t) + 1 /\ c[1] = x /\ DOMAIN c = 1 .. Len(t) + 1
        /\ \A i \in 1 .. Len(t) : c[i + 1] = t[i]
    BY DEF Cons
  <1> HIDE DEF c
  <1>2. ASSUME x.what = what PROVE Ahead(c, what)
    BY <1>1, <1>2 DEF Ahead
  <1>3. ASSUME Ahead(t, what) PROVE Ahead(c, what)
    <2>1. PICK i \in 1 .. Len(t) : t[i].what = what
      BY <1>3 DEF Ahead
    <2>2. i + 1 \in DOMAIN c /\ c[i + 1].what = what
      BY <1>1, <2>1
    <2> QED
      BY <2>2 DEF Ahead
  <1>4. ASSUME Ahead(c, what), x.what # what PROVE Ahead(t, what)
    <2>1. PICK i \in 1 .. Len(t) + 1 : c[i].what = what
      BY <1>1, <1>4 DEF Ahead
    <2>2. i # 1
      BY <1>1, <1>4, <2>1
    <2>3. i - 1 \in 1 .. Len(t) /\ (i - 1) + 1 = i
      BY <2>2
    <2>4. t[i - 1].what = what
      BY <1>1, <2>1, <2>3
    <2> QED
      BY <2>3, <2>4 DEF Ahead
  <1> QED
    BY <1>2, <1>3, <1>4 DEF c

LEMMA SpansNone ==
  ASSUME NEW s \in Seq(Cells)
  PROVE  Spans(s, 0)
  <1> DEFINE f == [i \in 1 .. 0 |-> 1]
  <1>1. \A i \in 1 .. 0 : FALSE
    OBVIOUS
  <1>2. f \in [1 .. 0 -> 1 .. Len(s)]
    BY <1>1
  <1> HIDE DEF f
  <1>3. /\ \A i, j \in 1 .. 0 : i < j => f[i] < f[j]
        /\ \A i \in 1 .. 0 : s[f[i]].bytes >= 8
    BY <1>1
  <1> QED
    BY <1>2, <1>3 DEF Spans

LEMMA SpansJoin ==
  ASSUME NEW a \in Seq(Cells), NEW s \in Seq(Cells), NEW m \in Nat, Spans(s, m)
  PROVE  Spans(Join(a, s), m)
  <1> DEFINE j == Join(a, s)
  <1>1. Len(j) = Len(a) + Len(s) /\ \A i \in 1 .. Len(s) : j[Len(a) + i] = s[i]
    BY DEF Join
  <1> HIDE DEF j
  <1>2. PICK f \in [1 .. m -> 1 .. Len(s)] :
          /\ \A i, k \in 1 .. m : i < k => f[i] < f[k]
          /\ \A i \in 1 .. m : s[f[i]].bytes >= 8
    BY DEF Spans
  <1> DEFINE h == [i \in 1 .. m |-> Len(a) + f[i]]
  <1>3. \A i \in 1 .. m : f[i] \in 1 .. Len(s)
    BY <1>2
  <1>4. h \in [1 .. m -> 1 .. Len(j)]
    BY <1>1, <1>3
  <1>5. \A i, k \in 1 .. m : i < k => h[i] < h[k]
    BY <1>2, <1>3
  <1>6. \A i \in 1 .. m : j[h[i]].bytes >= 8
    BY <1>1, <1>2, <1>3
  <1> HIDE DEF h
  <1>7. Spans(j, m)
    BY <1>4, <1>5, <1>6 DEF Spans
  <1> QED
    BY <1>7 DEF j

LEMMA SpansCons ==
  ASSUME NEW c \in Cells, c.bytes >= 8, NEW s \in Seq(Cells), NEW m \in Nat, Spans(s, m)
  PROVE  Spans(Cons(c, s), m + 1)
  <1> DEFINE j == Cons(c, s)
  <1>1. Len(j) = Len(s) + 1 /\ j[1] = c /\ \A i \in 1 .. Len(s) : j[i + 1] = s[i]
    BY DEF Cons
  <1> HIDE DEF j
  <1>2. PICK f \in [1 .. m -> 1 .. Len(s)] :
          /\ \A i, k \in 1 .. m : i < k => f[i] < f[k]
          /\ \A i \in 1 .. m : s[f[i]].bytes >= 8
    BY DEF Spans
  <1> DEFINE h == [i \in 1 .. m + 1 |-> IF i = 1 THEN 1 ELSE f[i - 1] + 1]
  <1>3. \A i \in 1 .. m : f[i] \in 1 .. Len(s)
    BY <1>2
  <1>4. \A i \in 1 .. m + 1 : i # 1 => i - 1 \in 1 .. m
    OBVIOUS
  <1>5. h \in [1 .. m + 1 -> 1 .. Len(j)]
    BY <1>1, <1>3, <1>4
  <1>6. \A i, k \in 1 .. m + 1 : i < k => h[i] < h[k]
    <2>1. ASSUME NEW i \in 1 .. m + 1, NEW k \in 1 .. m + 1, i < k PROVE h[i] < h[k]
      <3>1. k # 1 /\ k - 1 \in 1 .. m /\ f[k - 1] \in 1 .. Len(s) /\ h[k] = f[k - 1] + 1
        BY <1>3, <1>4, <2>1
      <3>2. CASE i = 1
        BY <3>1, <3>2
      <3>3. CASE i # 1
        <4>1. i - 1 \in 1 .. m /\ i - 1 < k - 1 /\ f[i - 1] \in 1 .. Len(s) /\ h[i] = f[i - 1] + 1
          BY <1>3, <1>4, <2>1, <3>3
        <4>2. f[i - 1] < f[k - 1]
          BY <1>2, <3>1, <4>1
        <4> QED
          BY <3>1, <4>1, <4>2
      <3> QED
        BY <3>2, <3>3
    <2> QED
      BY <2>1
  <1>7. \A i \in 1 .. m + 1 : j[h[i]].bytes >= 8
    BY <1>1, <1>2, <1>3, <1>4
  <1> HIDE DEF h
  <1>8. Spans(j, m + 1)
    BY <1>5, <1>6, <1>7 DEF Spans
  <1> QED
    BY <1>8 DEF j

(* A list of postings in its file. *)
PostingList(size) ==
  Join(Join(WriteScalar("list_size", 8, size), WriteArray("doc_ids", size, 4, 4, "doc_ids")),
       WriteArray("codes", size * 4, 1, 4, "codes"))

LEMMA PostingNarrow ==
  ASSUME NEW size \in Nat
  PROVE  /\ \A w : PostingList(size) \in Narrows(w)
         /\ WriteScalar("list_size", 8, size) \in Seq(Cells)
         /\ WriteArray("doc_ids", size, 4, 4, "doc_ids") \in Seq(Cells)
         /\ WriteArray("codes", size * 4, 1, 4, "codes") \in Seq(Cells)
  <1>1. /\ "list_size" \in ScalarPlaces \ {"summary_width"} /\ "doc_ids" \in ArrayPlaces /\ "codes" \in ArrayPlaces
        /\ size \in Values /\ "doc_ids" \in Values /\ "codes" \in Values /\ size * 4 \in Nat
    BY DEF ScalarPlaces, ArrayPlaces, Values
  <1> DEFINE a == WriteScalar("list_size", 8, size)
             b == WriteArray("doc_ids", size, 4, 4, "doc_ids")
             c == WriteArray("codes", size * 4, 1, 4, "codes")
  <1>2. \A w : a \in Narrows(w)
    BY <1>1, Sizes, NarrowsScalar
  <1>3. \A w : b \in Narrows(w)
    BY <1>1, Sizes, NarrowsArray
  <1>4. \A w : c \in Narrows(w)
    BY <1>1, Sizes, NarrowsArray
  <1>5. PostingList(size) = Join(Join(a, b), c)
    BY DEF PostingList
  <1> HIDE DEF a, b, c
  <1>6. \A w : PostingList(size) \in Narrows(w)
    BY <1>2, <1>3, <1>4, <1>5, NarrowsJoin
  <1>7. a \in Seq(Cells) /\ b \in Seq(Cells) /\ c \in Seq(Cells)
    BY <1>2, <1>3, <1>4 DEF Narrows
  <1> QED
    BY <1>6, <1>7 DEF a, b, c

LEMMA PostingFollow ==
  ASSUME NEW size \in Nat, NEW t, NEW s, NEW g, NEW ix, NEW m \in Nat,
         Within(g, ix), g["id"] = "INVT", g["n_term"] > 0,
         Reads(t, s, g, ix), Spans(s, m), Ahead(t, "scores_size"), ~Ahead(t, "n_term")
  PROVE  /\ Reads(Cons(Scalar("list_size", 8), t), Join(PostingList(size), s), g, ix)
         /\ Spans(Join(PostingList(size), s), m + 1)
         /\ Ahead(Cons(Scalar("list_size", 8), t), "scores_size")
         /\ ~Ahead(Cons(Scalar("list_size", 8), t), "n_term")
  <1> DEFINE x == Scalar("list_size", 8)
             a == Array("doc_ids", size, 4, 4)
             b == Array("codes", size * 4, 1, 4)
             v1 == WriteScalar("list_size", 8, size)
             v2 == WriteArray("doc_ids", size, 4, 4, "doc_ids")
             v3 == WriteArray("codes", size * 4, 1, 4, "codes")
             s3 == Join(v3, s)
             s2 == Join(v2, s3)
             t3 == Cons(b, t)
             t2 == Cons(a, t3)
  <1>1. /\ "list_size" \in ScalarPlaces \ HeaderPlaces /\ "list_size" \notin Kept
        /\ "doc_ids" \in ArrayPlaces \ {"indptr", "id_map"} /\ "codes" \in ArrayPlaces \ {"indptr", "id_map"}
        /\ "doc_ids" \in Values /\ "codes" \in Values /\ size \in Int /\ size \in Values
        /\ size * 4 \in Nat
    BY DEF ScalarPlaces, ArrayPlaces, HeaderPlaces, Kept, Values
  <1>2. t \in Seq(Expected) /\ s \in Seq(Cells) /\ Inside(t)
    BY DEF Reads
  <1>3. x \in Expected /\ x.what = "list_size" /\ a \in Expected /\ b \in Expected
    BY <1>1, Sizes, ScalarIs, ArrayIs
  <1>4. v1 \in Seq(Cells) /\ v2 \in Seq(Cells) /\ v3 \in Seq(Cells)
    BY PostingNarrow
  <1>5. Reads(t3, s3, g, ix)
    BY <1>1, Sizes, ReadsArray
  <1> HIDE DEF t3, s3
  <1>6. Reads(t2, s2, g, ix)
    BY <1>1, <1>5, Sizes, ReadsArray
  <1>7. PostingsNext("list_size", size, g) = Two(a, b)
    BY DEF PostingsNext, Two
  <1> HIDE DEF a, b
  <1>8. Two(a, b) \in Seq(Expected) /\ Join(Two(a, b), t) = t2
    BY <1>2, <1>3, JoinedPair DEF t3
  <1>9. Noted(g, "list_size", size) = g
    BY <1>1, NotedSame DEF Within
  <1> HIDE DEF t2, s2
  <1>10. Reads(Cons(x, t), Join(v1, s2), g, ix)
    <2>1. Join(Then("list_size", size, g), t) = t2
      BY <1>7, <1>8, ThenPostings
    <2>2. t2 \in Seq(Expected) /\ s2 \in Seq(Cells) /\ Follows(t2, s2, g, ix)
      BY <1>6 DEF Reads
    <2>3. PostingsAhead(x, t, size, g)
      BY <1>3 DEF PostingsAhead
    <2> QED
      BY <1>1, <1>2, <1>9, <2>1, <2>2, <2>3, Sizes, ReadsKept
  <1>11. Join(PostingList(size), s) = Join(v1, s2)
    <2>1. PostingList(size) = Join(Join(v1, v2), v3)
      BY DEF PostingList
    <2> HIDE DEF v1, v2, v3
    <2> QED
      BY <1>2, <1>4, <2>1, Regrouped DEF s2, s3
  <1>12. Spans(Join(v1, s2), m + 1)
    <2>1. Spans(s3, m) /\ s3 \in Seq(Cells)
      BY <1>2, <1>4, <1>5, SpansJoin DEF s3, Reads
    <2>2. Spans(s2, m) /\ s2 \in Seq(Cells)
      BY <1>4, <1>6, <2>1, SpansJoin DEF s2, Reads
    <2>3. Join(v1, s2) = Cons(Valued(x, size), s2)
      BY DEF WriteScalar, Cons, Join
    <2>4. Valued(x, size) \in Cells /\ Valued(x, size).bytes = 8
      <3>1. x.bytes = 8 /\ x.what \notin Marks
        BY <1>3 DEF Scalar, Item, Marks
      <3>2. Suits(x, size)
        BY <1>1, <3>1 DEF Suits
      <3>3. Valued(x, size) \in Cells
        BY <1>3, <3>1, <3>2, ValuedIs
      <3> HIDE DEF x
      <3> QED
        BY <3>1, <3>3 DEF Valued
    <2> HIDE DEF x
    <2> QED
      BY <2>2, <2>3, <2>4, SpansCons
  <1>13. Ahead(Cons(x, t), "scores_size") /\ ~Ahead(Cons(x, t), "n_term")
    BY <1>2, <1>3, AheadCons
  <1> QED
    BY <1>10, <1>11, <1>12, <1>13

(* All the lists there are, and what is written after them. *)
LEMMA PostingsFollow ==
  ASSUME NEW sizes \in Seq(Nat), NEW T, NEW S, NEW g, NEW ix, Within(g, ix), g["id"] = "INVT",
         g["n_term"] = Len(sizes), Reads(T, S, g, ix), Ahead(T, "scores_size"), ~Ahead(T, "n_term"),
         NEW F, F = FlattenSeq([i \in 1 .. Len(sizes) |-> PostingList(sizes[i])])
  PROVE  /\ Reads(Join(Repeat(Scalar("list_size", 8), Len(sizes)), T), Join(F, S), g, ix)
         /\ Spans(Join(F, S), Len(sizes))
         /\ \A w : F \in Narrows(w)
  <1> DEFINE n == Len(sizes)
             q == [i \in 1 .. n |-> PostingList(sizes[i])]
             x == Scalar("list_size", 8)
  <1>1. n \in Nat /\ \A i \in 1 .. n : sizes[i] \in Nat
    OBVIOUS
  <1>2. \A i \in 1 .. n : q[i] = PostingList(sizes[i]) /\ \A w : q[i] \in Narrows(w)
    BY <1>1, PostingNarrow
  <1>3. \A i \in 1 .. n : q[i] \in Seq(Cells)
    BY <1>2 DEF Narrows
  <1>4. g["n_term"] = n /\ F = FlattenSeq(q)
    OBVIOUS
  <1>5. q \in [1 .. n -> Seq(Cells)]
    BY <1>3
  <1> HIDE DEF n, q
  <1>6. PICK R : Leaves(R, q, Cells, n)
    BY <1>1, <1>5, LeavesExist
  <1>7. R[0] = F
    <2>1. R[0] = FlattenSeq(q)
      BY <1>1, <1>5, <1>6, LeavesFlatten
    <2> QED
      BY <1>4, <2>1
  <1>8. R \in [0 .. n -> Seq(Cells)] /\ R[n] = <<>> /\ \A i \in 1 .. n : R[i - 1] = Join(q[i], R[i])
    BY <1>6 DEF Leaves, Join
  <1>9. T \in Seq(Expected) /\ S \in Seq(Cells)
    BY DEF Reads
  <1>10. x \in Expected
    <2>1. "list_size" \in ScalarPlaces
      BY DEF ScalarPlaces
    <2> QED
      BY <2>1, Sizes, ScalarIs
  <1> HIDE DEF x
  <1> DEFINE t(i) == Join(Repeat(x, n - i), T)
             s(i) == Join(R[i], S)
             D == {i \in 0 .. n : /\ Reads(t(i), s(i), g, ix) /\ Spans(s(i), n - i)
                                  /\ Ahead(t(i), "scores_size") /\ ~Ahead(t(i), "n_term")}
  <1>11. n \in D
    <2>1. n - n = 0 /\ n \in 0 .. n
      BY <1>1
    <2>2. t(n) = T
      BY <1>9, <1>10, <2>1, RepeatIs
    <2>3. s(n) = S
      BY <1>8, <1>9, JoinIs
    <2>4. Spans(S, 0)
      BY <1>9, SpansNone
    <2> QED
      BY <2>1, <2>2, <2>3, <2>4
  <1>12. ASSUME NEW i \in 1 .. n, i \in D PROVE i - 1 \in D
    <2>1. i \in 0 .. n /\ i - 1 \in 0 .. n /\ n - i \in Nat /\ n - (i - 1) = (n - i) + 1 /\ n > 0
      BY <1>1
    <2>2. t(i - 1) = Cons(x, t(i))
      BY <1>9, <1>10, <2>1, RepeatIs
    <2>3. s(i - 1) = Join(q[i], s(i))
      <3>1. q[i] \in Seq(Cells) /\ R[i] \in Seq(Cells) /\ R[i - 1] = Join(q[i], R[i])
        BY <1>3, <1>8, <2>1
      <3> QED
        BY <1>9, <3>1, JoinShifts
    <2>4. /\ Reads(t(i), s(i), g, ix) /\ Spans(s(i), n - i)
          /\ Ahead(t(i), "scores_size") /\ ~Ahead(t(i), "n_term")
      BY <1>12
    <2> HIDE DEF t, s
    <2>5. g["n_term"] > 0 /\ sizes[i] \in Nat
      BY <1>1, <1>4, <2>1
    <2>6. /\ Reads(Cons(x, t(i)), Join(PostingList(sizes[i]), s(i)), g, ix)
          /\ Spans(Join(PostingList(sizes[i]), s(i)), (n - i) + 1)
          /\ Ahead(Cons(x, t(i)), "scores_size") /\ ~Ahead(Cons(x, t(i)), "n_term")
      BY <2>1, <2>4, <2>5, PostingFollow DEF x
    <2> QED
      BY <1>2, <2>1, <2>2, <2>3, <2>6
  <1>13. 0 \in D
    <2> HIDE DEF D
    <2> QED
      BY <1>1, <1>11, <1>12, Downward
  <1>14. \A w : R[0] \in Narrows(w)
    <2> SUFFICES ASSUME NEW w PROVE R[0] \in Narrows(w)
      OBVIOUS
    <2> DEFINE E == {i \in 0 .. n : R[i] \in Narrows(w)}
    <2>1. n \in E
      BY <1>1, <1>8, NarrowsNone
    <2>2. ASSUME NEW i \in 1 .. n, i \in E PROVE i - 1 \in E
      <3>1. i - 1 \in 0 .. n
        BY <1>1
      <3>2. R[i - 1] = Join(q[i], R[i])
        BY <1>8
      <3>3. R[i] \in Narrows(w)
        BY <2>2
      <3>4. q[i] \in Narrows(w)
        BY <1>2
      <3> QED
        BY <3>1, <3>2, <3>3, <3>4, NarrowsJoin
    <2>3. 0 \in E
      <3> HIDE DEF E
      <3> QED
        BY <1>1, <2>1, <2>2, Downward
    <2> QED
      BY <2>3
  <1>15. t(0) = Join(Repeat(x, n), T) /\ s(0) = Join(F, S) /\ n - 0 = n
    BY <1>1, <1>7
  <1>16. Reads(t(0), s(0), g, ix) /\ Spans(s(0), n - 0)
    BY <1>13
  <1> HIDE DEF t, s
  <1>17. Reads(Join(Repeat(x, n), T), Join(F, S), g, ix) /\ Spans(Join(F, S), n)
    BY <1>15, <1>16
  <1> QED
    BY <1>7, <1>14, <1>17 DEF x, n

(* What an inverted index is in its file. *)
InvertedParts(count, n, F) ==
  Join(Join(Join(WriteScalar("num_vectors", 8, count),
                 Join(Join(WriteScalar("n_term", 8, n), WriteScalar("posting_width", 8, 4)), F)),
            WriteScalar("scores_size", 8, n)),
       WriteArray("max_term_scores", n, 4, 4, "max_term_scores"))

(* The names its layout has. *)
LEMMA InvertedItemsAre ==
  /\ \A what \in {"num_vectors", "n_term", "posting_width", "scores_size"} :
       /\ what \in ScalarPlaces \ HeaderPlaces /\ what \in ScalarPlaces \ {"summary_width"} /\ what \in Kept
       /\ Scalar(what, 8) \in Expected /\ Scalar(what, 8).what = what
  /\ "list_size" \in ScalarPlaces /\ Scalar("list_size", 8) \in Expected
  /\ "num_vectors" \notin Branches /\ "n_term" \notin Branches
  /\ "max_term_scores" \in ArrayPlaces \ {"indptr", "id_map"} /\ "max_term_scores" \in Values
  /\ "check_scores" \in Marks \ {"payload"} /\ "check_element_size" \in Marks \ {"payload"}
  /\ Nat \subseteq Values /\ Nat \subseteq Int
  <1>1. \A what \in {"num_vectors", "n_term", "posting_width", "scores_size", "list_size"} :
          Scalar(what, 8) \in Expected /\ Scalar(what, 8).what = what
    <2>1. \A what \in {"num_vectors", "n_term", "posting_width", "scores_size", "list_size"} : what \in ScalarPlaces
      BY DEF ScalarPlaces
    <2> QED
      BY <2>1, Sizes, ScalarIs
  <1> QED
    BY <1>1 DEF ScalarPlaces, ArrayPlaces, HeaderPlaces, Kept, Branches, Marks, Values

(* From the scores on. *)
LEMMA ScoresFollow ==
  ASSUME NEW n \in Nat, NEW g, NEW ix, Within(g, ix), g["id"] = "INVT", g["n_term"] = n
  PROVE  LET t == Cons(Scalar("scores_size", 8), <<>>)
             s == Join(WriteScalar("scores_size", 8, n),
                       Join(WriteArray("max_term_scores", n, 4, 4, "max_term_scores"), <<>>))
         IN  Reads(t, s, g, ix) /\ Ahead(t, "scores_size") /\ ~Ahead(t, "n_term")
  <1> DEFINE h  == Noted(g, "scores_size", n)
             m  == Mark("check_scores")
             a  == Array("max_term_scores", n, 4, 4)
             x  == Scalar("scores_size", 8)
             v1 == WriteScalar("scores_size", 8, n)
             v2 == WriteArray("max_term_scores", n, 4, 4, "max_term_scores")
             s2 == Join(v2, <<>>)
             t3 == Cons(m, <<>>)
             t2 == Cons(a, t3)
  <1>1. Within(h, ix) /\ h["id"] = "INVT" /\ h["scores_size"] = n /\ h["n_term"] = n
    BY InvertedItemsAre, WithinNoted
  <1> HIDE DEF h
  <1>2. Reads(t3, <<>>, h, ix)
    <2>1. Fits("check_scores", <<>>, h, ix)
      BY <1>1 DEF Fits
    <2>2. Reads(<<>>, <<>>, h, ix)
      BY <1>1, ReadsNothing
    <2> QED
      BY <2>1, <2>2, InvertedItemsAre, ReadsMark
  <1> HIDE DEF t3
  <1>3. Reads(t2, s2, h, ix)
    BY <1>2, InvertedItemsAre, Sizes, ReadsArray
  <1>4. x \in Expected /\ a \in Expected /\ m \in Expected /\ x.what = "scores_size"
    <2>1. m \in Expected
      BY InvertedItemsAre, MarkIs
    <2>2. a \in Expected
      BY InvertedItemsAre, Sizes, ArrayIs
    <2> QED
      BY <2>1, <2>2, InvertedItemsAre
  <1>5. PostingsNext("scores_size", n, h) = Two(a, m)
    BY DEF PostingsNext, Two
  <1> HIDE DEF a, m
  <1>6. Two(a, m) \in Seq(Expected) /\ Two(a, m) = t2
    <2>1. Two(a, m) \in Seq(Expected)
      BY <1>4 DEF Two
    <2>2. Two(a, m) = Cons(a, Cons(m, <<>>))
      BY <1>4, Shorts
    <2> QED
      BY <2>1, <2>2 DEF t3
  <1>7. <<>> \in Seq(Expected) /\ Inside(<<>>) /\ ~Ahead(<<>>, "n_term")
    BY DEF Inside, Ahead
  <1>8. Ahead(Cons(x, <<>>), "scores_size") /\ ~Ahead(Cons(x, <<>>), "n_term")
    BY <1>4, <1>7, AheadCons
  <1>9. Join(Then("scores_size", n, h), <<>>) = t2
    <2>1. Then("scores_size", n, h) = Two(a, m)
      BY <1>5, <1>6, ThenPostings
    <2> QED
      BY <1>6, <2>1, JoinIs
  <1>10. PostingsAhead(x, <<>>, n, g)
    BY <1>4, <1>7 DEF PostingsAhead
  <1>11. t2 \in Seq(Expected) /\ s2 \in Seq(Cells) /\ Follows(t2, s2, h, ix)
    BY <1>3 DEF Reads
  <1> HIDE DEF t2, s2
  <1>12. Reads(Cons(x, <<>>), Join(v1, s2), g, ix)
    BY <1>7, <1>9, <1>10, <1>11, InvertedItemsAre, Sizes, ReadsKept DEF h
  <1> QED
    BY <1>8, <1>12 DEF s2

LEMMA InvertedFollow ==
  ASSUME NEW count \in Nat, NEW sizes \in Seq(Nat), NEW g, NEW ix, Within(g, ix), g["id"] = "INVT",
         NEW F, F = FlattenSeq([i \in 1 .. Len(sizes) |-> PostingList(sizes[i])])
  PROVE  /\ Reads(InvertedItems, InvertedParts(count, Len(sizes), F), g, ix)
         /\ \A w : InvertedParts(count, Len(sizes), F) \in Narrows(w)
  <1> DEFINE n  == Len(sizes)
             h1 == Noted(g, "num_vectors", count)
             h2 == Noted(h1, "n_term", n)
             h3 == Noted(h2, "posting_width", 4)
             r1 == WriteScalar("num_vectors", 8, count)
             r2 == WriteScalar("n_term", 8, n)
             r3 == WriteScalar("posting_width", 8, 4)
             v1 == WriteScalar("scores_size", 8, n)
             v2 == WriteArray("max_term_scores", n, 4, 4, "max_term_scores")
             z  == Join(v1, Join(v2, <<>>))
             s4 == Join(F, z)
             s3 == Join(r3, s4)
             s2 == Join(r2, s3)
             x1 == Scalar("num_vectors", 8)
             x2 == Scalar("n_term", 8)
             x3 == Scalar("posting_width", 8)
             x4 == Scalar("scores_size", 8)
             l  == Scalar("list_size", 8)
             m  == Mark("check_element_size")
             t6 == Cons(x4, <<>>)
             t5 == Join(Repeat(l, n), t6)
             t4 == Cons(m, t5)
             t3 == Cons(x3, <<>>)
             t2 == Cons(x2, t3)
             t1 == Cons(x1, t2)
  <1>1. n \in Nat /\ n \in Int /\ n \in Values /\ count \in Int /\ count \in Values /\ 4 \in Int /\ 4 \in Values
    BY InvertedItemsAre
  <1>2. /\ x1 \in Expected /\ x2 \in Expected /\ x3 \in Expected /\ x4 \in Expected /\ l \in Expected
        /\ x1.what = "num_vectors" /\ x2.what = "n_term" /\ x3.what = "posting_width" /\ m \in Expected
    BY InvertedItemsAre, MarkIs
  <1>3. Within(h1, ix) /\ h1["id"] = "INVT"
    BY InvertedItemsAre, WithinNoted
  <1> HIDE DEF h1
  <1>4. Within(h2, ix) /\ h2["id"] = "INVT" /\ h2["n_term"] = n
    BY <1>1, <1>3, InvertedItemsAre, WithinNoted
  <1> HIDE DEF h2
  <1>5. Within(h3, ix) /\ h3["id"] = "INVT" /\ h3["n_term"] = n /\ h3["posting_width"] = 4
    <2>1. "posting_width" \in Kept /\ "n_term" \in Kept
      BY InvertedItemsAre
    <2>2. Within(h3, ix) /\ h3["id"] = h2["id"] /\ h3["posting_width"] = 4
          /\ \A w \in Kept : w # "posting_width" => h3[w] = h2[w]
      BY <1>4, <2>1, WithinNoted
    <2> HIDE DEF h3
    <2> QED
      BY <1>4, <2>1, <2>2
  <1> HIDE DEF h3
  <1>6. Reads(t6, z, h3, ix) /\ Ahead(t6, "scores_size") /\ ~Ahead(t6, "n_term")
    BY <1>1, <1>5, ScoresFollow
  <1> HIDE DEF t6, z
  <1>7. Reads(t5, s4, h3, ix) /\ Spans(s4, n) /\ \A w : F \in Narrows(w)
    BY <1>5, <1>6, PostingsFollow
  <1> HIDE DEF t5, s4
  <1>8. Reads(t4, s4, h3, ix)
    <2>1. Fits("check_element_size", s4, h3, ix)
      BY <1>5, <1>7 DEF Fits
    <2> QED
      BY <1>7, <2>1, InvertedItemsAre, ReadsMark
  <1>9. Then("posting_width", 4, h3) \in Seq(Expected) /\ Then("posting_width", 4, h3) = t4
    <2> DEFINE p == Repeat(l, n)
    <2>1. p \in Seq(Expected)
      <3>1. t6 \in Seq(Expected)
        BY <1>6 DEF Reads
      <3> QED
        BY <1>1, <1>2, <3>1, RepeatIs
    <2>2. PostingsNext("posting_width", 4, h3) = Join(Join(<<m>>, p), <<x4>>)
      BY <1>5 DEF PostingsNext, Join
    <2> HIDE DEF p, m, x4, l
    <2>3. <<m>> \in Seq(Expected) /\ <<x4>> \in Seq(Expected) /\ <<x4>> = t6
      <3>1. <<x4>> = Cons(x4, <<>>)
        BY <1>2, Shorts
      <3> QED
        BY <1>2, <3>1 DEF t6
    <2>4. Join(Join(<<m>>, p), <<x4>>) = Join(<<m>>, Join(p, t6))
      <3> DEFINE a == <<m>>
                 b == <<x4>>
      <3>1. a \in Seq(Expected) /\ b \in Seq(Expected) /\ b = t6
        BY <2>3
      <3> HIDE DEF a, b
      <3>2. Join(Join(a, p), b) = Join(a, Join(p, b))
        BY <2>1, <3>1, JoinShifts
      <3>3. Join(Join(a, p), b) = Join(a, Join(p, t6))
        BY <3>1, <3>2
      <3> QED
        BY <3>3 DEF a, b
    <2>5. Join(p, t6) = t5 /\ t5 \in Seq(Expected)
      BY <1>7 DEF t5, p, Reads
    <2>6. Join(<<m>>, t5) = t4 /\ t4 \in Seq(Expected)
      BY <1>2, <2>5, JoinedOne
    <2>7. PostingsNext("posting_width", 4, h3) = t4
      BY <2>2, <2>4, <2>5, <2>6
    <2> QED
      BY <2>6, <2>7, ThenPostings
  <1> HIDE DEF t4
  <1>10. <<>> \in Seq(Expected) /\ Inside(<<>>)
    BY DEF Inside
  <1>11. Reads(t3, s3, h2, ix)
    <2>1. t4 \in Seq(Expected) /\ s4 \in Seq(Cells) /\ Follows(t4, s4, h3, ix)
      BY <1>8 DEF Reads
    <2>2. Join(Then("posting_width", 4, h3), <<>>) = t4
      BY <1>9, JoinIs
    <2>3. PostingsAhead(x3, <<>>, 4, h2)
      BY <1>2 DEF PostingsAhead
    <2> QED
      BY <1>1, <1>4, <1>10, <2>1, <2>2, <2>3, InvertedItemsAre, Sizes, ReadsKept DEF h3
  <1>12. Ahead(t3, "posting_width")
    BY <1>2, <1>10, AheadCons
  <1> HIDE DEF t3, s3
  <1>13. Reads(t2, s2, h1, ix)
    <2>1. t3 \in Seq(Expected) /\ s3 \in Seq(Cells) /\ Inside(t3) /\ Follows(t3, s3, h2, ix)
      BY <1>11 DEF Reads
    <2>2. Join(Then("n_term", n, h2), t3) = t3
      BY <2>1, InvertedItemsAre, ThenNothing, JoinIs
    <2>3. PostingsAhead(x2, t3, n, h1)
      BY <1>2, <1>12 DEF PostingsAhead
    <2> QED
      BY <1>1, <1>3, <2>1, <2>2, <2>3, InvertedItemsAre, Sizes, ReadsKept DEF h2
  <1>14. Ahead(t2, "posting_width")
    <2>1. t3 \in Seq(Expected)
      BY <1>11 DEF Reads
    <2> QED
      BY <1>2, <1>12, <2>1, AheadCons
  <1> HIDE DEF t2, s2
  <1>15. Reads(t1, Join(r1, s2), g, ix)
    <2>1. t2 \in Seq(Expected) /\ s2 \in Seq(Cells) /\ Inside(t2) /\ Follows(t2, s2, h1, ix)
      BY <1>13 DEF Reads
    <2>2. Join(Then("num_vectors", count, h1), t2) = t2
      BY <2>1, InvertedItemsAre, ThenNothing, JoinIs
    <2>3. PostingsAhead(x1, t2, count, g)
      BY <1>2, <1>14 DEF PostingsAhead
    <2> QED
      BY <1>1, <2>1, <2>2, <2>3, InvertedItemsAre, Sizes, ReadsKept DEF h1
  <1>16. InvertedItems = t1
    <2>1. InvertedItems = Three(x1, x2, x3)
      BY DEF InvertedItems, Three
    <2>2. t1 = Cons(x1, Cons(x2, Cons(x3, <<>>)))
      BY DEF t2, t3
    <2> HIDE DEF x1, x2, x3, t1
    <2> QED
      BY <1>2, <2>1, <2>2, ThreeIs
  <1>17. r1 \in Seq(Cells) /\ r2 \in Seq(Cells) /\ r3 \in Seq(Cells) /\ v1 \in Seq(Cells) /\ v2 \in Seq(Cells)
         /\ F \in Seq(Cells)
    <2>1. r1 \in Seq(Cells) /\ r2 \in Seq(Cells) /\ r3 \in Seq(Cells) /\ v1 \in Seq(Cells)
      BY <1>1, InvertedItemsAre, Sizes, ScalarWritten
    <2>2. v2 \in Seq(Cells)
      BY <1>1, InvertedItemsAre, Sizes, ArrayWritten
    <2>3. F \in Narrows(4)
      BY <1>7
    <2> QED
      BY <2>1, <2>2, <2>3 DEF Narrows
  <1>18. \A w : r1 \in Narrows(w) /\ r2 \in Narrows(w) /\ r3 \in Narrows(w) /\ v1 \in Narrows(w) /\ v2 \in Narrows(w)
    <2>1. \A w : r1 \in Narrows(w) /\ r2 \in Narrows(w) /\ r3 \in Narrows(w) /\ v1 \in Narrows(w)
      BY <1>1, InvertedItemsAre, Sizes, NarrowsScalar
    <2>2. \A w : v2 \in Narrows(w)
      BY <1>1, InvertedItemsAre, Sizes, NarrowsArray
    <2> QED
      BY <2>1, <2>2
  <1> DEFINE all == InvertedParts(count, n, F)
             p1 == Join(r2, r3)
             p2 == Join(p1, F)
             p3 == Join(r1, p2)
             p4 == Join(p3, v1)
  <1>19. all = Join(p4, v2)
    BY DEF InvertedParts
  <1>20. s2 = Join(r2, Join(r3, Join(F, z))) /\ z = Join(v1, Join(v2, <<>>))
    BY DEF s2, s3, s4, z
  <1> HIDE DEF r1, r2, r3, v1, v2, all
  <1>21. \A w : p1 \in Narrows(w)
    BY <1>18, NarrowsJoin
  <1>22. p1 \in Seq(Cells)
    BY <1>21 DEF Narrows
  <1>23. \A w : p2 \in Narrows(w)
    BY <1>7, <1>21, NarrowsJoin
  <1>24. p2 \in Seq(Cells) /\ p2 = Join(r2, Join(r3, F)) /\ Join(r3, F) \in Seq(Cells)
    BY <1>17, JoinIs, JoinShifts
  <1> HIDE DEF p1
  <1>25. \A w : p3 \in Narrows(w)
    <2> HIDE DEF p2
    <2> QED
      BY <1>18, <1>23, NarrowsJoin
  <1>26. p3 \in Seq(Cells)
    <2> HIDE DEF p2
    <2> QED
      BY <1>17, <1>24, JoinIs
  <1> HIDE DEF p2, p3
  <1>27. \A w : p4 \in Narrows(w)
    BY <1>18, <1>25, NarrowsJoin
  <1>28. \A w : all \in Narrows(w)
    <2> HIDE DEF p4
    <2> QED
      BY <1>18, <1>19, <1>27, NarrowsJoin
  <1>29. all = Join(p3, z)
    <2>1. all = Join(p3, Join(v1, v2))
      BY <1>17, <1>19, <1>26, JoinShifts
    <2>2. Join(v2, <<>>) = v2
      BY <1>17, JoinIs
    <2> QED
      BY <1>20, <2>1, <2>2
  <1>30. z \in Seq(Cells)
    BY <1>6 DEF Reads
  <1>31. all = Join(r1, Join(p2, z))
    BY <1>17, <1>24, <1>29, <1>30, JoinShifts DEF p3
  <1>32. Join(p2, z) = Join(r2, Join(Join(r3, F), z))
    BY <1>17, <1>24, <1>30, JoinShifts
  <1>33. Join(Join(r3, F), z) = Join(r3, Join(F, z))
    BY <1>17, <1>30, JoinShifts
  <1>34. all = Join(r1, s2)
    BY <1>20, <1>31, <1>32, <1>33
  <1> QED
    BY <1>15, <1>16, <1>28, <1>34 DEF all

-----------------------------------------------------------------------------
(* An index: its header and its payload, and an id map's before those of    *)
(* its delegate.                                                            *)

FlatPayload(d) ==
  CASE d.id = "INVT" -> InvertedPayload(d)
    [] d.id = "SEIS" -> SeismicPayload(d)
    [] d.id = "SESQ" -> Quantizer(d) \o SeismicPayload(d)
    [] d.id = "DSEI" -> DiskPayload(d)
    [] d.id = "DSSQ" -> Quantizer(d) \o DiskPayload(d)

LEMMA FlatItemsAre ==
  ASSUME NEW d
  PROVE  FlatItems(d) = Join(Header(d), FlatPayload(d))
  BY DEF FlatItems, FlatPayload, Join

LEMMA QuantizerReadIs ==
  ASSUME NEW d, NEW g, NEW ix, Within(g, ix)
  PROVE  /\ Within(QuantizerRead(g, d), ix) /\ QuantizerRead(g, d)["id"] = g["id"]
         /\ QuantizerRead(g, d)["sq_type"] = d.width - 1
  <1> DEFINE a == Noted(g, "sq_type", d.width - 1)
             b == Noted(a, "vmin", d.vmin)
             c == Noted(b, "vmax", d.vmax)
  <1>1. "sq_type" \in Kept /\ "vmin" \in Kept /\ "vmax" \in Kept
    BY DEF Kept
  <1>2. Within(a, ix) /\ a["id"] = g["id"] /\ a["sq_type"] = d.width - 1
    BY <1>1, WithinNoted
  <1> HIDE DEF a
  <1>3. Within(b, ix) /\ b["id"] = a["id"] /\ b["sq_type"] = a["sq_type"]
    BY <1>1, <1>2, WithinNoted
  <1> HIDE DEF b
  <1>4. Within(c, ix) /\ c["id"] = b["id"] /\ c["sq_type"] = b["sq_type"]
    BY <1>1, <1>3, WithinNoted
  <1>5. c = QuantizerRead(g, d)
    BY DEF QuantizerRead, a, b
  <1> HIDE DEF c
  <1> QED
    BY <1>2, <1>3, <1>4, <1>5

LEMMA InvertedPayloadFollow ==
  ASSUME NEW d, d.rows \in Nat, d.sizes \in Seq(Nat), NEW g, NEW ix, Within(g, ix), g["id"] = "INVT"
  PROVE  Reads(InvertedItems, InvertedPayload(d), g, ix) /\ \A w : InvertedPayload(d) \in Narrows(w)
  <1>1. PICK count, sizes : count = d.rows /\ sizes = d.sizes
    OBVIOUS
  <1>2. count \in Nat /\ sizes \in Seq(Nat)
    BY <1>1
  <1> DEFINE F == FlattenSeq([i \in 1 .. Len(sizes) |-> PostingList(sizes[i])])
  <1>3. /\ Reads(InvertedItems, InvertedParts(count, Len(sizes), F), g, ix)
        /\ \A w : InvertedParts(count, Len(sizes), F) \in Narrows(w)
    BY <1>2, InvertedFollow
  <1>4. DOMAIN sizes = 1 .. Len(sizes)
    BY <1>2
  <1>5. PostingLists(sizes) = Join(Join(WriteScalar("n_term", 8, Len(sizes)), WriteScalar("posting_width", 8, 4)), F)
    BY <1>4 DEF PostingLists, PostingList, Join
  <1>6. InvertedPayload(d) = InvertedParts(count, Len(sizes), F)
    <2> HIDE DEF F
    <2>1. InvertedPayload(d)
            = Join(Join(Join(WriteScalar("num_vectors", 8, count), PostingLists(sizes)),
                        WriteScalar("scores_size", 8, Len(sizes))),
                   WriteArray("max_term_scores", Len(sizes), 4, 4, "max_term_scores"))
      BY <1>1 DEF InvertedPayload, Join
    <2> QED
      BY <1>5, <2>1 DEF InvertedParts
  <1> QED
    BY <1>3, <1>6

LEMMA DiskPayloadFollow ==
  ASSUME NEW d, d.rows \in Nat, IsDisk(d), d.dim \in Nat, d.width \in Nat \ {0}, NEW g, NEW ix,
         Within(g, ix), g["id"] # "INVT",
         g["id"] = "DSSQ" => g["sq_type"] + 1 = d.width /\ InnerOf(ix).width = d.width
  PROVE  Reads(DiskItems, DiskPayload(d), g, ix) /\ DiskPayload(d) \in Narrows(d.width)
  <1>1. PICK count, lists, section, left, nnz, width, dim :
          /\ count = d.rows /\ lists = d.lists /\ section = d.section /\ left = d.left /\ nnz = d.nnz
          /\ width = d.width /\ dim = d.dim
    OBVIOUS
  <1>2. IsClustered(d) /\ d.section \in Nat \ {0} /\ d.left \in Nat
    BY DEF IsDisk
  <1>3. d.lists \in Seq(ListSizes) /\ d.nnz \in Nat
    BY <1>2, ClusteredIs
  <1>4. /\ count \in Nat /\ lists \in Seq(ListSizes) /\ section \in Nat \ {0} /\ left \in Nat /\ nnz \in Nat
        /\ width \in Nat \ {0} /\ dim \in Nat
        /\ g["id"] = "DSSQ" => g["sq_type"] + 1 = width /\ InnerOf(ix).width = width
    BY <1>1, <1>2, <1>3
  <1>5. /\ Reads(DiskItems, DiskParts(count, lists, section, left, nnz, width, dim), g, ix)
        /\ DiskParts(count, lists, section, left, nnz, width, dim) \in Narrows(width)
    BY <1>4, DiskFollow
  <1>6. DiskPayload(d) = DiskParts(count, lists, section, left, nnz, width, dim)
    BY <1>1 DEF DiskPayload, DiskParts, WritePadded, Join
  <1> QED
    BY <1>1, <1>5, <1>6

LEMMA PayloadFollow ==
  ASSUME NEW d, IsFlat(d), NEW ix, InnerOf(ix).id = d.id, InnerOf(ix).width = d.width, NEW g, Within(g, ix)
  PROVE  Reads(Payload(d.id), FlatPayload(d), g, ix) /\ FlatPayload(d) \in Narrows(d.width)
  <1>1. g["id"] = d.id
    BY DEF Within
  <1>2. d.rows \in Nat /\ d.dim \in Nat
    BY DEF IsFlat
  <1>3. 4 \in Nat \ {0}
    OBVIOUS
  <1>4. CASE d.id = "INVT"
    <2>1. d.sizes \in Seq(Nat)
      BY <1>4 DEF IsFlat
    <2>2. FlatPayload(d) = InvertedPayload(d) /\ Payload(d.id) = InvertedItems
      BY <1>4 DEF FlatPayload, Payload
    <2> QED
      BY <1>1, <1>2, <1>4, <2>1, <2>2, InvertedPayloadFollow
  <1>5. CASE d.id = "SEIS"
    <2>1. IsClustered(d) /\ d.width = 4
      BY <1>5 DEF IsFlat
    <2>2. FlatPayload(d) = SeismicPayload(d) /\ Payload(d.id) = SeismicItems
      BY <1>5 DEF FlatPayload, Payload
    <2> QED
      BY <1>1, <1>2, <1>3, <1>5, <2>1, <2>2, SeismicFollow
  <1>6. CASE d.id = "DSEI"
    <2>1. IsDisk(d) /\ d.width = 4
      BY <1>6 DEF IsFlat
    <2>2. FlatPayload(d) = DiskPayload(d) /\ Payload(d.id) = DiskItems
      BY <1>6 DEF FlatPayload, Payload
    <2> QED
      BY <1>1, <1>2, <1>3, <1>6, <2>1, <2>2, DiskPayloadFollow
  <1> DEFINE h == QuantizerRead(g, d)
  <1>7. Within(h, ix) /\ h["id"] = g["id"] /\ h["sq_type"] = d.width - 1
    BY QuantizerReadIs
  <1>8. IsQuantized(d) => d.width \in Nat \ {0} /\ (d.width - 1) + 1 = d.width
    BY DEF IsQuantized
  <1> HIDE DEF h
  <1>9. CASE d.id = "SESQ"
    <2>1. IsClustered(d) /\ IsQuantized(d)
      BY <1>9 DEF IsFlat
    <2>2. FlatPayload(d) = Join(Quantizer(d), SeismicPayload(d)) /\ Payload(d.id) = Join(QuantizerItems, SeismicItems)
      BY <1>9 DEF FlatPayload, Payload, Join
    <2>3. Reads(SeismicItems, SeismicPayload(d), h, ix) /\ SeismicPayload(d) \in Narrows(d.width)
      BY <1>1, <1>2, <1>7, <1>8, <1>9, <2>1, SeismicFollow
    <2>4. /\ Reads(Join(QuantizerItems, SeismicItems), Join(Quantizer(d), SeismicPayload(d)), g, ix)
          /\ Quantizer(d) \in Narrows(d.width)
      BY <1>1, <1>9, <2>1, <2>3, QuantizerFollow DEF h
    <2> QED
      BY <2>2, <2>3, <2>4, NarrowsJoin
  <1>10. CASE d.id = "DSSQ"
    <2>1. IsDisk(d) /\ IsQuantized(d)
      BY <1>10 DEF IsFlat
    <2>2. FlatPayload(d) = Join(Quantizer(d), DiskPayload(d)) /\ Payload(d.id) = Join(QuantizerItems, DiskItems)
      BY <1>10 DEF FlatPayload, Payload, Join
    <2>3. Reads(DiskItems, DiskPayload(d), h, ix) /\ DiskPayload(d) \in Narrows(d.width)
      <3>1. h["id"] # "INVT" /\ h["sq_type"] + 1 = d.width /\ InnerOf(ix).width = d.width
        BY <1>1, <1>7, <1>8, <1>10, <2>1
      <3> QED
        BY <1>2, <1>7, <1>8, <2>1, <3>1, DiskPayloadFollow
    <2>4. /\ Reads(Join(QuantizerItems, DiskItems), Join(Quantizer(d), DiskPayload(d)), g, ix)
          /\ Quantizer(d) \in Narrows(d.width)
      BY <1>1, <1>10, <2>1, <2>3, QuantizerFollow DEF h
    <2> QED
      BY <2>2, <2>3, <2>4, NarrowsJoin
  <1> QED
    BY <1>4, <1>5, <1>6, <1>9, <1>10 DEF IsFlat

LEMMA EndsHeaderCons ==
  ASSUME NEW t \in Seq(Expected), EndsHeader(t), NEW x \in Expected,
         x.what \in {"id", "version", "dim", "id_map"}
  PROVE  EndsHeader(Cons(x, t))
  <1> DEFINE c == Cons(x, t)
  <1>1. Len(c) = Len(t) + 1 /\ c[1] = x /\ DOMAIN c = 1 .. Len(t) + 1 /\ c # <<>>
        /\ \A i \in 1 .. Len(t) : c[i + 1] = t[i]
    BY DEF Cons
  <1> HIDE DEF c
  <1>2. Len(t) >= 1 /\ \A i \in 1 .. Len(t) : /\ t[i].what \in HeaderPlaces \ {"map_size"}
                                              /\ t[i].what = "payload" <=> i = Len(t)
    BY DEF EndsHeader
  <1>3. ASSUME NEW i \in 1 .. Len(t) + 1
        PROVE  /\ c[i].what \in HeaderPlaces \ {"map_size"}
               /\ c[i].what = "payload" <=> i = Len(t) + 1
    <2>1. CASE i = 1
      BY <1>1, <1>2, <2>1 DEF HeaderPlaces
    <2>2. CASE i # 1
      <3>1. i - 1 \in 1 .. Len(t) /\ (i - 1) + 1 = i
        BY <2>2
      <3>2. c[i] = t[i - 1]
        BY <1>1, <3>1
      <3> QED
        BY <1>2, <3>1, <3>2
    <2> QED
      BY <2>1, <2>2
  <1>4. EndsHeader(c)
    BY <1>1, <1>3 DEF EndsHeader
  <1> QED
    BY <1>4 DEF c

LEMMA OutsideCons ==
  ASSUME NEW x, NEW t, x.what \in HeaderPlaces, NEW S, t \in Seq(S)
  PROVE  ~Inside(Cons(x, t))
  <1> DEFINE c == Cons(x, t)
  <1>1. c[1] = x /\ 1 \in DOMAIN c
    BY DEF Cons
  <1> HIDE DEF c
  <1>2. ~Inside(c)
    BY <1>1 DEF Inside
  <1> QED
    BY <1>2 DEF c

(* An item of a header. *)
LEMMA FollowsHeader ==
  ASSUME NEW what \in {"id", "version", "dim"}, NEW v \in Values,
         NEW t \in Seq(Expected), EndsHeader(t), NEW s \in Seq(Cells), NEW g, IsGot(g), NEW ix,
         what = "version" => HeaderRead(Noted(g, "version", v), ix),
         what = "dim" => HeaderRead(g, ix),
         Follows(t, s, Noted(g, what, v), ix)
  PROVE  /\ Follows(Cons(Scalar(what, 4), t), Join(WriteScalar(what, 4, v), s), g, ix)
         /\ Cons(Scalar(what, 4), t) \in Seq(Expected) /\ EndsHeader(Cons(Scalar(what, 4), t))
         /\ Join(WriteScalar(what, 4, v), s) \in Seq(Cells)
  <1> DEFINE x == Scalar(what, 4)
             h == Noted(g, what, v)
  <1>1. what \in ScalarPlaces /\ what \in HeaderPlaces /\ what \notin Branches
    BY DEF ScalarPlaces, HeaderPlaces, Branches
  <1>2. x \in Expected /\ x.what = what /\ x.bytes = 4 /\ x.what \notin Marks
    BY <1>1, Sizes, ScalarIs DEF Scalar, Item
  <1>3. Suits(x, v)
    BY <1>2 DEF Suits
  <1>4. Join(WriteScalar(what, 4, v), s) = Cons(Valued(x, v), s)
    BY DEF WriteScalar, Cons, Join
  <1>5. Valued(x, v) \in Cells
    BY <1>2, <1>3, ValuedIs
  <1> HIDE DEF x
  <1>6. Consequence(x, t, v, g, ix)
    BY <1>1, <1>2 DEF Consequence
  <1>7. ~Inside(Cons(x, t))
    BY <1>1, <1>2, OutsideCons
  <1>8. Then(x.what, v, h) \o t = t
    BY <1>1, <1>2, ThenNothing, JoinNone
  <1>9. Follows(Cons(x, t), Cons(Valued(x, v), s), g, ix)
    BY <1>2, <1>3, <1>6, <1>7, <1>8, FollowsItem
  <1>10. Cons(x, t) \in Seq(Expected) /\ Cons(Valued(x, v), s) \in Seq(Cells)
    BY <1>2, <1>5, ConsIs
  <1>11. EndsHeader(Cons(x, t))
    BY <1>2, EndsHeaderCons
  <1> QED
    BY <1>4, <1>9, <1>10, <1>11 DEF x

(* What was read when a header has been. *)
Read(g, y) == Noted(Noted(g, "id", y.id), "version", y.version)

LEMMA ReadIs ==
  ASSUME NEW g, IsGot(g), NEW y
  PROVE  IsGot(Read(g, y)) /\ Read(g, y)["id"] = y.id /\ Read(g, y)["version"] = y.version
  <1> DEFINE a == Noted(g, "id", y.id)
             b == Noted(a, "version", y.version)
  <1>1. "id" \in Kept /\ "version" \in Kept
    BY DEF Kept
  <1>2. IsGot(a) /\ a["id"] = y.id
    BY <1>1, NotedIs
  <1> HIDE DEF a
  <1>3. IsGot(b) /\ b["version"] = y.version /\ b["id"] = a["id"]
    BY <1>1, <1>2, NotedIs
  <1>4. b = Read(g, y)
    BY DEF Read, a
  <1> HIDE DEF b
  <1> QED
    BY <1>2, <1>3, <1>4

(* The payload comes next. *)
LEMMA PayloadNext ==
  ASSUME NEW S \in Seq(Cells), NEW h, IsGot(h), NEW ix, HeaderRead(h, ix),
         h["version"] = Version => Follows(Payload(h["id"]), S, h, ix)
  PROVE  /\ Follows(<<Mark("payload")>>, S, h, ix) /\ <<Mark("payload")>> \in Seq(Expected)
         /\ EndsHeader(<<Mark("payload")>>)
  <1> DEFINE m == Mark("payload")
             t == <<m>>
  <1>1. "payload" \in Marks /\ "payload" \in HeaderPlaces \ {"map_size"}
    BY DEF Marks, HeaderPlaces
  <1>2. m \in Expected /\ m.what = "payload"
    BY <1>1, MarkIs
  <1> HIDE DEF m
  <1>3. t \in Seq(Expected) /\ t # <<>> /\ Head(t) = m /\ Tail(t) = <<>> /\ DOMAIN t = {1} /\ Len(t) = 1 /\ t[1] = m
    BY <1>2
  <1> HIDE DEF t
  <1>4. EndsHeader(t) /\ ~Inside(t)
    BY <1>1, <1>2, <1>3 DEF EndsHeader, Inside
  <1>5. Follows(t, S, h, ix)
    <2>1. CASE h["version"] = Version
      <3>1. Meets(t, S, h, ix, {Place(Payload(h["id"]), S, h)})
        BY <1>1, <1>2, <1>3, <1>4 DEF Meets
      <3> QED
        BY <2>1, <3>1, FollowsBefore
    <2>2. CASE h["version"] # Version
      <3> DEFINE P == {Place(t, S, h)}
      <3>1. Meets(t, S, h, ix, P)
        <4> HIDE DEF P
        <4> QED
          BY <1>1, <1>2, <1>3, <1>4, <2>2 DEF Meets
      <3>2. \A p \in P : Meets(p[1], p[2], p[3], ix, P)
        <4> SUFFICES ASSUME NEW p \in P PROVE Meets(p[1], p[2], p[3], ix, P)
          OBVIOUS
        <4>1. p = Place(t, S, h)
          OBVIOUS
        <4> HIDE DEF P
        <4> QED
          BY <3>1, <4>1, PlaceIs
      <3>3. Place(t, S, h) \in P
        OBVIOUS
      <3> HIDE DEF P
      <3> QED
        BY <3>2, <3>3 DEF Follows
    <2> QED
      BY <2>1, <2>2
  <1> QED
    BY <1>3, <1>4, <1>5 DEF t, m

LEMMA HeaderNarrow ==
  ASSUME NEW y, y.id \in Writable, y.version \in Nat, y.dim \in Nat, NEW w
  PROVE  Header(y) \in Narrows(w)
  <1> DEFINE v1 == WriteScalar("id", 4, y.id)
             v2 == WriteScalar("version", 4, y.version)
             v3 == WriteScalar("dim", 4, y.dim)
  <1>1. y.id \in Values /\ y.version \in Values /\ y.dim \in Values
    BY DEF Values
  <1>2. \A what \in {"id", "version", "dim"} : what \in ScalarPlaces \ {"summary_width"}
    BY DEF ScalarPlaces
  <1>3. v1 \in Narrows(w) /\ v2 \in Narrows(w) /\ v3 \in Narrows(w)
    BY <1>1, <1>2, Sizes, NarrowsScalar
  <1>4. Header(y) = Join(Join(v1, v2), v3)
    BY DEF Header, Join
  <1> HIDE DEF v1, v2, v3
  <1>5. Join(v1, v2) \in Narrows(w)
    BY <1>3, NarrowsJoin
  <1> QED
    BY <1>3, <1>4, <1>5, NarrowsJoin

LEMMA HeaderFollow ==
  ASSUME NEW y, y.id \in Writable, y.version \in Nat, y.dim \in Nat,
         NEW S \in Seq(Cells), NEW g, IsGot(g), NEW ix, HeaderRead(Read(g, y), ix),
         y.version = Version => Follows(Payload(y.id), S, Read(g, y), ix)
  PROVE  /\ Follows(HeaderItems, Join(Header(y), S), g, ix)
         /\ HeaderItems \in Seq(Expected) /\ EndsHeader(HeaderItems) /\ Ahead(HeaderItems, "id")
  <1> DEFINE a  == Noted(g, "id", y.id)
             h  == Read(g, y)
             v1 == WriteScalar("id", 4, y.id)
             v2 == WriteScalar("version", 4, y.version)
             v3 == WriteScalar("dim", 4, y.dim)
             s3 == Join(v3, S)
             s2 == Join(v2, s3)
             m  == Mark("payload")
             x1 == Scalar("id", 4)
             x2 == Scalar("version", 4)
             x3 == Scalar("dim", 4)
             t4 == <<m>>
             t3 == Cons(x3, t4)
             t2 == Cons(x2, t3)
             t1 == Cons(x1, t2)
  <1>1. y.id \in Values /\ y.version \in Values /\ y.dim \in Values
    BY DEF Values
  <1>2. /\ "id" \in Kept /\ "dim" \notin Kept
        /\ \A what \in {"id", "version", "dim"} : what \in ScalarPlaces \ {"summary_width"}
    BY DEF Kept, ScalarPlaces
  <1>3. IsGot(h) /\ h["id"] = y.id /\ h["version"] = y.version /\ h = Noted(a, "version", y.version)
    BY ReadIs DEF Read
  <1>4. IsGot(a)
    BY <1>2, NotedIs
  <1>5. Noted(h, "dim", y.dim) = h
    BY <1>2, <1>3, NotedSame
  <1>6. HeaderRead(h, ix)
    OBVIOUS
  <1> HIDE DEF h, a
  <1>7. Follows(t4, S, h, ix) /\ t4 \in Seq(Expected) /\ EndsHeader(t4)
    BY <1>3, <1>6, PayloadNext DEF h
  <1> HIDE DEF t4
  <1>8. Follows(t3, s3, h, ix) /\ t3 \in Seq(Expected) /\ EndsHeader(t3) /\ s3 \in Seq(Cells)
    BY <1>1, <1>3, <1>5, <1>6, <1>7, FollowsHeader
  <1> HIDE DEF t3, s3
  <1>9. Follows(t2, s2, a, ix) /\ t2 \in Seq(Expected) /\ EndsHeader(t2) /\ s2 \in Seq(Cells)
    BY <1>1, <1>3, <1>4, <1>6, <1>8, FollowsHeader
  <1> HIDE DEF t2, s2
  <1>10. Follows(t1, Join(v1, s2), g, ix) /\ t1 \in Seq(Expected) /\ EndsHeader(t1)
    BY <1>1, <1>9, FollowsHeader DEF a
  <1>11. x1 \in Expected /\ x2 \in Expected /\ x3 \in Expected /\ m \in Expected /\ x1.what = "id"
    BY <1>2, Sizes, ScalarIs, MarkIs DEF Marks
  <1>12. HeaderItems = t1
    <2>1. HeaderItems = Four(x1, x2, x3, m)
      BY DEF HeaderItems, Four
    <2>2. t1 = Cons(x1, Cons(x2, Cons(x3, t4))) /\ t4 = <<m>>
      BY DEF t2, t3, t4
    <2> HIDE DEF x1, x2, x3, m, t1
    <2>3. t4 = Cons(m, <<>>)
      BY <1>11, <2>2, Shorts
    <2>4. PICK z : z = <<>>
      OBVIOUS
    <2>5. z \in Seq(Expected)
      BY <2>4
    <2>6. Four(x1, x2, x3, m) \in Seq(Expected)
          /\ Join(Four(x1, x2, x3, m), z) = Cons(x1, Cons(x2, Cons(x3, Cons(m, z))))
      BY <1>11, <2>5, JoinedFour
    <2>7. Join(Four(x1, x2, x3, m), <<>>) = Four(x1, x2, x3, m)
      BY <2>6, JoinIs
    <2> QED
      BY <2>1, <2>2, <2>3, <2>4, <2>6, <2>7
  <1>13. Ahead(t1, "id")
    BY <1>9, <1>11, AheadCons
  <1>15. v1 \in Seq(Cells) /\ v2 \in Seq(Cells) /\ v3 \in Seq(Cells)
    BY <1>1, <1>2, Sizes, ScalarWritten
  <1>16. Header(y) = Join(Join(v1, v2), v3) /\ s2 = Join(v2, Join(v3, S))
    BY DEF Header, Join, s2, s3
  <1> HIDE DEF v1, v2, v3, t1
  <1>17. Join(Header(y), S) = Join(v1, s2)
    BY <1>15, <1>16, Regrouped
  <1> QED
    BY <1>10, <1>12, <1>13, <1>17

(* The map of the ids, and what follows it. *)
LEMMA MapFollow ==
  ASSUME NEW ids \in Nat, NEW S \in Seq(Cells), NEW g, IsGot(g), NEW ix,
         Follows(HeaderItems, S, g, ix), HeaderItems \in Seq(Expected), EndsHeader(HeaderItems),
         Ahead(HeaderItems, "id")
  PROVE  Follows(Payload("IDMP"),
                 Join(WriteScalar("map_size", 8, ids), Join(WriteArray("id_map", ids, 4, 1, "id_map"), S)), g, ix)
  <1> DEFINE x  == Scalar("map_size", 8)
             a  == Array("id_map", ids, 4, 1)
             v  == IF ids = 0 THEN NoValue ELSE "id_map"
             v1 == WriteScalar("map_size", 8, ids)
             v2 == WriteArray("id_map", ids, 4, 1, "id_map")
             s2 == Join(v2, S)
             t2 == Cons(a, HeaderItems)
             t1 == Cons(x, <<>>)
  <1>1. /\ "map_size" \in ScalarPlaces \ {"summary_width"} /\ "map_size" \in HeaderPlaces /\ "map_size" \notin Kept
        /\ "id_map" \in ArrayPlaces /\ "id_map" \in HeaderPlaces /\ "id_map" \notin Kept /\ "id_map" \notin Branches
        /\ "id_map" \in Values /\ NoValue \in Values /\ ids \in Values /\ v \in Values
    BY DEF ScalarPlaces, ArrayPlaces, HeaderPlaces, Kept, Branches, Values
  <1>2. x \in Expected /\ x.what = "map_size" /\ x.bytes = 8 /\ x.what \notin Marks
    BY <1>1, Sizes, ScalarIs DEF Scalar, Item
  <1>3. a \in Expected /\ a.what = "id_map" /\ a.bytes = ids * 4 /\ a.what \notin Marks
    BY <1>1, Sizes, ArrayIs DEF Array, Item
  <1>4. Suits(x, ids)
    BY <1>1, <1>2 DEF Suits
  <1>5. Suits(a, v)
    <2>1. ids # 0 => ids * 4 # 0
      OBVIOUS
    <2> QED
      BY <1>1, <1>3, <2>1 DEF Suits
  <1>6. v2 = <<Valued(a, v)>>
    BY DEF WriteArray
  <1>7. v1 = <<Valued(x, ids)>>
    BY DEF WriteScalar
  <1> HIDE DEF x, a, v, v1, v2
  <1>8. Noted(g, "id_map", v) = g /\ Noted(g, "map_size", ids) = g
    BY <1>1, NotedSame
  <1>9. Then("id_map", v, g) \o HeaderItems = HeaderItems
    BY <1>1, ThenNothing, JoinNone
  <1>10. Consequence(a, HeaderItems, v, g, ix)
    BY <1>1, <1>3 DEF Consequence
  <1>11. ~Inside(t2)
    BY <1>1, <1>3, OutsideCons
  <1>12. Follows(t2, Cons(Valued(a, v), S), g, ix) /\ t2 \in Seq(Expected)
    BY <1>3, <1>5, <1>8, <1>9, <1>10, <1>11, FollowsItem, ConsIs
  <1>13. Valued(a, v) \in Cells /\ Valued(x, ids) \in Cells
    BY <1>2, <1>3, <1>4, <1>5, ValuedIs
  <1>14. s2 = Cons(Valued(a, v), S) /\ s2 \in Seq(Cells)
    BY <1>6, <1>13, JoinedOne
  <1>15. IdMapNext("map_size", ids) = Join(<<a>>, HeaderItems)
    BY DEF IdMapNext, Join, a
  <1>16. Join(<<a>>, HeaderItems) = t2
    BY <1>3, JoinedOne
  <1> HIDE DEF t2, s2
  <1>17. Then("map_size", ids, g) \o <<>> = t2
    <2>1. /\ VectorsNext("map_size", ids, g) = <<>> /\ ClustersNext("map_size", ids, g) = <<>>
          /\ ListsNext("map_size", ids) = <<>> /\ PostingsNext("map_size", ids, g) = <<>>
          /\ DiskNext("map_size", ids) = <<>>
      BY DEF VectorsNext, ClustersNext, ListsNext, PostingsNext, DiskNext
    <2>2. Then("map_size", ids, g) = (((((<<>> \o <<>>) \o <<>>) \o <<>>) \o <<>>) \o t2)
      BY <1>15, <1>16, <2>1 DEF Then
    <2>3. <<>> \o <<>> = <<>>
      OBVIOUS
    <2> QED
      BY <1>12, <2>2, <2>3, JoinNone
  <1>18. PICK z : z = <<>>
    OBVIOUS
  <1>19. z \in Seq(Expected)
    BY <1>18
  <1>20. Consequence(x, z, ids, g, ix)
    BY <1>1, <1>2, <1>18 DEF Consequence
  <1>21. ~Inside(Cons(x, z))
    BY <1>1, <1>2, <1>19, OutsideCons
  <1>22. Then("map_size", ids, g) \o z = t2
    BY <1>17, <1>18
  <1>23. Follows(Cons(x, z), Cons(Valued(x, ids), s2), g, ix)
    BY <1>2, <1>4, <1>8, <1>12, <1>14, <1>19, <1>20, <1>21, <1>22, FollowsItem
  <1>24. Join(v1, s2) = Cons(Valued(x, ids), s2)
    BY <1>7, <1>13, <1>14, JoinedOne
  <1>25. Payload("IDMP") = Cons(x, z)
    <2>1. Payload("IDMP") = <<x>>
      BY DEF Payload, x
    <2> QED
      BY <1>2, <1>18, <2>1, Shorts
  <1> QED
    BY <1>23, <1>24, <1>25 DEF v1, v2, s2

LEMMA MapNarrow ==
  ASSUME NEW ids \in Nat, NEW w
  PROVE  WriteScalar("map_size", 8, ids) \in Narrows(w) /\ WriteArray("id_map", ids, 4, 1, "id_map") \in Narrows(w)
  <1>1. /\ "map_size" \in ScalarPlaces \ {"summary_width"} /\ "id_map" \in ArrayPlaces
        /\ "id_map" \in Values /\ ids \in Values
    BY DEF ScalarPlaces, ArrayPlaces, Values
  <1>2. WriteScalar("map_size", 8, ids) \in Narrows(w)
    BY <1>1, Sizes, NarrowsScalar
  <1>3. WriteArray("id_map", ids, 4, 1, "id_map") \in Narrows(w)
    BY <1>1, Sizes, NarrowsArray
  <1> QED
    BY <1>2, <1>3

(* What a reader has read before it has read anything. *)
NothingRead == [w \in Kept |-> Default(w)]

LEMMA NothingReadIs == IsGot(NothingRead)
  <1>1. "n_term" \in Kept /\ "summary_width" \in Kept
    BY DEF Kept
  <1>2. Default("n_term") = 0 /\ Default("summary_width") = 4
    BY DEF Default
  <1> QED
    BY <1>1, <1>2 DEF IsGot, NothingRead

(* Of whatever version. *)
LEMMA PayloadNarrow ==
  ASSUME NEW d, IsFlat(d)
  PROVE  FlatPayload(d) \in Narrows(d.width)
  <1> DEFINE k == [id |-> d.id, version |-> Version, width |-> d.width]
             g == Noted(NothingRead, "id", d.id)
  <1>1. d.id # "IDMP"
    BY DEF IsFlat
  <1>2. InnerOf(k) = k /\ k.id = d.id /\ k.version = Version /\ k.width = d.width
    BY <1>1 DEF InnerOf
  <1>3. "id" \in Kept
    BY DEF Kept
  <1>4. IsGot(g) /\ g["id"] = d.id
    BY <1>3, NothingReadIs, NotedIs
  <1> HIDE DEF k, g
  <1>5. Within(g, k)
    BY <1>2, <1>4 DEF Within, Supports
  <1> QED
    BY <1>2, <1>5, PayloadFollow

LEMMA FlatFollow ==
  ASSUME NEW d, IsFlat(d), NEW ix, d = InnerOf(ix), NEW g, IsGot(g), HeaderRead(Read(g, d), ix),
         d.version = Version => Supports(ix)
  PROVE  /\ Follows(HeaderItems, FlatItems(d), g, ix) /\ FlatItems(d) \in Narrows(d.width)
         /\ HeaderItems \in Seq(Expected) /\ EndsHeader(HeaderItems) /\ Ahead(HeaderItems, "id")
  <1>1. d.id \in Writable /\ d.version \in Nat /\ d.dim \in Nat
    BY DEF IsFlat, Writable
  <1> DEFINE h == Read(g, d)
             S == FlatPayload(d)
  <1>2. IsGot(h) /\ h["id"] = d.id
    BY ReadIs
  <1> HIDE DEF h
  <1>3. S \in Narrows(d.width)
    BY PayloadNarrow
  <1>4. S \in Seq(Cells)
    BY <1>3 DEF Narrows
  <1>5. d.version = Version => Follows(Payload(d.id), S, h, ix)
    <2> SUFFICES ASSUME d.version = Version PROVE Follows(Payload(d.id), S, h, ix)
      OBVIOUS
    <2>1. Within(h, ix)
      BY <1>2 DEF Within
    <2>2. Reads(Payload(d.id), S, h, ix)
      BY <2>1, PayloadFollow
    <2> QED
      BY <2>2 DEF Reads
  <1> HIDE DEF S
  <1>6. /\ Follows(HeaderItems, Join(Header(d), S), g, ix)
        /\ HeaderItems \in Seq(Expected) /\ EndsHeader(HeaderItems) /\ Ahead(HeaderItems, "id")
    BY <1>1, <1>4, <1>5, HeaderFollow DEF h
  <1>7. Header(d) \in Narrows(d.width)
    BY <1>1, HeaderNarrow
  <1> QED
    BY <1>3, <1>6, <1>7, FlatItemsAre, NarrowsJoin DEF S

(* An index that is saved reads back, from its first item to its last.      *)
LEMMA ItemsFollow ==
  ASSUME NEW ix, IsMapped(ix) \/ IsFlat(ix)
  PROVE  /\ Follows(HeaderItems, Items(ix), NothingRead, ix)
         /\ Items(ix) \in Narrows(InnerOf(ix).width)
  <1>1. CASE IsFlat(ix)
    <2>1. ix.id # "IDMP"
      BY <1>1 DEF IsFlat
    <2>2. InnerOf(ix) = ix /\ Items(ix) = FlatItems(ix)
      BY <2>1 DEF InnerOf, Items
    <2>3. HeaderRead(Read(NothingRead, ix), ix)
      BY NothingReadIs, ReadIs DEF HeaderRead
    <2>4. ix.version = Version => Supports(ix)
      BY <2>2 DEF Supports
    <2> QED
      BY <1>1, <2>2, <2>3, <2>4, NothingReadIs, FlatFollow
  <1>2. CASE IsMapped(ix)
    <2> DEFINE d == ix.delegate
               h == Read(NothingRead, ix)
               k == Read(h, d)
               S == FlatItems(d)
               v1 == WriteScalar("map_size", 8, ix.ids)
               v2 == WriteArray("id_map", ix.ids, 4, 1, "id_map")
               S1 == Join(v1, Join(v2, S))
    <2>1. ix.id = "IDMP" /\ ix.version \in Nat /\ ix.dim \in Nat /\ ix.ids \in Nat /\ IsFlat(d)
      BY <1>2 DEF IsMapped
    <2>2. InnerOf(ix) = d
      BY <2>1 DEF InnerOf
    <2> HIDE DEF d
    <2>3. IsGot(h) /\ h["id"] = ix.id /\ h["version"] = ix.version
      BY NothingReadIs, ReadIs
    <2> HIDE DEF h
    <2>4. k["id"] = d.id /\ k["version"] = d.version
      BY <2>3, ReadIs
    <2>5. S \in Narrows(d.width)
      <3>1. S = Join(Header(d), FlatPayload(d))
        BY FlatItemsAre
      <3>2. FlatPayload(d) \in Narrows(d.width)
        BY <2>1, PayloadNarrow
      <3>3. Header(d) \in Narrows(d.width)
        BY <2>1, HeaderNarrow DEF IsFlat, Writable
      <3> QED
        BY <3>1, <3>2, <3>3, NarrowsJoin
    <2>6. S \in Seq(Cells)
      BY <2>5 DEF Narrows
    <2>7. ix.version = Version =>
            /\ Follows(HeaderItems, S, h, ix)
            /\ HeaderItems \in Seq(Expected) /\ EndsHeader(HeaderItems) /\ Ahead(HeaderItems, "id")
      <3> SUFFICES ASSUME ix.version = Version
                   PROVE  /\ Follows(HeaderItems, S, h, ix)
                          /\ HeaderItems \in Seq(Expected) /\ EndsHeader(HeaderItems) /\ Ahead(HeaderItems, "id")
        OBVIOUS
      <3>1. HeaderRead(k, ix)
        BY <2>1, <2>4 DEF HeaderRead, d
      <3>2. d.version = Version => Supports(ix)
        BY <2>2 DEF Supports
      <3> HIDE DEF k
      <3> QED
        BY <2>1, <2>2, <2>3, <3>1, <3>2, FlatFollow DEF k
    <2> HIDE DEF S
    <2>8. v1 \in Narrows(d.width) /\ v2 \in Narrows(d.width)
      BY <2>1, MapNarrow
    <2>9. v1 \in Seq(Cells) /\ v2 \in Seq(Cells)
      BY <2>8 DEF Narrows
    <2>10. ix.version = Version => Follows(Payload(ix.id), S1, h, ix)
      BY <2>1, <2>3, <2>6, <2>7, MapFollow
    <2> HIDE DEF v1, v2
    <2>11. Join(v2, S) \in Seq(Cells) /\ S1 \in Seq(Cells)
      <3>1. Join(v2, S) \in Seq(Cells)
        BY <2>6, <2>9, JoinIs
      <3> QED
        BY <2>9, <3>1, JoinIs
    <2>12. Items(ix) = Join(Join(Join(Header(ix), v1), v2), S)
      BY <2>1 DEF Items, Join, v1, v2, S, d
    <2>13. HeaderRead(h, ix)
      BY <2>3 DEF HeaderRead
    <2>14. "IDMP" \in Writable
      BY DEF Writable
    <2>15. Follows(HeaderItems, Join(Header(ix), S1), NothingRead, ix)
      <3> HIDE DEF S1
      <3> QED
        BY <2>1, <2>10, <2>11, <2>13, <2>14, NothingReadIs, HeaderFollow DEF h
    <2>16. Header(ix) \in Narrows(d.width) /\ Header(ix) \in Seq(Cells)
      <3>1. Header(ix) \in Narrows(d.width)
        BY <2>1, <2>14, HeaderNarrow
      <3> QED
        BY <3>1 DEF Narrows
    <2>17. Items(ix) = Join(Header(ix), S1)
      BY <2>6, <2>9, <2>12, <2>16, Regrouped
    <2>18. Join(Header(ix), v1) \in Narrows(d.width)
      BY <2>8, <2>16, NarrowsJoin
    <2>19. Join(Join(Header(ix), v1), v2) \in Narrows(d.width)
      BY <2>8, <2>18, NarrowsJoin
    <2>20. Items(ix) \in Narrows(d.width)
      BY <2>5, <2>12, <2>19, NarrowsJoin
    <2> QED
      BY <2>2, <2>15, <2>17, <2>20
  <1> QED
    BY <1>1, <1>2

-----------------------------------------------------------------------------
(* Where the items lie in the file.                                         *)

Pieces == [at : Nat, bytes : Nat, what : ArrayPlaces \union ScalarPlaces, value : Values]

EndOf(w, j) == IF j = 0 THEN 0 ELSE w[j].at + w[j].bytes

Piece(c, at) == [at |-> at, bytes |-> c.bytes, what |-> c.what, value |-> c.value]

(* w is the first of I, each after the one before, on its boundary.         *)
LaidOut(w, I) ==
  /\ w \in Seq(Pieces) /\ I \in Seq(Cells) /\ Len(w) <= Len(I)
  /\ \A i \in 1 .. Len(w) : w[i] = Piece(I[i], AlignUp(EndOf(w, i - 1), I[i].align))

(* What is left of I after the first k. *)
Rest(I, k) == [i \in 1 .. Len(I) - k |-> I[k + i]]

LEMMA AlignUpIs ==
  ASSUME NEW p \in Nat, NEW a \in Nat \ {0}
  PROVE  AlignUp(p, a) \in Nat /\ AlignUp(p, a) >= p /\ AlignUp(0, a) = 0
  <1> DEFINE q == (p + a - 1) \div a
             r == (p + a - 1) % a
  <1>1. q \in Nat /\ r \in 0 .. a - 1 /\ p + a - 1 = a * q + r
    BY Z3
  <1>2. (0 + a - 1) \div a = 0
    BY Z3
  <1> HIDE DEF q, r
  <1>3. a * q \in Nat /\ a * q = q * a /\ a * q >= p
    BY <1>1, Z3
  <1>4. AlignUp(p, a) = q * a
    BY DEF AlignUp, q
  <1>5. AlignUp(0, a) = 0
    BY <1>2 DEF AlignUp
  <1> QED
    BY <1>3, <1>4, <1>5

LEMMA Ends ==
  ASSUME NEW w, NEW I, LaidOut(w, I)
  PROVE  /\ \A j \in 0 .. Len(w) : EndOf(w, j) \in Nat
         /\ \A j \in 1 .. Len(w) : /\ w[j].at >= EndOf(w, j - 1) /\ EndOf(w, j) = w[j].at + w[j].bytes
                                   /\ w[j].at \in Nat /\ w[j].bytes \in Nat
                                   /\ w[j].bytes = I[j].bytes /\ w[j].value = I[j].value
                                   /\ w[j].at = AlignUp(EndOf(w, j - 1), I[j].align)
  <1>1. w \in Seq(Pieces) /\ I \in Seq(Cells) /\ Len(w) <= Len(I)
        /\ \A i \in 1 .. Len(w) : w[i] = Piece(I[i], AlignUp(EndOf(w, i - 1), I[i].align))
    BY DEF LaidOut
  <1>2. \A j \in 1 .. Len(w) : w[j] \in Pieces /\ I[j] \in Cells
    BY <1>1
  <1>3. \A j \in 1 .. Len(w) : w[j].at \in Nat /\ w[j].bytes \in Nat /\ I[j].align \in Nat \ {0}
    BY <1>2 DEF Pieces, Cells
  <1>4. \A j \in 0 .. Len(w) : EndOf(w, j) \in Nat
    BY <1>3 DEF EndOf
  <1>5. ASSUME NEW j \in 1 .. Len(w)
        PROVE  /\ w[j].at >= EndOf(w, j - 1) /\ EndOf(w, j) = w[j].at + w[j].bytes
               /\ w[j].bytes = I[j].bytes /\ w[j].value = I[j].value
               /\ w[j].at = AlignUp(EndOf(w, j - 1), I[j].align)
    <2>1. w[j] = Piece(I[j], AlignUp(EndOf(w, j - 1), I[j].align))
      BY <1>1
    <2>2. w[j].at = AlignUp(EndOf(w, j - 1), I[j].align) /\ w[j].bytes = I[j].bytes /\ w[j].value = I[j].value
      BY <2>1 DEF Piece
    <2>3. j - 1 \in 0 .. Len(w) /\ j # 0
      BY <1>1
    <2>4. EndOf(w, j - 1) \in Nat
      BY <1>4, <2>3
    <2>5. AlignUp(EndOf(w, j - 1), I[j].align) >= EndOf(w, j - 1)
      BY <1>3, <2>4, AlignUpIs
    <2> QED
      BY <2>2, <2>3, <2>5 DEF EndOf
  <1> QED
    BY <1>3, <1>4, <1>5

LEMMA EndsAscend ==
  ASSUME NEW w, NEW I, LaidOut(w, I), NEW i \in 0 .. Len(w), NEW j \in 0 .. Len(w), i <= j
  PROVE  EndOf(w, i) <= EndOf(w, j)
  <1> DEFINE D == {m \in Nat : i + m <= j => EndOf(w, i) <= EndOf(w, i + m)}
  <1>0. w \in Seq(Pieces) /\ Len(w) \in Nat
    BY DEF LaidOut
  <1>1. 0 \in D
    <2>1. EndOf(w, i) \in Nat /\ i + 0 = i
      BY <1>0, Ends
    <2> QED
      BY <2>1
  <1>2. ASSUME NEW m \in Nat, m \in D PROVE m + 1 \in D
    <2>1. CASE i + (m + 1) <= j
      <3>1. i + (m + 1) \in 1 .. Len(w) /\ (i + (m + 1)) - 1 = i + m /\ i + m \in 0 .. Len(w) /\ i + m <= j
        BY <1>0, <2>1
      <3>2. EndOf(w, i) <= EndOf(w, i + m)
        BY <1>2, <3>1
      <3>3. EndOf(w, i) \in Nat /\ EndOf(w, i + m) \in Nat /\ EndOf(w, i + (m + 1)) \in Nat
        BY <1>0, <3>1, Ends
      <3>4. /\ w[i + (m + 1)].at >= EndOf(w, i + m)
            /\ EndOf(w, i + (m + 1)) = w[i + (m + 1)].at + w[i + (m + 1)].bytes
            /\ w[i + (m + 1)].at \in Nat /\ w[i + (m + 1)].bytes \in Nat
        BY <3>1, Ends
      <3>5. EndOf(w, i) <= EndOf(w, i + (m + 1))
        BY <3>2, <3>3, <3>4
      <3> QED
        BY <3>5
    <2>2. CASE ~(i + (m + 1) <= j)
      BY <2>2
    <2> QED
      BY <2>1, <2>2
  <1>3. j - i \in Nat /\ i + (j - i) = j
    BY <1>0
  <1> HIDE DEF D
  <1>4. j - i \in D
    BY <1>1, <1>2, <1>3, NatSetInduction
  <1> QED
    BY <1>3, <1>4 DEF D

(* No other item of that many bytes starts where this one does.             *)
LEMMA OneThere ==
  ASSUME NEW w, NEW I, LaidOut(w, I), NEW k \in 1 .. Len(w), w[k].bytes > 0
  PROVE  {f \in Range(w) : f.at = w[k].at /\ f.bytes = w[k].bytes} = {w[k]}
  <1>0. w \in Seq(Pieces) /\ Len(w) \in Nat
    BY DEF LaidOut
  <1>1. \A f : f \in Range(w) <=> \E j \in 1 .. Len(w) : f = w[j]
    BY <1>0 DEF Range
  <1>2. ASSUME NEW i \in 1 .. Len(w), NEW j \in 1 .. Len(w), i < j
        PROVE  w[i].at + w[i].bytes <= w[j].at /\ w[i].at \in Nat /\ w[i].bytes \in Nat /\ w[j].at \in Nat
    <2>1. i \in 0 .. Len(w) /\ j - 1 \in 0 .. Len(w) /\ i <= j - 1
      BY <1>0, <1>2
    <2>2. EndOf(w, i) <= EndOf(w, j - 1) /\ EndOf(w, j - 1) \in Nat /\ EndOf(w, i) \in Nat
      BY <2>1, Ends, EndsAscend
    <2>3. w[j].at >= EndOf(w, j - 1) /\ EndOf(w, i) = w[i].at + w[i].bytes /\ w[i].at \in Nat /\ w[i].bytes \in Nat
          /\ w[j].at \in Nat
      BY Ends
    <2> QED
      BY <2>2, <2>3
  <1>3. ASSUME NEW j \in 1 .. Len(w), w[j].at = w[k].at, w[j].bytes = w[k].bytes PROVE j = k
    <2>1. CASE j < k
      <3>1. w[j].at + w[j].bytes <= w[k].at /\ w[j].at \in Nat /\ w[j].bytes \in Nat
        BY <1>2, <2>1
      <3> QED
        BY <1>3, <3>1
    <2>2. CASE k < j
      <3>1. w[k].at + w[k].bytes <= w[j].at /\ w[k].at \in Nat /\ w[k].bytes \in Nat
        BY <1>2, <2>2
      <3> QED
        BY <1>3, <3>1
    <2> QED
      BY <1>0, <2>1, <2>2
  <1>4. ASSUME NEW f \in Range(w), f.at = w[k].at, f.bytes = w[k].bytes PROVE f = w[k]
    <2>1. PICK j \in 1 .. Len(w) : f = w[j]
      BY <1>1
    <2> QED
      BY <1>3, <1>4, <2>1
  <1>5. w[k] \in Range(w)
    BY <1>1
  <1> QED
    BY <1>4, <1>5

LEMMA SameItems ==
  ASSUME NEW X, NEW a \in Seq(X), NEW b \in Seq(X), Len(a) = Len(b), \A i \in 1 .. Len(b) : a[i] = b[i]
  PROVE  a = b
  OBVIOUS

LEMMA RestIs ==
  ASSUME NEW I \in Seq(Cells), NEW k \in 0 .. Len(I)
  PROVE  /\ Rest(I, k) \in Seq(Cells) /\ Len(Rest(I, k)) = Len(I) - k
         /\ Rest(I, k) = <<>> <=> k = Len(I)
         /\ \A i \in 1 .. Len(I) - k : Rest(I, k)[i] = I[k + i]
         /\ k < Len(I) => Head(Rest(I, k)) = I[k + 1] /\ Tail(Rest(I, k)) = Rest(I, k + 1)
         /\ Rest(I, 0) = I
  <1> DEFINE R == Rest(I, k)
  <1>1. \A i \in 1 .. Len(I) - k : k + i \in 1 .. Len(I) /\ I[k + i] \in Cells
    OBVIOUS
  <1>2. R \in Seq(Cells) /\ Len(R) = Len(I) - k /\ \A i \in 1 .. Len(I) - k : R[i] = I[k + i]
    BY <1>1 DEF Rest
  <1>3. Rest(I, 0) = I
    BY DEF Rest
  <1>4. ASSUME k < Len(I) PROVE Head(R) = I[k + 1] /\ Tail(R) = Rest(I, k + 1)
    <2> DEFINE Q == Rest(I, k + 1)
               T == Tail(R)
    <2>1. \A i \in 1 .. Len(I) - (k + 1) : (k + 1) + i \in 1 .. Len(I) /\ I[(k + 1) + i] \in Cells
      OBVIOUS
    <2>2. Q \in Seq(Cells) /\ Len(Q) = Len(I) - (k + 1) /\ \A i \in 1 .. Len(I) - (k + 1) : Q[i] = I[(k + 1) + i]
      BY <1>4, <2>1 DEF Rest
    <2> HIDE DEF R, Q
    <2>3. R # <<>> /\ Head(R) = R[1] /\ T \in Seq(Cells) /\ Len(T) = Len(R) - 1
          /\ \A i \in 1 .. Len(R) - 1 : T[i] = R[i + 1]
      BY <1>2, <1>4, HeadTail
    <2>4. Head(R) = I[k + 1]
      BY <1>2, <1>4, <2>3
    <2> HIDE DEF T
    <2>5. Len(T) = Len(Q)
      BY <1>2, <2>2, <2>3
    <2>6. \A i \in 1 .. Len(Q) : T[i] = Q[i]
      <3> SUFFICES ASSUME NEW i \in 1 .. Len(Q) PROVE T[i] = Q[i]
        OBVIOUS
      <3>1. i \in 1 .. Len(R) - 1 /\ i + 1 \in 1 .. Len(I) - k /\ k + (i + 1) = (k + 1) + i
        BY <1>2, <2>2, <2>5, <2>3
      <3> QED
        BY <1>2, <2>2, <2>3, <3>1
    <2>7. T = Q
      BY <2>2, <2>3, <2>5, <2>6, SameItems
    <2> QED
      BY <2>4, <2>7 DEF T, Q
  <1>5. R = <<>> <=> k = Len(I)
    BY <1>2
  <1> QED
    BY <1>2, <1>3, <1>4, <1>5

LEMMA LaidOn ==
  ASSUME NEW w, NEW I, LaidOut(w, I), Len(w) < Len(I),
         NEW c, c = I[Len(w) + 1], NEW v, v = Append(w, Piece(c, AlignUp(EndOf(w, Len(w)), c.align)))
  PROVE  /\ LaidOut(v, I) /\ Len(v) = Len(w) + 1
         /\ EndOf(v, Len(v)) = AlignUp(EndOf(w, Len(w)), c.align) + c.bytes
  <1> DEFINE n == Len(w)
             p == Piece(c, AlignUp(EndOf(w, n), c.align))
  <1>1. w \in Seq(Pieces) /\ I \in Seq(Cells) /\ Len(I) \in Nat /\ n \in Nat
        /\ \A i \in 1 .. n : w[i] = Piece(I[i], AlignUp(EndOf(w, i - 1), I[i].align))
    BY DEF LaidOut
  <1>2. c \in Cells
    BY <1>1
  <1>3. EndOf(w, n) \in Nat
    BY <1>1, Ends
  <1>4. AlignUp(EndOf(w, n), c.align) \in Nat
    BY <1>2, <1>3, AlignUpIs DEF Cells
  <1>5. p \in Pieces /\ p.at = AlignUp(EndOf(w, n), c.align) /\ p.bytes = c.bytes
    BY <1>2, <1>4 DEF Piece, Pieces, Cells
  <1> HIDE DEF p
  <1>6. v = Append(w, p)
    BY DEF p
  <1>7. v \in Seq(Pieces) /\ Len(v) = n + 1 /\ v[n + 1] = p /\ \A i \in 1 .. n : v[i] = w[i]
    BY <1>1, <1>5, <1>6
  <1>8. \A j \in 0 .. n : EndOf(v, j) = EndOf(w, j)
    BY <1>1, <1>7 DEF EndOf
  <1>9. EndOf(v, n + 1) = AlignUp(EndOf(w, n), c.align) + c.bytes
    BY <1>1, <1>5, <1>7 DEF EndOf
  <1>10. ASSUME NEW i \in 1 .. n + 1
         PROVE  v[i] = Piece(I[i], AlignUp(EndOf(v, i - 1), I[i].align))
    <2>1. CASE i = n + 1
      <3>1. i - 1 = n /\ n \in 0 .. n /\ I[i] = c
        BY <1>1, <2>1
      <3>2. EndOf(v, i - 1) = EndOf(w, n)
        BY <1>8, <3>1
      <3> QED
        BY <1>7, <2>1, <3>1, <3>2 DEF p
    <2>2. CASE i # n + 1
      <3>1. i \in 1 .. n /\ i - 1 \in 0 .. n
        BY <1>1, <2>2
      <3>2. v[i] = w[i] /\ EndOf(v, i - 1) = EndOf(w, i - 1)
        BY <1>7, <1>8, <3>1
      <3> QED
        BY <1>1, <3>1, <3>2
    <2> QED
      BY <2>1, <2>2
  <1>11. LaidOut(v, I)
    <2>1. Len(v) <= Len(I)
      BY <1>1, <1>7
    <2> QED
      BY <1>1, <1>7, <1>10, <2>1 DEF LaidOut
  <1> QED
    BY <1>7, <1>9, <1>11

(* As many items of eight bytes or more as there are, that many bytes are left. *)
LEMMA SpansBytes ==
  ASSUME NEW w, NEW I, LaidOut(w, I), Len(w) = Len(I), NEW k \in 0 .. Len(I), NEW m \in Nat,
         Spans(Rest(I, k), m)
  PROVE  EndOf(w, k) + 8 * m <= EndOf(w, Len(w))
  <1> DEFINE n == Len(I)
             s == Rest(I, k)
  <1>1. I \in Seq(Cells) /\ w \in Seq(Pieces) /\ n \in Nat /\ Len(w) = n
    BY DEF LaidOut
  <1>2. Len(s) = n - k /\ \A i \in 1 .. n - k : s[i] = I[k + i]
    BY <1>1, RestIs
  <1> HIDE DEF s
  <1>3. PICK f \in [1 .. m -> 1 .. Len(s)] :
          /\ \A i, j \in 1 .. m : i < j => f[i] < f[j]
          /\ \A i \in 1 .. m : s[f[i]].bytes >= 8
    BY DEF Spans, s
  <1>4. \A i \in 1 .. m : f[i] \in 1 .. n - k /\ k + f[i] \in 1 .. n /\ s[f[i]] = I[k + f[i]]
    BY <1>1, <1>2, <1>3
  <1>5. \A j \in 0 .. n : EndOf(w, j) \in Nat
    BY <1>1, Ends
  <1> DEFINE D == {j \in Nat : (j \in 1 .. m) => EndOf(w, k) + 8 * j <= EndOf(w, k + f[j])}
  <1>6. ASSUME NEW j \in 1 .. m, NEW e \in 0 .. n, e <= (k + f[j]) - 1, NEW b \in Nat,
               EndOf(w, k) + b <= EndOf(w, e)
        PROVE  EndOf(w, k) + b + 8 <= EndOf(w, k + f[j])
    <2> DEFINE i == k + f[j]
    <2>0. s[f[j]].bytes >= 8 /\ s[f[j]] = I[i] /\ i \in 1 .. n
      BY <1>3, <1>4
    <2>1. i \in 1 .. n /\ i - 1 \in 0 .. n /\ I[i].bytes >= 8
      <3>1. I[i].bytes >= 8
        BY <2>0
      <3> QED
        BY <1>1, <2>0, <3>1
    <2> HIDE DEF i
    <2>2. EndOf(w, e) <= EndOf(w, i - 1)
      BY <1>1, <1>6, <2>1, EndsAscend DEF i
    <2>3. /\ w[i].at >= EndOf(w, i - 1) /\ EndOf(w, i) = w[i].at + w[i].bytes
          /\ w[i].at \in Nat /\ w[i].bytes \in Nat /\ w[i].bytes >= 8
      BY <1>1, <2>1, Ends
    <2>4. EndOf(w, k) \in Nat /\ EndOf(w, e) \in Nat /\ EndOf(w, i - 1) \in Nat /\ EndOf(w, i) \in Nat
      BY <1>1, <1>5, <2>1
    <2>5. EndOf(w, k) + b + 8 <= EndOf(w, i)
      <3>1. ASSUME NEW a \in Nat, NEW z \in Nat, NEW c \in Nat, NEW d \in Nat, NEW x \in Nat, NEW y \in Nat,
                   a + z <= c, c <= d, x >= d, y >= 8
            PROVE  a + z + 8 <= x + y
        BY <3>1
      <3>2. EndOf(w, k) + b + 8 <= w[i].at + w[i].bytes
        BY <1>6, <2>2, <2>3, <2>4, <3>1
      <3> QED
        BY <2>3, <3>2
    <2> QED
      BY <2>5 DEF i
  <1>7. 0 \in D
    OBVIOUS
  <1>8. ASSUME NEW j \in Nat, j \in D PROVE j + 1 \in D
    <2> SUFFICES ASSUME j + 1 \in 1 .. m PROVE EndOf(w, k) + 8 * (j + 1) <= EndOf(w, k + f[j + 1])
      OBVIOUS
    <2>1. CASE j = 0
      <3>1. k \in 0 .. n /\ k <= (k + f[j + 1]) - 1 /\ EndOf(w, k) + 0 <= EndOf(w, k)
        BY <1>1, <1>4, <1>5
      <3>2. EndOf(w, k) + 0 + 8 <= EndOf(w, k + f[j + 1])
        BY <1>6, <3>1
      <3>3. 8 * (j + 1) = 8 /\ EndOf(w, k) \in Nat
        BY <1>1, <1>5, <2>1
      <3> QED
        BY <3>2, <3>3
    <2>2. CASE j # 0
      <3>1. j \in 1 .. m /\ f[j] < f[j + 1]
        BY <1>3, <2>2
      <3>2. k + f[j] \in 0 .. n /\ k + f[j] <= (k + f[j + 1]) - 1
        BY <1>1, <1>4, <3>1
      <3>3. EndOf(w, k) + 8 * j <= EndOf(w, k + f[j]) /\ 8 * j \in Nat
        BY <1>8, <3>1
      <3>4. EndOf(w, k) + 8 * j + 8 <= EndOf(w, k + f[j + 1])
        BY <1>6, <3>2, <3>3
      <3>5. 8 * (j + 1) = 8 * j + 8 /\ EndOf(w, k) \in Nat
        BY <1>1, <1>5
      <3>6. EndOf(w, k) + (8 * j + 8) = EndOf(w, k) + 8 * j + 8
        BY <3>3, <3>5
      <3> QED
        BY <3>4, <3>5, <3>6
    <2> QED
      BY <2>1, <2>2
  <1> HIDE DEF D
  <1>9. m \in D
    BY <1>7, <1>8, NatSetInduction
  <1>10. CASE m = 0
    <2>1. EndOf(w, k) <= EndOf(w, n) /\ EndOf(w, k) \in Nat /\ 8 * m = 0
      BY <1>1, <1>5, <1>10, EndsAscend
    <2> QED
      BY <1>1, <2>1
  <1>11. CASE m # 0
    <2>1. EndOf(w, k) + 8 * m <= EndOf(w, k + f[m]) /\ k + f[m] \in 0 .. n
      BY <1>4, <1>9, <1>11 DEF D
    <2>2. EndOf(w, k + f[m]) <= EndOf(w, n)
      BY <1>1, <2>1, EndsAscend
    <2>3. EndOf(w, k) \in Nat /\ EndOf(w, k + f[m]) \in Nat /\ EndOf(w, n) \in Nat /\ 8 * m \in Nat
      BY <1>1, <1>5, <2>1
    <2> QED
      BY <1>1, <2>1, <2>2, <2>3
  <1> QED
    BY <1>10, <1>11

(* How much of the file there is, once it is written: all of it, or a part  *)
(* that ends within the last item.                                          *)
Complete(w, I, there) == Len(w) = Len(I) /\ there = EndOf(w, Len(w))
Broken(w, there) == /\ w # <<>> /\ there \in Nat
                    /\ w[Len(w)].at <= there /\ there < EndOf(w, Len(w))

(* What comes after the first k items, if the file does not end before.     *)
LEMMA NextThere ==
  ASSUME NEW w, NEW I, LaidOut(w, I), NEW there, Complete(w, I, there) \/ Broken(w, there),
         NEW k \in 0 .. Len(w), k < Len(I), EndOf(w, k) <= there
  PROVE  /\ there \in Nat /\ k + 1 \in 1 .. Len(w) /\ k + 1 \in 1 .. Len(I)
         /\ w[k + 1].at = AlignUp(EndOf(w, k), I[k + 1].align) /\ w[k + 1].at \in Nat
         /\ w[k + 1].bytes = I[k + 1].bytes /\ w[k + 1].value = I[k + 1].value
         /\ EndOf(w, k + 1) = w[k + 1].at + w[k + 1].bytes /\ EndOf(w, k + 1) \in Nat
         /\ w[k + 1].at <= there
         /\ EndOf(w, k + 1) > there => Broken(w, there) /\ k + 1 = Len(w)
  <1>1. I \in Seq(Cells) /\ w \in Seq(Pieces) /\ Len(I) \in Nat /\ Len(w) \in Nat /\ Len(w) <= Len(I)
    BY DEF LaidOut
  <1>2. \A j \in 0 .. Len(w) : EndOf(w, j) \in Nat
    BY Ends
  <1>3. there \in Nat
    <2>1. Len(w) \in 0 .. Len(w)
      BY <1>1
    <2> QED
      BY <1>2, <2>1 DEF Complete, Broken
  <1>4. k + 1 \in 1 .. Len(w)
    <2>1. CASE Complete(w, I, there)
      BY <1>1, <2>1 DEF Complete
    <2>2. CASE Broken(w, there)
      <3>1. k # Len(w)
        BY <1>1, <1>2, <2>2 DEF Broken
      <3> QED
        BY <1>1, <3>1
    <2> QED
      BY <2>1, <2>2
  <1>5. (k + 1) - 1 = k
    BY <1>1
  <1>6. /\ w[k + 1].at = AlignUp(EndOf(w, k), I[k + 1].align) /\ w[k + 1].at \in Nat /\ w[k + 1].bytes \in Nat
        /\ w[k + 1].bytes = I[k + 1].bytes /\ w[k + 1].value = I[k + 1].value
        /\ EndOf(w, k + 1) = w[k + 1].at + w[k + 1].bytes
    BY <1>4, <1>5, Ends
  <1>7. EndOf(w, k + 1) \in Nat /\ k + 1 \in 0 .. Len(w) /\ Len(w) \in 1 .. Len(w) /\ Len(w) \in 0 .. Len(w)
    BY <1>1, <1>2, <1>4
  <1>8. EndOf(w, k + 1) <= EndOf(w, Len(w))
    BY <1>1, <1>7, EndsAscend
  <1>9. CASE Complete(w, I, there)
    <2>1. EndOf(w, k + 1) <= there
      BY <1>8, <1>9 DEF Complete
    <2>2. w[k + 1].at <= there
      BY <1>3, <1>6, <1>7, <2>1
    <2> QED
      BY <1>1, <1>3, <1>4, <1>6, <1>7, <2>1, <2>2
  <1>10. CASE Broken(w, there)
    <2>1. w[Len(w)].at <= there /\ there < EndOf(w, Len(w)) /\ w[Len(w)].at \in Nat
      BY <1>7, <1>10, Ends DEF Broken
    <2>2. CASE k + 1 = Len(w)
      BY <1>1, <1>3, <1>4, <1>6, <1>7, <1>10, <2>1, <2>2
    <2>3. CASE k + 1 # Len(w)
      <3>1. k + 1 <= Len(w) - 1 /\ Len(w) - 1 \in 0 .. Len(w)
        BY <1>1, <1>4, <2>3
      <3>2. EndOf(w, k + 1) <= EndOf(w, Len(w) - 1) /\ EndOf(w, Len(w) - 1) \in Nat
        BY <1>2, <1>7, <3>1, EndsAscend
      <3>3. EndOf(w, Len(w) - 1) <= w[Len(w)].at
        BY <1>7, Ends
      <3>4. EndOf(w, k + 1) <= there
        BY <1>3, <1>7, <2>1, <3>2, <3>3
      <3>5. w[k + 1].at <= there
        BY <1>3, <1>6, <1>7, <3>4
      <3> QED
        BY <1>1, <1>3, <1>4, <1>6, <1>7, <3>4, <3>5
    <2> QED
      BY <2>2, <2>3
  <1> QED
    BY <1>9, <1>10
-----------------------------------------------------------------------------
(* A reader that has not read what was written.                             *)

(* What a payload's reader may come to expect. *)
Later == {x \in Expected : x.what \notin HeaderPlaces \union {"n_term"}}

LEMMA LaterItems ==
  ASSUME NEW t \in Seq(Expected), NEW d \in Seq(Later)
  PROVE  /\ Join(d, t) \in Seq(Expected)
         /\ Inside(t) => Inside(Join(d, t))
         /\ ~Ahead(t, "n_term") => ~Ahead(Join(d, t), "n_term")
         /\ \A what : Ahead(t, what) \/ Ahead(d, what) => Ahead(Join(d, t), what)
         /\ \A i \in DOMAIN t : \E j \in DOMAIN Join(d, t) : Join(d, t)[j] = t[i]
  <1> DEFINE c == d \o t
  <1>1. d \in Seq(Expected) /\ \A i \in 1 .. Len(d) : d[i] \in Later
    BY DEF Later
  <1>2. c \in Seq(Expected) /\ Len(c) = Len(d) + Len(t) /\ DOMAIN c = 1 .. Len(d) + Len(t)
        /\ (\A i \in 1 .. Len(d) : c[i] = d[i]) /\ \A i \in 1 .. Len(t) : c[Len(d) + i] = t[i]
    BY <1>1
  <1>3. Len(d) \in Nat /\ Len(t) \in Nat /\ DOMAIN d = 1 .. Len(d) /\ DOMAIN t = 1 .. Len(t)
    OBVIOUS
  <1> HIDE DEF c
  <1>4. ASSUME NEW i \in 1 .. Len(d) + Len(t)
        PROVE  c[i] \in Later \/ \E j \in 1 .. Len(t) : c[i] = t[j]
    <2>1. CASE i \in 1 .. Len(d)
      BY <1>1, <1>2, <2>1
    <2>2. CASE i \notin 1 .. Len(d)
      <3>1. i - Len(d) \in 1 .. Len(t) /\ Len(d) + (i - Len(d)) = i
        BY <1>3, <2>2
      <3> QED
        BY <1>2, <3>1
    <2> QED
      BY <2>1, <2>2
  <1>5. ASSUME Inside(t) PROVE Inside(c)
    BY <1>2, <1>3, <1>4, <1>5 DEF Inside, Later
  <1>6. ASSUME ~Ahead(t, "n_term") PROVE ~Ahead(c, "n_term")
    BY <1>2, <1>3, <1>4, <1>6 DEF Ahead, Later
  <1>7. ASSUME NEW i \in 1 .. Len(t) PROVE \E j \in DOMAIN c : c[j] = t[i]
    <2>1. Len(d) + i \in DOMAIN c
      BY <1>2, <1>3
    <2> QED
      BY <1>2, <2>1
  <1>8. ASSUME NEW i \in 1 .. Len(d) PROVE \E j \in DOMAIN c : c[j] = d[i]
    <2>1. i \in DOMAIN c
      BY <1>2, <1>3
    <2> QED
      BY <1>2, <2>1
  <1>9. ASSUME NEW what, Ahead(t, what) \/ Ahead(d, what) PROVE Ahead(c, what)
    BY <1>3, <1>7, <1>8, <1>9 DEF Ahead
  <1> QED
    BY <1>2, <1>3, <1>5, <1>6, <1>7, <1>9 DEF c, Join

(* The items it does expect, after as little as possible. *)
LEMMA LaterAre ==
  /\ \A what \in {"n_offsets", "n_clusters", "summary_width", "n_terms", "nnz", "scores_size", "vector_count"} :
       Scalar(what, 8) \in Later /\ Scalar(what, 8).what = what
  /\ \A what \in {"count"} : PaddedScalar(what, 8) \in Later
  /\ \A what \in {"docs", "offsets", "csc_cluster", "csc_value", "doc_ids", "codes", "max_term_scores",
                  "section", "locators"} :
       \A count \in Nat, width \in Nat, align \in Nat \ {0} : Array(what, count, width, align) \in Later
  /\ \A what \in Marks \ {"payload"} : Mark(what) \in Later /\ Mark(what).what = what
  <1>1. ASSUME NEW what \in {"n_offsets", "n_clusters", "summary_width", "n_terms", "nnz", "scores_size",
                             "vector_count", "count"}
        PROVE  Scalar(what, 8) \in Later /\ Scalar(what, 8).what = what /\ PaddedScalar(what, 8) \in Later
    <2>1. what \in ScalarPlaces /\ what \notin HeaderPlaces \union {"n_term"}
      BY DEF ScalarPlaces, HeaderPlaces
    <2> QED
      BY <2>1, Sizes, ScalarIs DEF Later
  <1>2. ASSUME NEW what \in {"docs", "offsets", "csc_cluster", "csc_value", "doc_ids", "codes",
                             "max_term_scores", "section", "locators"},
               NEW count \in Nat, NEW width \in Nat, NEW align \in Nat \ {0}
        PROVE  Array(what, count, width, align) \in Later
    <2>1. what \in ArrayPlaces /\ what \notin HeaderPlaces \union {"n_term"} /\ what # "indptr"
      BY DEF ArrayPlaces, HeaderPlaces
    <2> QED
      BY <2>1, ArrayIs DEF Later
  <1>3. ASSUME NEW what \in Marks \ {"payload"} PROVE Mark(what) \in Later /\ Mark(what).what = what
    <2>1. what \notin HeaderPlaces \union {"n_term"}
      BY DEF Marks, HeaderPlaces
    <2> QED
      BY <2>1, MarkIs DEF Later
  <1> QED
    BY <1>1, <1>2, <1>3

(* What follows a scalar that was not there.                                *)
LEMMA ThenOfDefault ==
  ASSUME NEW what \in ScalarPlaces \ HeaderPlaces, NEW g, IsGot(g), NEW v, v = Default(what)
  PROVE  /\ Then(what, v, g) \in Seq(Later)
         /\ what = "posting_width" =>
              \E d \in Seq(Later) : Then(what, v, g) = Cons(Mark("check_element_size"), d)
         /\ what = "scores_size" => Ahead(Then(what, v, g), "check_scores")
  <1>1. g["n_term"] \in Nat /\ g["summary_width"] \in Nat \ {0}
    BY DEF IsGot
  <1>2. what \in Branches => v = 0
    BY DEF Branches, Default
  <1>3. 0 \in Nat /\ 0 * 4 = 0 /\ 0 * g["summary_width"] = 0
    BY <1>1
  <1>4. PICK e : e = <<>>
    OBVIOUS
  <1>5. e \in Seq(Later) /\ e \in Seq(Expected)
    BY <1>4
  <1>6. CASE what \notin Branches
    BY <1>4, <1>5, <1>6, ThenNothing DEF Branches
  <1>7. CASE what = "vector_count"
    <2>1. VectorsNext(what, v, g) = e
      BY <1>2, <1>4, <1>7 DEF VectorsNext, Branches
    <2>2. Then(what, v, g) = e
      BY <1>5, <1>7, <2>1, ThenVectors
    <2> QED
      BY <1>5, <1>7, <2>2
  <1>8. CASE what \in {"n_docs", "n_offsets", "n_terms", "nnz"}
    <2>0. v = 0
      BY <1>2, <1>8 DEF Branches
    <2>1. ASSUME what = "n_docs" PROVE ClustersNext(what, v, g) \in Seq(Later)
      <3> DEFINE a == Array("docs", v, 4, 4)
                 b == Scalar("n_offsets", 8)
      <3>1. a \in Later /\ b \in Later
        BY <2>0, Sizes, LaterAre
      <3>2. ClustersNext(what, v, g) = Two(a, b)
        BY <2>1 DEF ClustersNext, Two
      <3> HIDE DEF a, b
      <3>3. Two(a, b) \in Seq(Later)
        BY <3>1 DEF Two
      <3> QED
        BY <3>2, <3>3
    <2>2. ASSUME what = "n_offsets" PROVE ClustersNext(what, v, g) \in Seq(Later)
      <3> DEFINE a == Array("offsets", v, 4, 4)
                 b == Scalar("n_clusters", 8)
                 c == Scalar("summary_width", 8)
                 d == Scalar("n_terms", 8)
      <3>1. a \in Later /\ b \in Later /\ c \in Later /\ d \in Later
        BY <2>0, Sizes, LaterAre
      <3>2. ClustersNext(what, v, g) = Four(a, b, c, d)
        BY <2>2 DEF ClustersNext, Four
      <3> HIDE DEF a, b, c, d
      <3>3. Four(a, b, c, d) \in Seq(Later)
        BY <3>1 DEF Four
      <3> QED
        BY <3>2, <3>3
    <2>3. ASSUME what = "n_terms" PROVE ClustersNext(what, v, g) \in Seq(Later)
      <3> DEFINE b == Scalar("nnz", 8)
      <3>1. b \in Later
        BY LaterAre
      <3>2. ClustersNext(what, v, g) = Join(e, <<b>>)
        BY <1>4, <2>0, <2>3 DEF ClustersNext, Join
      <3> HIDE DEF b
      <3>3. <<b>> \in Seq(Later)
        BY <3>1
      <3>4. Join(e, <<b>>) \in Seq(Later)
        BY <1>5, <3>3, JoinIs
      <3> QED
        BY <3>2, <3>4
    <2>4. ASSUME what = "nnz" PROVE ClustersNext(what, v, g) \in Seq(Later)
      <3> DEFINE w == g["summary_width"]
                 a == Array("csc_cluster", v, 2, 2)
                 b == Array("csc_value", v * w, 1, w)
      <3>1. a \in Later
        BY <2>0, Sizes, LaterAre
      <3>2. b \in Later
        <4>1. v * w \in Nat /\ w \in Nat \ {0}
          BY <1>1, <1>3, <2>0
        <4> QED
          BY <4>1, Sizes, LaterAre
      <3>3. ClustersNext(what, v, g) = Two(a, b)
        BY <2>4 DEF ClustersNext, Two
      <3> HIDE DEF a, b
      <3>4. Two(a, b) \in Seq(Later)
        BY <3>1, <3>2 DEF Two
      <3> QED
        BY <3>3, <3>4
    <2>5. ClustersNext(what, v, g) \in Seq(Later)
      BY <1>8, <2>1, <2>2, <2>3, <2>4
    <2>6. Then(what, v, g) = ClustersNext(what, v, g)
      BY <1>8, <2>5, ThenClusters
    <2> QED
      BY <1>8, <2>5, <2>6
  <1>9. CASE what = "n_lists"
    <2> DEFINE x == Scalar("n_docs", 8)
    <2>1. x \in Expected
      BY ClusterItems
    <2>2. ListsNext(what, v) = Repeat(x, 0)
      BY <1>2, <1>9 DEF ListsNext, Branches
    <2> HIDE DEF x
    <2>3. Repeat(x, 0) = <<>>
      BY DEF Repeat
    <2>4. VectorsNext(what, v, g) = <<>> /\ ClustersNext(what, v, g) = <<>> /\ PostingsNext(what, v, g) = <<>>
          /\ DiskNext(what, v) = <<>> /\ IdMapNext(what, v) = <<>> /\ ListsNext(what, v) = <<>>
      BY <1>9, <2>2, <2>3 DEF VectorsNext, ClustersNext, PostingsNext, DiskNext, IdMapNext
    <2>5. Then(what, v, g) = e
      BY <1>4, <2>4 DEF Then
    <2> QED
      BY <1>5, <1>9, <2>5
  <1>10. CASE what \in {"posting_width", "list_size", "scores_size"}
    <2>0. v = 0
      BY <1>2, <1>10 DEF Branches
    <2>1. CASE what = "posting_width"
      <3> DEFINE n == g["n_term"]
                 m == Mark("check_element_size")
                 x == Scalar("list_size", 8)
                 r == Repeat(x, n)
                 y == Scalar("scores_size", 8)
                 p == <<m>>
                 q == <<y>>
                 d == Join(r, q)
      <3>1. m \in Later /\ y \in Later /\ x \in Later
        <4>1. "check_element_size" \in Marks \ {"payload"}
          BY DEF Marks
        <4>2. x \in Expected /\ x.what = "list_size"
          BY InvertedItemsAre DEF Scalar, Item
        <4> QED
          BY <4>1, <4>2, LaterAre DEF Later, HeaderPlaces
      <3>2. PostingsNext(what, v, g) = Join(Join(p, r), q)
        BY <2>1 DEF PostingsNext, Join
      <3>3. r \in Seq(Later)
        BY <1>1, <3>1 DEF Repeat
      <3> HIDE DEF m, r, y, x, n
      <3>4. p \in Seq(Later) /\ q \in Seq(Later) 
        BY <3>1
      <3>10. \A z \in Seq(Later) : Join(p, z) = Cons(m, z) /\ Cons(m, z) \in Seq(Later)
        BY <3>1, JoinedOne
      <3> HIDE DEF p, q
      <3>5. Join(Join(p, r), q) = Join(p, d)
        BY <3>3, <3>4, JoinShifts
      <3>6. d \in Seq(Later)
        BY <3>3, <3>4, JoinIs
      <3> HIDE DEF d
      <3>7. Join(p, d) = Cons(m, d) /\ Cons(m, d) \in Seq(Later)
        BY <3>6, <3>10
      <3>8. PostingsNext(what, v, g) = Cons(m, d) /\ PostingsNext(what, v, g) \in Seq(Later)
        BY <3>2, <3>5, <3>7
      <3>9. Then(what, v, g) = Cons(m, d)
        BY <1>10, <3>8, ThenPostings
      <3> QED
        BY <2>1, <3>6, <3>8, <3>9 DEF m
    <2>2. CASE what = "list_size"
      <3> DEFINE a == Array("doc_ids", v, 4, 4)
                 b == Array("codes", v * 4, 1, 4)
      <3>1. a \in Later
        BY <2>0, Sizes, LaterAre
      <3>2. b \in Later
        BY <1>3, <2>0, Sizes, LaterAre
      <3>3. PostingsNext(what, v, g) = Two(a, b)
        BY <2>2 DEF PostingsNext, Two
      <3> HIDE DEF a, b
      <3>4. Two(a, b) \in Seq(Later)
        BY <3>1, <3>2 DEF Two
      <3>5. Then(what, v, g) = PostingsNext(what, v, g)
        BY <1>10, <3>3, <3>4, ThenPostings
      <3> QED
        BY <2>2, <3>3, <3>4, <3>5
    <2>3. CASE what = "scores_size"
      <3> DEFINE a == Array("max_term_scores", v, 4, 4)
                 b == Mark("check_scores")
      <3>1. a \in Later
        BY <2>0, Sizes, LaterAre
      <3>2. b \in Later /\ b.what = "check_scores"
        BY InvertedItemsAre, LaterAre
      <3>3. PostingsNext(what, v, g) = Two(a, b)
        BY <2>3 DEF PostingsNext, Two
      <3> HIDE DEF a, b
      <3>4. Two(a, b) \in Seq(Later) /\ Ahead(Two(a, b), "check_scores")
        <4>1. Two(a, b) \in Seq(Later) /\ Two(a, b)[2] = b /\ 2 \in DOMAIN Two(a, b)
          BY <3>1, <3>2 DEF Two
        <4> QED
          BY <3>2, <4>1 DEF Ahead
      <3>5. Then(what, v, g) = PostingsNext(what, v, g)
        BY <1>10, <3>3, <3>4, ThenPostings
      <3> QED
        BY <2>3, <3>3, <3>4, <3>5
    <2> QED
      BY <1>10, <2>1, <2>2, <2>3
  <1>11. CASE what \in {"section_len", "count"}
    <2>0. v = 0
      BY <1>2, <1>11 DEF Branches
    <2>1. ASSUME what = "section_len" PROVE DiskNext(what, v) \in Seq(Later)
      <3> DEFINE a == Array("section", v, 1, 1)
                 b == PaddedScalar("count", 8)
      <3>1. a \in Later /\ b \in Later
        BY <2>0, Sizes, LaterAre
      <3>2. DiskNext(what, v) = Two(a, b)
        BY <2>1 DEF DiskNext, Two
      <3> HIDE DEF a, b
      <3>3. Two(a, b) \in Seq(Later)
        BY <3>1 DEF Two
      <3> QED
        BY <3>2, <3>3
    <2>2. ASSUME what = "count" PROVE DiskNext(what, v) \in Seq(Later)
      <3> DEFINE a == Mark("check_locators")
                 b == Array("locators", v, 12, 4)
                 c == Scalar("vector_count", 8)
                 d == Mark("check_widths")
                 p == Two(a, b)
                 q == <<c>>
                 r == <<d>>
      <3>1. a \in Later /\ d \in Later
        BY LaterAre DEF Marks
      <3>2. b \in Later /\ c \in Later
        BY <2>0, Sizes, LaterAre
      <3>3. DiskNext(what, v) = Join(Join(p, q), r)
        BY <2>2 DEF DiskNext, VectorItems, Two, Join
      <3> HIDE DEF a, b, c, d
      <3>4. p \in Seq(Later)
        BY <3>1, <3>2 DEF Two
      <3>5. q \in Seq(Later) /\ r \in Seq(Later)
        BY <3>1, <3>2
      <3> HIDE DEF p, q, r
      <3>6. Join(p, q) \in Seq(Later)
        BY <3>4, <3>5, JoinIs
      <3>7. Join(Join(p, q), r) \in Seq(Later)
        BY <3>5, <3>6, JoinIs
      <3> QED
        BY <3>3, <3>7
    <2>3. DiskNext(what, v) \in Seq(Later)
      BY <1>11, <2>1, <2>2
    <2>4. Then(what, v, g) = DiskNext(what, v)
      BY <1>11, <2>3, ThenDisk
    <2> QED
      BY <1>11, <2>3, <2>4
  <1>12. what = "map_size" => FALSE
    BY DEF HeaderPlaces
  <1>13. what = "indptr" => FALSE
    BY DEF ScalarPlaces
  <1> QED
    BY <1>6, <1>7, <1>8, <1>9, <1>10, <1>11, <1>12, <1>13 DEF Branches

(* An array decides nothing of what comes next, but for the offsets of a corpus. *)
LEMMA ThenOfArray ==
  ASSUME NEW what \in ArrayPlaces \ {"indptr"}, NEW v, NEW g, IsGot(g)
  PROVE  Then(what, v, g) = <<>> /\ Noted(g, what, v) = g
  <1>1. what \notin Branches /\ what \notin Kept
    BY DEF ArrayPlaces, Branches, Kept
  <1> QED
    BY <1>1, ThenNothing, NotedSame

LEMMA HeaderItemsAre ==
  /\ HeaderItems \in Seq(Expected) /\ EndsHeader(HeaderItems) /\ Ahead(HeaderItems, "id")
  /\ Len(HeaderItems) = 4 /\ HeaderItems[1] = Scalar("id", 4) /\ ~Inside(HeaderItems)
  <1> DEFINE a == Scalar("id", 4)
             b == Scalar("version", 4)
             c == Scalar("dim", 4)
             d == Mark("payload")
             t == Four(a, b, c, d)
  <1>1. a \in Expected /\ b \in Expected /\ c \in Expected
        /\ a.what = "id" /\ b.what = "version" /\ c.what = "dim"
    <2>1. "id" \in ScalarPlaces /\ "version" \in ScalarPlaces /\ "dim" \in ScalarPlaces
      BY DEF ScalarPlaces
    <2> QED
      BY <2>1, Sizes, ScalarIs
  <1>2. d \in Expected /\ d.what = "payload"
    BY MarkIs DEF Marks
  <1>3. HeaderItems = t
    BY DEF HeaderItems, Four
  <1> HIDE DEF a, b, c, d
  <1>4. t \in Seq(Expected)
    BY <1>1, <1>2 DEF Four
  <1>5. Len(t) = 4 /\ t # <<>> /\ DOMAIN t = 1 .. 4 /\ t[1] = a /\ t[2] = b /\ t[3] = c /\ t[4] = d
    BY DEF Four
  <1> HIDE DEF t
  <1>6. \A i \in 1 .. 4 : /\ t[i].what \in HeaderPlaces \ {"map_size"}
                          /\ t[i].what = "payload" <=> i = 4
    <2>1. \A i \in 1 .. 4 : i = 1 \/ i = 2 \/ i = 3 \/ i = 4
      OBVIOUS
    <2> QED
      BY <1>1, <1>2, <1>5, <2>1 DEF HeaderPlaces
  <1>7. EndsHeader(t) /\ Ahead(t, "id") /\ ~Inside(t)
    <2>1. EndsHeader(t)
      BY <1>5, <1>6 DEF EndsHeader
    <2>2. 1 \in DOMAIN t /\ t[1].what = "id"
      BY <1>1, <1>5
    <2> QED
      BY <2>1, <2>2 DEF Ahead, Inside, HeaderPlaces
  <1> QED
    BY <1>3, <1>4, <1>5, <1>7 DEF a

(* What follows the size of an id map that was not there. *)
LEMMA ThenOfMap ==
  ASSUME NEW g
  PROVE  /\ Then("map_size", 0, g) \in Seq(Expected)
         /\ EndsHeader(Then("map_size", 0, g)) /\ Ahead(Then("map_size", 0, g), "id")
  <1> DEFINE x == Array("id_map", 0, 4, 1)
             t == Cons(x, HeaderItems)
  <1>1. x \in Expected /\ x.what = "id_map"
    BY Sizes, ArrayIs DEF ArrayPlaces
  <1>2. IdMapNext("map_size", 0) = <<x>> \o HeaderItems
    BY DEF IdMapNext
  <1> HIDE DEF x
  <1>3. t \in Seq(Expected)
    BY <1>1, HeaderItemsAre, ConsIs
  <1>4. EndsHeader(t) /\ Ahead(t, "id")
    BY <1>1, HeaderItemsAre, EndsHeaderCons, AheadCons
  <1>5. IdMapNext("map_size", 0) = t
    BY <1>1, <1>2, HeaderItemsAre, JoinedOne DEF Join
  <1> HIDE DEF t
  <1>6. VectorsNext("map_size", 0, g) = <<>> /\ ClustersNext("map_size", 0, g) = <<>>
        /\ ListsNext("map_size", 0) = <<>> /\ PostingsNext("map_size", 0, g) = <<>>
        /\ DiskNext("map_size", 0) = <<>>
    BY DEF VectorsNext, ClustersNext, ListsNext, PostingsNext, DiskNext
  <1>7. Then("map_size", 0, g) = t
    BY <1>3, <1>5, <1>6 DEF Then
  <1> QED
    BY <1>3, <1>4, <1>7

(* What is left once the first is read. *)
LEMMA TailIs ==
  ASSUME NEW t \in Seq(Expected), t # <<>>
  PROVE  /\ Head(t) \in Expected /\ Tail(t) \in Seq(Expected)
         /\ Inside(t) => Inside(Tail(t)) /\ Head(t).what \notin HeaderPlaces
         /\ EndsHeader(t) => Head(t).what \in HeaderPlaces \ {"map_size"}
         /\ EndsHeader(t) /\ Head(t).what # "payload" => EndsHeader(Tail(t))
         /\ EndsHeader(t) /\ Head(t).what = "payload" => Tail(t) = <<>>
         /\ \A what : Ahead(t, what) <=> Head(t).what = what \/ Ahead(Tail(t), what)
         /\ (\E i \in DOMAIN t : t[i].bytes > 0) /\ Head(t).bytes = 0 =>
              \E i \in DOMAIN Tail(t) : Tail(t)[i].bytes > 0
  <1> DEFINE x == Head(t)
             u == Tail(t)
  <1>1. x \in Expected /\ u \in Seq(Expected) /\ t = Cons(x, u) /\ Len(u) = Len(t) - 1 /\ x = t[1]
        /\ \A i \in 1 .. Len(t) - 1 : u[i] = t[i + 1]
    BY HeadTail
  <1>3. Len(t) \in Nat \ {0} /\ DOMAIN t = 1 .. Len(t) /\ DOMAIN u = 1 .. Len(t) - 1
    BY <1>1
  <1> HIDE DEF x, u
  <1>2. ASSUME NEW what PROVE Ahead(t, what) <=> x.what = what \/ Ahead(u, what)
    <2>1. Ahead(Cons(x, u), what) <=> x.what = what \/ Ahead(u, what)
      BY <1>1, AheadCons
    <2> QED
      BY <1>1, <2>1
  <1>4. ASSUME Inside(t) PROVE Inside(u) /\ x.what \notin HeaderPlaces
    <2>1. \A i \in 1 .. Len(t) - 1 : i + 1 \in 1 .. Len(t)
      BY <1>3
    <2>2. 1 \in 1 .. Len(t)
      BY <1>3
    <2> QED
      BY <1>1, <1>3, <1>4, <2>1, <2>2 DEF Inside
  <1>5. ASSUME EndsHeader(t)
        PROVE  /\ x.what \in HeaderPlaces \ {"map_size"}
               /\ x.what # "payload" => EndsHeader(u)
               /\ x.what = "payload" => u = <<>>
    <2>1. \A i \in 1 .. Len(t) : /\ t[i].what \in HeaderPlaces \ {"map_size"}
                                 /\ t[i].what = "payload" <=> i = Len(t)
      BY <1>3, <1>5 DEF EndsHeader
    <2>2. 1 \in 1 .. Len(t)
      BY <1>3
    <2>3. x.what \in HeaderPlaces \ {"map_size"} /\ (x.what = "payload" <=> 1 = Len(t))
      BY <1>1, <2>1, <2>2
    <2>4. ASSUME x.what # "payload" PROVE EndsHeader(u)
      <3>0. Len(t) # 1
        BY <2>3, <2>4
      <3>4. Len(t) - 1 >= 1
        BY <1>3, <3>0
      <3>1. Len(t) - 1 >= 1 /\ Len(u) >= 1
        BY <1>1, <3>4
      <3>2. ASSUME NEW i \in 1 .. Len(t) - 1
            PROVE  u[i].what \in HeaderPlaces \ {"map_size"} /\ (u[i].what = "payload" <=> i = Len(t) - 1)
        <4>1. i + 1 \in 1 .. Len(t) /\ u[i] = t[i + 1] /\ (i + 1 = Len(t) <=> i = Len(t) - 1)
          BY <1>1, <1>3
        <4> QED
          BY <2>1, <4>1
      <3>3. u # <<>>
        BY <1>1, <3>1
      <3> QED
        BY <1>1, <1>3, <3>2, <3>3 DEF EndsHeader
    <2>5. ASSUME x.what = "payload" PROVE u = <<>>
      BY <1>1, <1>3, <2>3, <2>5
    <2> QED
      BY <2>3, <2>4, <2>5
  <1>6. ASSUME NEW i \in 1 .. Len(t), t[i].bytes > 0, x.bytes = 0
        PROVE  \E j \in DOMAIN u : u[j].bytes > 0
    <2>1. i # 1
      BY <1>1, <1>6
    <2>2. i - 1 \in 1 .. Len(t) - 1 /\ (i - 1) + 1 = i
      BY <1>3, <2>1
    <2>3. u[i - 1] = t[i]
      BY <1>1, <2>2
    <2> QED
      BY <1>3, <1>6, <2>2, <2>3
  <1> QED
    BY <1>1, <1>2, <1>3, <1>4, <1>5, <1>6 DEF x, u

(* A copying read of a seismic index looks at nothing it could miss: it may *)
(* load something else.                                                     *)
Legit(ix, m) == Supports(ix) /\ ~m /\ InnerOf(ix).id \in {"SEIS", "SESQ"}

(* A header that leads nowhere: it has still to name a type, or has named   *)
(* one whose payload will be found missing.                                 *)
HeaderWrong(t, g, m) ==
  \/ Ahead(t, "id") \/ Ahead(t, "version")
  \/ g["id"] \notin {"SEIS", "SESQ"} \/ g["version"] # Version \/ m

(* Postings whose numbers will be found not to fit. *)
PostingsWrong(t, g) ==
  \/ Ahead(t, "posting_width")
  \/ t # <<>> /\ Head(t).what = "check_element_size" /\ g["posting_width"] = 0
  \/ /\ g["n_term"] > 0 /\ ~Ahead(t, "n_term")
     /\ \/ Ahead(t, "scores_size")
        \/ g["scores_size"] = 0 /\ Ahead(t, "check_scores")

(* What is still expected will not all be read. *)
Fruitless(t, g, b, m) ==
  \/ EndsHeader(t) /\ HeaderWrong(t, g, m)
  \/ t = <<Scalar("map_size", 8)>>
  \/ b /\ Inside(t) /\ \E i \in DOMAIN t : t[i].bytes > 0
  \/ g["id"] = "INVT" /\ Inside(t) /\ PostingsWrong(t, g)

Lost(t, g, b, m, ix) ==
  t \in Seq(Expected) /\ IsGot(g) /\ (Legit(ix, m) \/ Fruitless(t, g, b, m))

(* What a reader takes for an item that is not there. *)
Unread(x) == IF x.array THEN NoValue ELSE Default(x.what)

LEMMA MapSizeIs ==
  ASSUME NEW t, t = <<Scalar("map_size", 8)>>
  PROVE  t # <<>> /\ Head(t).what = "map_size" /\ Tail(t) = <<>> /\ t[1] = Head(t) /\ ~Head(t).array
  BY DEF Scalar, Item

(* Where it ends it has not got there without a payload it may miss. *)
LEMMA LostEnd ==
  ASSUME NEW t, NEW g, NEW b, NEW m, NEW ix, Lost(t, g, b, m, ix), t = <<>>
  PROVE  Legit(ix, m)
  <1>1. ~EndsHeader(t) /\ t # <<Scalar("map_size", 8)>> /\ DOMAIN t = {}
    BY MapSizeIs DEF EndsHeader
  <1> QED
    BY <1>1 DEF Lost, Fruitless, PostingsWrong, Ahead

(* It takes an array for empty, or that is what it is. *)
LEMMA LostArray ==
  ASSUME NEW t, NEW g, NEW b, NEW m, NEW ix, Lost(t, g, b, m, ix), t # <<>>,
         Head(t).what \in ArrayPlaces \ {"indptr"}, Head(t).bytes > 0 => ~b
  PROVE  Lost(Tail(t), g, b, m, ix)
  <1> DEFINE x == Head(t)
             u == Tail(t)
  <1> SUFFICES Lost(u, g, b, m, ix)
    OBVIOUS
  <1>1. t \in Seq(Expected) /\ IsGot(g)
    BY DEF Lost
  <1>2. /\ x \in Expected /\ u \in Seq(Expected)
        /\ Inside(t) => Inside(u) /\ x.what \notin HeaderPlaces
        /\ EndsHeader(t) /\ x.what # "payload" => EndsHeader(u)
        /\ \A what : Ahead(t, what) <=> x.what = what \/ Ahead(u, what)
        /\ (\E i \in DOMAIN t : t[i].bytes > 0) /\ x.bytes = 0 => \E i \in DOMAIN u : u[i].bytes > 0
    BY <1>1, TailIs
  <1>3. x.what \in ArrayPlaces
    OBVIOUS
  <1>4. x.bytes \in Nat
    BY <1>2 DEF Expected
  <1>5. x.bytes > 0 => ~b
    OBVIOUS
  <1>6. x.what \notin {"id", "version", "posting_width", "n_term", "scores_size", "check_scores", "map_size",
                       "check_element_size", "payload"}
    BY <1>3 DEF ArrayPlaces
  <1>7. t = <<Scalar("map_size", 8)>> => x.what = "map_size"
    BY MapSizeIs
  <1> HIDE DEF x, u
  <1>8. CASE Legit(ix, m)
    BY <1>1, <1>2, <1>8 DEF Lost
  <1>9. CASE EndsHeader(t) /\ HeaderWrong(t, g, m)
    BY <1>1, <1>2, <1>6, <1>9 DEF Lost, Fruitless, HeaderWrong
  <1>10. CASE b /\ Inside(t) /\ \E i \in DOMAIN t : t[i].bytes > 0
    <2>1. x.bytes = 0
      BY <1>4, <1>5, <1>10
    <2> QED
      BY <1>1, <1>2, <1>10, <2>1 DEF Lost, Fruitless
  <1>11. CASE g["id"] = "INVT" /\ Inside(t) /\ PostingsWrong(t, g)
    <2>1. PostingsWrong(u, g)
      <3>1. ~(t # <<>> /\ Head(t).what = "check_element_size")
        BY <1>6 DEF x
      <3> QED
        BY <1>2, <1>6, <1>11, <3>1 DEF PostingsWrong
    <2> QED
      BY <1>1, <1>2, <1>11, <2>1 DEF Lost, Fruitless
  <1>12. CASE t = <<Scalar("map_size", 8)>>
    BY <1>6, <1>7, <1>12
  <1> QED
    BY <1>8, <1>9, <1>10, <1>11, <1>12 DEF Lost, Fruitless

(* A check that it passes. *)
LEMMA LostCheck ==
  ASSUME NEW t, NEW g, NEW b, NEW m, NEW ix, Lost(t, g, b, m, ix), t # <<>>,
         Head(t).what \in Marks \ {"payload"},
         Head(t).what = "check_element_size" /\ g["id"] = "INVT" => g["posting_width"] = 4,
         Head(t).what = "check_scores" => g["scores_size"] = g["n_term"]
  PROVE  Lost(Tail(t), g, b, m, ix)
  <1> DEFINE x == Head(t)
             u == Tail(t)
  <1> SUFFICES Lost(u, g, b, m, ix)
    OBVIOUS
  <1>1. t \in Seq(Expected) /\ IsGot(g)
    BY DEF Lost
  <1>2. /\ x \in Expected /\ u \in Seq(Expected)
        /\ Inside(t) => Inside(u) /\ x.what \notin HeaderPlaces
        /\ EndsHeader(t) => x.what \in HeaderPlaces \ {"map_size"}
        /\ \A what : Ahead(t, what) <=> x.what = what \/ Ahead(u, what)
        /\ (\E i \in DOMAIN t : t[i].bytes > 0) /\ x.bytes = 0 => \E i \in DOMAIN u : u[i].bytes > 0
    BY <1>1, TailIs
  <1>3. x.what \in Marks \ {"payload"} /\ x.what \notin HeaderPlaces
    BY DEF Marks, HeaderPlaces
  <1>4. x.bytes = 0
    BY <1>2, <1>3 DEF Expected
  <1>5. /\ x.what = "check_element_size" /\ g["id"] = "INVT" => g["posting_width"] = 4
        /\ x.what = "check_scores" => g["scores_size"] = g["n_term"]
    OBVIOUS
  <1>6. x.what \notin {"posting_width", "n_term", "scores_size", "map_size"}
    BY <1>3 DEF Marks
  <1>7. t = <<Scalar("map_size", 8)>> => x.what = "map_size"
    BY MapSizeIs
  <1> HIDE DEF u
  <1>8. CASE Legit(ix, m)
    BY <1>1, <1>2, <1>8 DEF Lost
  <1>9. CASE b /\ Inside(t) /\ \E i \in DOMAIN t : t[i].bytes > 0
    BY <1>1, <1>2, <1>4, <1>9 DEF Lost, Fruitless
  <1>10. CASE g["id"] = "INVT" /\ Inside(t) /\ PostingsWrong(t, g)
    <2>1. ~(Head(t).what = "check_element_size" /\ g["posting_width"] = 0)
      BY <1>5, <1>10
    <2>2. g["n_term"] > 0 /\ g["scores_size"] = 0 => x.what # "check_scores"
      BY <1>1, <1>5
    <2> HIDE DEF x
    <2>3. PostingsWrong(u, g)
      BY <1>2, <1>6, <1>10, <2>1, <2>2 DEF PostingsWrong
    <2> QED
      BY <1>1, <1>2, <1>10, <2>3 DEF Lost, Fruitless
  <1>11. t # <<Scalar("map_size", 8)>> /\ ~EndsHeader(t)
    BY <1>2, <1>3, <1>6, <1>7
  <1> QED
    BY <1>8, <1>9, <1>10, <1>11 DEF Lost, Fruitless

LEMMA DefaultIs ==
  ASSUME NEW what \in ScalarPlaces, NEW g, IsGot(g), NEW h, h = Noted(g, what, Default(what))
  PROVE  /\ IsGot(h) /\ \A w \in Kept : w # what => h[w] = g[w]
         /\ what \in Kept => h[what] = Default(what)
  <1>1. what = "n_term" => Default(what) \in Nat
    BY DEF Default
  <1>2. what = "summary_width" => Default(what) \in Nat \ {0}
    BY DEF Default
  <1> QED
    BY <1>1, <1>2, NotedIs

LEMMA JoinCons ==
  ASSUME NEW S, NEW x \in S, NEW s \in Seq(S), NEW t \in Seq(S)
  PROVE  Join(Cons(x, s), t) = Cons(x, Join(s, t))
  <1> DEFINE p == <<x>>
  <1>1. p \in Seq(S)
    OBVIOUS
  <1>2. (p \o s) \o t = p \o (s \o t)
    BY <1>1, JoinAssoc
  <1> QED
    BY <1>2 DEF Cons, Join

(* After a scalar that was not there: what has been read, what is expected. *)
Missed(what, g)   == Noted(g, what, Default(what))
After(what, g, u) == Join(Then(what, Default(what), Missed(what, g)), u)

LEMMA AfterDefault ==
  ASSUME NEW what \in ScalarPlaces \ HeaderPlaces, NEW u \in Seq(Expected), NEW g, IsGot(g)
  PROVE  /\ After(what, g, u) \in Seq(Expected) /\ IsGot(Missed(what, g)) /\ Missed(what, g)["id"] = g["id"]
         /\ Inside(u) => Inside(After(what, g, u))
         /\ what = "posting_width" \/ Ahead(u, "posting_width") =>
              PostingsWrong(After(what, g, u), Missed(what, g))
         /\ /\ g["n_term"] > 0 /\ what # "n_term" /\ ~Ahead(u, "n_term")
            /\ \/ Ahead(u, "scores_size") \/ what = "scores_size"
               \/ g["scores_size"] = 0 /\ Ahead(u, "check_scores")
            => PostingsWrong(After(what, g, u), Missed(what, g))
  <1> DEFINE h == Missed(what, g)
             j == After(what, g, u)
  <1>0. h = Noted(g, what, Default(what)) /\ j = Join(Then(what, Default(what), h), u)
    BY DEF Missed, After
  <1> HIDE DEF h, j
  <1>1. /\ IsGot(h) /\ \A w \in Kept : w # what => h[w] = g[w]
        /\ what \in Kept => h[what] = Default(what)
    BY <1>0, DefaultIs
  <1>2. what # "id" /\ "id" \in Kept /\ "n_term" \in Kept /\ "scores_size" \in Kept /\ "posting_width" \in Kept
    BY DEF HeaderPlaces, Kept
  <1> DEFINE d == Then(what, Default(what), h)
  <1>3. /\ d \in Seq(Later)
        /\ what = "posting_width" => \E e \in Seq(Later) : d = Cons(Mark("check_element_size"), e)
        /\ what = "scores_size" => Ahead(d, "check_scores")
    BY <1>1, ThenOfDefault
  <1>4. j = Join(d, u)
    BY <1>0
  <1> HIDE DEF d
  <1>5. /\ j \in Seq(Expected)
        /\ Inside(u) => Inside(j)
        /\ ~Ahead(u, "n_term") => ~Ahead(j, "n_term")
        /\ \A w : Ahead(u, w) \/ Ahead(d, w) => Ahead(j, w)
    BY <1>3, <1>4, LaterItems
  <1>6. ASSUME what = "posting_width" PROVE PostingsWrong(j, h)
    <2>1. h["posting_width"] = 0
      BY <1>1, <1>2, <1>6 DEF Default
    <2>2. PICK e \in Seq(Later) : d = Cons(Mark("check_element_size"), e)
      BY <1>3, <1>6
    <2>3. e \in Seq(Expected)
      BY <2>2 DEF Later
    <2>4. Mark("check_element_size") \in Expected /\ Mark("check_element_size").what = "check_element_size"
      BY MarkIs DEF Marks
    <2>5. Join(Cons(Mark("check_element_size"), e), u) = Cons(Mark("check_element_size"), Join(e, u))
          /\ Join(e, u) \in Seq(Expected)
      <3>2. Join(Cons(Mark("check_element_size"), e), u) = Cons(Mark("check_element_size"), Join(e, u))
        BY <2>3, <2>4, JoinCons
      <3>3. Join(e, u) \in Seq(Expected)
        BY <2>3, JoinIs
      <3> QED
        BY <3>2, <3>3
    <2>6. j = Cons(Mark("check_element_size"), Join(e, u))
      BY <1>4, <2>2, <2>5
    <2>7. j # <<>> /\ Head(j) = Mark("check_element_size")
      BY <2>4, <2>5, <2>6, ConsIs
    <2> QED
      BY <2>1, <2>4, <2>7 DEF PostingsWrong
  <1>7. ASSUME g["n_term"] > 0, what # "n_term", ~Ahead(u, "n_term"),
               \/ Ahead(u, "scores_size") \/ what = "scores_size"
               \/ g["scores_size"] = 0 /\ Ahead(u, "check_scores")
        PROVE  PostingsWrong(j, h)
    <2>1. h["n_term"] > 0 /\ ~Ahead(j, "n_term")
      BY <1>1, <1>2, <1>5, <1>7
    <2>2. CASE Ahead(u, "scores_size")
      BY <1>5, <2>1, <2>2 DEF PostingsWrong
    <2>3. CASE what = "scores_size"
      <3>1. h["scores_size"] = 0 /\ Ahead(j, "check_scores")
        BY <1>1, <1>2, <1>3, <1>5, <2>3 DEF Default
      <3> QED
        BY <2>1, <3>1 DEF PostingsWrong
    <2>4. CASE what # "scores_size" /\ g["scores_size"] = 0 /\ Ahead(u, "check_scores")
      <3>1. h["scores_size"] = 0 /\ Ahead(j, "check_scores")
        BY <1>1, <1>2, <1>5, <2>4
      <3> QED
        BY <2>1, <3>1 DEF PostingsWrong
    <2> QED
      BY <1>7, <2>2, <2>3, <2>4
  <1>8. Ahead(u, "posting_width") => PostingsWrong(j, h)
    BY <1>5 DEF PostingsWrong
  <1> QED
    BY <1>1, <1>2, <1>5, <1>6, <1>7, <1>8 DEF h, j

(* It takes a scalar for what a variable holds beforehand. *)
LEMMA LostScalar ==
  ASSUME NEW t, NEW g, NEW b, NEW m, NEW ix, Lost(t, g, b, m, ix), t # <<>>,
         NEW what, what = Head(t).what, what \in ScalarPlaces, Head(t).bytes > 0, ~b
  PROVE  Lost(After(what, g, Tail(t)), Missed(what, g), b, m, ix)
  <1> DEFINE x == Head(t)
             u == Tail(t)
             h == Missed(what, g)
             j == After(what, g, u)
  <1> SUFFICES Lost(j, h, b, m, ix)
    OBVIOUS
  <1>1. t \in Seq(Expected) /\ IsGot(g) /\ (Legit(ix, m) \/ Fruitless(t, g, b, m))
    BY DEF Lost
  <1>2. /\ x.what = what /\ x \in Expected /\ u \in Seq(Expected)
        /\ Inside(t) => Inside(u) /\ x.what \notin HeaderPlaces
        /\ EndsHeader(t) => x.what \in HeaderPlaces \ {"map_size"}
        /\ EndsHeader(t) /\ x.what # "payload" => EndsHeader(u)
        /\ \A w : Ahead(t, w) <=> x.what = w \/ Ahead(u, w)
    BY <1>1, TailIs
  <1>3. /\ IsGot(h) /\ \A w \in Kept : w # what => h[w] = g[w]
        /\ what \in Kept => h[what] = Default(what)
    BY <1>1, DefaultIs DEF Missed
  <1>4. what \notin {"payload", "id_map", "check_element_size", "check_scores"}
    BY DEF ScalarPlaces
  <1>5. t = <<Scalar("map_size", 8)>> => what = "map_size" /\ u = <<>>
    BY MapSizeIs
  <1>6. "id" \in Kept /\ "version" \in Kept
    BY DEF Kept
  <1>10. j = Join(Then(what, Default(what), h), u)
    BY DEF After
  <1> HIDE DEF x, u, h, j
  <1>7. CASE what \in {"id", "version", "dim"}
    <2>1. Then(what, Default(what), h) = <<>>
      BY <1>7, ThenNothing DEF Branches
    <2>2. j = u
      BY <1>2, <1>10, <2>1, JoinIs
    <2>3. CASE Legit(ix, m)
      BY <1>2, <1>3, <2>2, <2>3 DEF Lost
    <2>4. CASE Fruitless(t, g, b, m)
      <3>1. EndsHeader(t) /\ HeaderWrong(t, g, m)
        BY <1>2, <1>5, <1>7, <2>4 DEF Fruitless, HeaderPlaces
      <3>2. EndsHeader(u)
        BY <1>2, <1>4, <3>1
      <3>3. HeaderWrong(u, h, m)
        <4>1. CASE what = "id"
          <5>1. h["id"] = "none"
            BY <1>3, <1>6, <4>1 DEF Default
          <5> QED
            BY <5>1 DEF HeaderWrong
        <4>2. CASE what = "version"
          <5>1. h["version"] = 0
            BY <1>3, <1>6, <4>2 DEF Default
          <5> QED
            BY <5>1 DEF HeaderWrong, Version
        <4>3. CASE what = "dim"
          <5>1. h["id"] = g["id"] /\ h["version"] = g["version"]
            BY <1>3, <1>6, <4>3
          <5> QED
            BY <1>2, <3>1, <4>3, <5>1 DEF HeaderWrong
        <4> QED
          BY <1>7, <4>1, <4>2, <4>3
      <3> QED
        BY <1>2, <1>3, <2>2, <3>2, <3>3 DEF Lost, Fruitless
    <2> QED
      BY <1>1, <2>3, <2>4
  <1>8. CASE what = "map_size"
    <2> DEFINE d == Then(what, Default(what), h)
    <2>1. Default(what) = 0
      BY <1>8 DEF Default
    <2>2. d \in Seq(Expected) /\ EndsHeader(d) /\ Ahead(d, "id")
      BY <1>8, <2>1, ThenOfMap
    <2>3. j = Join(d, u)
      BY <1>10
    <2> HIDE DEF d
    <2>4. j \in Seq(Expected)
      BY <1>2, <2>2, <2>3, JoinIs
    <2>5. CASE Legit(ix, m)
      BY <1>3, <2>4, <2>5 DEF Lost
    <2>6. CASE Fruitless(t, g, b, m)
      <3>1. t = <<Scalar("map_size", 8)>>
        BY <1>2, <1>8, <2>6 DEF Fruitless, HeaderPlaces
      <3>2. j = d
        BY <1>2, <1>5, <2>2, <2>3, <3>1, JoinIs
      <3> QED
        BY <1>3, <2>2, <2>4, <3>2 DEF Lost, Fruitless, HeaderWrong
    <2> QED
      BY <1>1, <2>5, <2>6
  <1>9. CASE what \notin HeaderPlaces
    <2>1. /\ j \in Seq(Expected) /\ IsGot(h) /\ h["id"] = g["id"]
          /\ Inside(u) => Inside(j)
          /\ what = "posting_width" \/ Ahead(u, "posting_width") => PostingsWrong(j, h)
          /\ /\ g["n_term"] > 0 /\ what # "n_term" /\ ~Ahead(u, "n_term")
             /\ \/ Ahead(u, "scores_size") \/ what = "scores_size"
                \/ g["scores_size"] = 0 /\ Ahead(u, "check_scores")
             => PostingsWrong(j, h)
      <3>1. what \in ScalarPlaces \ HeaderPlaces
        BY <1>9
      <3> QED
        BY <1>1, <1>2, <3>1, AfterDefault DEF h, j
    <2>2. CASE Legit(ix, m)
      BY <2>1, <2>2 DEF Lost
    <2>3. CASE Fruitless(t, g, b, m)
      <3>1. g["id"] = "INVT" /\ Inside(t) /\ PostingsWrong(t, g)
        BY <1>2, <1>5, <1>9, <2>3 DEF Fruitless, HeaderPlaces
      <3>2. Head(t).what # "check_element_size"
        BY <1>4
      <3>3. PostingsWrong(j, h)
        BY <1>2, <1>4, <2>1, <3>1, <3>2 DEF PostingsWrong
      <3> QED
        BY <1>2, <2>1, <3>1, <3>3 DEF Lost, Fruitless
    <2> QED
      BY <1>1, <2>2, <2>3
  <1> QED
    BY <1>7, <1>8, <1>9 DEF HeaderPlaces, ScalarPlaces

(* What a payload is made of, and that it starts with a number. *)
InsideItems == {x \in Expected : x.what \notin HeaderPlaces}
Starts(t) == t \in Seq(InsideItems) /\ Len(t) >= 1 /\ t[1].bytes > 0

LEMMA StartsJoin ==
  ASSUME NEW a, Starts(a), NEW b \in Seq(InsideItems)
  PROVE  Starts(Join(a, b))
  <1>1. (a \o b) \in Seq(InsideItems) /\ Len(a \o b) >= 1 /\ (a \o b)[1] = a[1]
    BY DEF Starts
  <1> QED
    BY <1>1 DEF Starts, Join

LEMMA StartsIs ==
  ASSUME NEW t, Starts(t)
  PROVE  t \in Seq(Expected) /\ Inside(t) /\ \E i \in DOMAIN t : t[i].bytes > 0
  <1>1. t \in Seq(InsideItems) /\ t \in Seq(Expected) /\ 1 \in DOMAIN t /\ t[1].bytes > 0
    BY DEF Starts, InsideItems
  <1>2. \A i \in DOMAIN t : t[i].what \notin HeaderPlaces
    BY <1>1 DEF InsideItems
  <1> QED
    BY <1>1, <1>2 DEF Inside

LEMMA PayloadItems ==
  /\ \A what \in {"num_vectors", "n_term", "posting_width", "vector_count", "n_lists"} :
       Scalar(what, 8) \in InsideItems /\ Scalar(what, 8).bytes = 8 /\ Scalar(what, 8).what = what
  /\ PaddedScalar("section_len", 8) \in InsideItems
  /\ Scalar("sq_type", 1) \in InsideItems /\ Scalar("sq_type", 1).bytes = 1
  /\ Scalar("vmin", 4) \in InsideItems /\ Scalar("vmax", 4) \in InsideItems
  /\ Mark("check_quantizer") \in InsideItems /\ Mark("check_element_size") \in InsideItems
  <1>1. ASSUME NEW what \in {"num_vectors", "n_term", "posting_width", "vector_count", "n_lists", "sq_type",
                             "vmin", "vmax", "section_len"},
               NEW bytes \in Nat \ {0}
        PROVE  /\ Scalar(what, bytes) \in InsideItems /\ PaddedScalar(what, bytes) \in InsideItems
               /\ Scalar(what, bytes).bytes = bytes /\ Scalar(what, bytes).what = what
    <2>1. what \in ScalarPlaces /\ what \notin HeaderPlaces
      BY DEF ScalarPlaces, HeaderPlaces
    <2>2. Scalar(what, bytes).bytes = bytes
      BY DEF Scalar, Item
    <2> QED
      BY <2>1, <2>2, ScalarIs DEF InsideItems
  <1>2. ASSUME NEW what \in {"check_quantizer", "check_element_size"} PROVE Mark(what) \in InsideItems
    <2>1. what \in Marks /\ what \notin HeaderPlaces
      BY DEF Marks, HeaderPlaces
    <2> QED
      BY <2>1, MarkIs DEF InsideItems
  <1> QED
    BY <1>1, <1>2, Sizes

LEMMA PayloadIs ==
  ASSUME NEW id \in Writable
  PROVE  /\ id # "IDMP" => Starts(Payload(id))
         /\ id = "IDMP" => Payload(id) = <<Scalar("map_size", 8)>>
         /\ id = "INVT" => Ahead(Payload(id), "posting_width")
         /\ Payload(id) \in Seq(Expected)
  <1>1. Starts(InvertedItems) /\ Ahead(InvertedItems, "posting_width")
    <2> DEFINE a == Scalar("num_vectors", 8)
               b == Scalar("n_term", 8)
               c == Scalar("posting_width", 8)
               t == Three(a, b, c)
    <2>1. a \in InsideItems /\ b \in InsideItems /\ c \in InsideItems /\ a.bytes = 8 /\ c.what = "posting_width"
      BY PayloadItems
    <2>2. InvertedItems = t
      BY DEF InvertedItems, Three
    <2> HIDE DEF a, b, c
    <2>3. t \in Seq(InsideItems) /\ Len(t) = 3 /\ t[1] = a /\ t[3] = c /\ 3 \in DOMAIN t
      BY <2>1 DEF Three
    <2> HIDE DEF t
    <2>4. Len(t) >= 1 /\ t[1].bytes > 0
      BY <2>1, <2>3
    <2> QED
      BY <2>1, <2>2, <2>3, <2>4 DEF Starts, Ahead
  <1>2. Starts(SeismicItems)
    <2> DEFINE a == Scalar("vector_count", 8)
               b == Mark("check_element_size")
               c == Scalar("n_lists", 8)
               p == <<a>>
               q == Two(b, c)
    <2>1. a \in InsideItems /\ b \in InsideItems /\ c \in InsideItems /\ a.bytes = 8
      BY PayloadItems
    <2>2. SeismicItems = Join(p, q)
      BY DEF SeismicItems, VectorItems, Two, Join
    <2> HIDE DEF a, b, c
    <2>3. p \in Seq(InsideItems) /\ q \in Seq(InsideItems) /\ Len(p) >= 1 /\ p[1] = a
      BY <2>1 DEF Two
    <2> HIDE DEF p, q
    <2>4. Starts(p)
      BY <2>1, <2>3 DEF Starts
    <2> QED
      BY <2>2, <2>3, <2>4, StartsJoin
  <1>3. Starts(QuantizerItems)
    <2> DEFINE a == Scalar("sq_type", 1)
               b == Scalar("vmin", 4)
               c == Scalar("vmax", 4)
               d == Mark("check_quantizer")
               t == Four(a, b, c, d)
    <2>1. a \in InsideItems /\ b \in InsideItems /\ c \in InsideItems /\ d \in InsideItems /\ a.bytes = 1
      BY PayloadItems
    <2>2. QuantizerItems = t
      BY DEF QuantizerItems, Four
    <2> HIDE DEF a, b, c, d
    <2>3. t \in Seq(InsideItems) /\ Len(t) >= 1 /\ t[1] = a
      BY <2>1 DEF Four
    <2> HIDE DEF t
    <2> QED
      BY <2>1, <2>2, <2>3 DEF Starts
  <1>4. Starts(DiskItems)
    <2> DEFINE a == Scalar("num_vectors", 8)
               b == Scalar("n_lists", 8)
               c == PaddedScalar("section_len", 8)
               t == Three(a, b, c)
    <2>1. a \in InsideItems /\ b \in InsideItems /\ c \in InsideItems /\ a.bytes = 8
      BY PayloadItems
    <2>2. DiskItems = t
      BY DEF DiskItems, Three
    <2> HIDE DEF a, b, c
    <2>3. t \in Seq(InsideItems) /\ Len(t) >= 1 /\ t[1] = a
      BY <2>1 DEF Three
    <2> HIDE DEF t
    <2> QED
      BY <2>1, <2>2, <2>3 DEF Starts
  <1>5. Starts(Join(QuantizerItems, SeismicItems)) /\ Starts(Join(QuantizerItems, DiskItems))
    BY <1>2, <1>3, <1>4, StartsJoin DEF Starts
  <1>6. /\ id = "INVT" => Payload(id) = InvertedItems
        /\ id = "SEIS" => Payload(id) = SeismicItems
        /\ id = "SESQ" => Payload(id) = Join(QuantizerItems, SeismicItems)
        /\ id = "DSEI" => Payload(id) = DiskItems
        /\ id = "DSSQ" => Payload(id) = Join(QuantizerItems, DiskItems)
        /\ id = "IDMP" => Payload(id) = <<Scalar("map_size", 8)>>
    BY DEF Payload, Join
  <1>7. id \in {"INVT", "SEIS", "SESQ", "DSEI", "DSSQ", "IDMP"}
    BY DEF Writable
  <1>8. id # "IDMP" => Starts(Payload(id))
    BY <1>1, <1>2, <1>4, <1>5, <1>6, <1>7
  <1>9. <<Scalar("map_size", 8)>> \in Seq(Expected)
    <2>1. Scalar("map_size", 8) \in Expected
      BY Sizes, ScalarIs DEF ScalarPlaces
    <2> QED
      BY <2>1, JoinedOne
  <1>10. id # "IDMP" => Payload(id) \in Seq(Expected)
    BY <1>8, StartsIs
  <1>11. id = "IDMP" => Payload(id) \in Seq(Expected)
    BY <1>6, <1>9
  <1>12. id = "INVT" => Ahead(Payload(id), "posting_width")
    BY <1>1, <1>6
  <1>13. id = "IDMP" => Payload(id) = <<Scalar("map_size", 8)>>
    BY <1>6
  <1> QED
    BY <1>8, <1>10, <1>11, <1>12, <1>13

(* It takes the header for that of a payload. *)
LEMMA LostChoice ==
  ASSUME NEW t, NEW g, NEW b, NEW m, NEW ix, Lost(t, g, b, m, ix), t # <<>>,
         Head(t).what = "payload", g["id"] \in Writable, g["version"] = Version,
         NEW c, g["id"] \in MappedOnly => c, c <=> m /\ g["id"] \in Mappable
  PROVE  Lost(Join(Payload(g["id"]), Tail(t)), g, c, m, ix)
  <1> DEFINE u == Tail(t)
             p == Payload(g["id"])
             j == Join(p, u)
  <1> SUFFICES Lost(j, g, c, m, ix)
    OBVIOUS
  <1>1. t \in Seq(Expected) /\ IsGot(g) /\ (Legit(ix, m) \/ Fruitless(t, g, b, m))
    BY DEF Lost
  <1>2. /\ u \in Seq(Expected)
        /\ Inside(t) => Head(t).what \notin HeaderPlaces
        /\ EndsHeader(t) /\ Head(t).what = "payload" => u = <<>>
        /\ \A w : Ahead(t, w) <=> Head(t).what = w \/ Ahead(u, w)
    BY <1>1, TailIs
  <1>3. /\ g["id"] # "IDMP" => Starts(p)
        /\ g["id"] = "IDMP" => p = <<Scalar("map_size", 8)>>
        /\ g["id"] = "INVT" => Ahead(p, "posting_width")
        /\ p \in Seq(Expected)
    BY PayloadIs
  <1>4. t = <<Scalar("map_size", 8)>> => Head(t).what = "map_size"
    BY MapSizeIs
  <1>5. j = Join(p, u)
    OBVIOUS
  <1> HIDE DEF p, u, j
  <1>6. j \in Seq(Expected)
    BY <1>2, <1>3, <1>5, JoinIs
  <1>7. CASE Legit(ix, m)
    BY <1>1, <1>6, <1>7 DEF Lost
  <1>8. CASE Fruitless(t, g, b, m)
    <2>1. EndsHeader(t) /\ HeaderWrong(t, g, m)
      BY <1>2, <1>4, <1>8 DEF Fruitless, HeaderPlaces
    <2>2. u = <<>> /\ j = p
      BY <1>2, <1>3, <1>5, <2>1, JoinIs
    <2>3. ~Ahead(u, "id") /\ ~Ahead(u, "version")
      BY <2>2 DEF Ahead
    <2>4. g["id"] \notin {"SEIS", "SESQ"} \/ m
      BY <1>2, <2>1, <2>3 DEF HeaderWrong
    <2>5. Fruitless(j, g, c, m)
      <3>1. CASE g["id"] = "IDMP"
        BY <1>3, <2>2, <3>1 DEF Fruitless
      <3>2. CASE g["id"] # "IDMP" /\ m
        <4>1. c
          BY <3>2 DEF Writable, Mappable
        <4>2. Inside(j) /\ \E i \in DOMAIN j : j[i].bytes > 0
          BY <1>3, <2>2, <3>2, StartsIs
        <4> QED
          BY <4>1, <4>2 DEF Fruitless
      <3>3. CASE g["id"] # "IDMP" /\ ~m
        <4>1. g["id"] = "INVT"
          BY <2>4, <3>3 DEF Writable, MappedOnly
        <4>2. Inside(j)
          BY <1>3, <2>2, <3>3, StartsIs
        <4>3. PostingsWrong(j, g)
          BY <1>3, <2>2, <4>1 DEF PostingsWrong
        <4> QED
          BY <4>1, <4>2, <4>3 DEF Fruitless
      <3> QED
        BY <3>1, <3>2, <3>3
    <2> QED
      BY <1>1, <1>6, <2>5 DEF Lost
  <1> QED
    BY <1>1, <1>7, <1>8

(* What holds within a payload that is being read. *)
Sited(g, b, m, ix) ==
  /\ Supports(ix) /\ g["id"] = InnerOf(ix).id
  /\ b <=> m /\ g["id"] \in Mappable
  /\ g["id"] \in MappedOnly => m

(* A header of this index, but for the version, is that of a payload it may miss. *)
LEMMA HeaderOf ==
  ASSUME NEW g, NEW ix, HeaderRead(g, ix), NEW m
  PROVE  g["id"] \notin {"SEIS", "SESQ"} \/ g["version"] # Version \/ m \/ Legit(ix, m)
  <1> SUFFICES ASSUME g["id"] \in {"SEIS", "SESQ"}, g["version"] = Version, ~m PROVE Legit(ix, m)
    OBVIOUS
  <1>1. CASE g["id"] = ix.id /\ g["version"] = ix.version
    <2>1. ix.id # "IDMP" /\ ix.id \in {"SEIS", "SESQ"}
      BY <1>1
    <2> QED
      BY <1>1, <2>1 DEF Legit, Supports, InnerOf
  <1>2. CASE /\ ix.id = "IDMP" /\ ix.version = Version
             /\ g["id"] = ix.delegate.id /\ g["version"] = ix.delegate.version
    BY <1>2 DEF Legit, Supports, InnerOf
  <1> QED
    BY <1>1, <1>2 DEF HeaderRead

(* A reader that was following, and has not got what was written, is lost.  *)
LEMMA StrayScalar ==
  ASSUME NEW t \in Seq(Expected), t # <<>>, NEW g, IsGot(g), NEW ix, InnerOf(ix).id \in Mappable,
         NEW b, NEW m \in BOOLEAN, ~b, Inside(t) => Sited(g, b, m, ix),
         NEW what, what = Head(t).what, what \in ScalarPlaces,
         NEW v, Consequence(Head(t), Tail(t), v, g, ix), v # Default(what)
  PROVE  Lost(After(what, g, Tail(t)), Missed(what, g), b, m, ix)
  <1> DEFINE x == Head(t)
             u == Tail(t)
             h == Missed(what, g)
             j == After(what, g, u)
  <1> SUFFICES Lost(j, h, b, m, ix)
    OBVIOUS
  <1>1. /\ x.what = what /\ x \in Expected /\ u \in Seq(Expected) /\ t = Cons(x, u)
        /\ \A w : Ahead(t, w) <=> x.what = w \/ Ahead(u, w)
    BY TailIs, HeadTail
  <1>2. /\ IsGot(h) /\ \A w \in Kept : w # what => h[w] = g[w]
        /\ what \in Kept => h[what] = Default(what)
    BY DefaultIs DEF Missed
  <1>3. j = Join(Then(what, Default(what), h), u)
    BY DEF After
  <1>4. /\ what \notin HeaderPlaces => Inside(u)
        /\ what \in {"id", "version", "dim", "id_map"} => EndsHeader(u)
        /\ what = "dim" => HeaderRead(g, ix)
        /\ what = "map_size" => u = <<>>
        /\ g["id"] = "INVT" /\ what \notin HeaderPlaces => PostingsAhead(x, u, v, g)
    BY <1>1 DEF Consequence
  <1>5. "id" \in Kept /\ "version" \in Kept
    BY DEF Kept
  <1> HIDE DEF x, u, h, j
  <1>6. CASE what \in {"id", "version", "dim"}
    <2>1. Then(what, Default(what), h) = <<>>
      BY <1>6, ThenNothing DEF Branches
    <2>2. j = u
      BY <1>1, <1>3, <2>1, JoinIs
    <2>3. EndsHeader(u)
      BY <1>4, <1>6
    <2>4. CASE what = "id"
      <3>1. h["id"] = "none"
        BY <1>2, <1>5, <2>4 DEF Default
      <3> QED
        BY <1>1, <1>2, <2>2, <2>3, <3>1 DEF Lost, Fruitless, HeaderWrong
    <2>5. CASE what = "version"
      <3>1. h["version"] = 0
        BY <1>2, <1>5, <2>5 DEF Default
      <3> QED
        BY <1>1, <1>2, <2>2, <2>3, <3>1 DEF Lost, Fruitless, HeaderWrong, Version
    <2>6. CASE what = "dim"
      <3>1. h["id"] = g["id"] /\ h["version"] = g["version"]
        BY <1>2, <1>5, <2>6
      <3>2. g["id"] \notin {"SEIS", "SESQ"} \/ g["version"] # Version \/ m \/ Legit(ix, m)
        BY <1>4, <2>6, HeaderOf
      <3> QED
        BY <1>1, <1>2, <2>2, <2>3, <3>1, <3>2 DEF Lost, Fruitless, HeaderWrong
    <2> QED
      BY <1>6, <2>4, <2>5, <2>6
  <1>7. CASE what = "map_size"
    <2> DEFINE d == Then(what, Default(what), h)
    <2>1. Default(what) = 0
      BY <1>7 DEF Default
    <2>2. d \in Seq(Expected) /\ EndsHeader(d) /\ Ahead(d, "id")
      BY <1>7, <2>1, ThenOfMap
    <2>3. j = Join(d, u)
      BY <1>3
    <2> HIDE DEF d
    <2>4. j = d
      BY <1>1, <1>4, <1>7, <2>2, <2>3, JoinIs
    <2> QED
      BY <1>2, <2>2, <2>4 DEF Lost, Fruitless, HeaderWrong
  <1>8. CASE what \notin HeaderPlaces
    <2>1. /\ j \in Seq(Expected) /\ IsGot(h) /\ h["id"] = g["id"]
          /\ Inside(u) => Inside(j)
          /\ what = "posting_width" \/ Ahead(u, "posting_width") => PostingsWrong(j, h)
          /\ /\ g["n_term"] > 0 /\ what # "n_term" /\ ~Ahead(u, "n_term")
             /\ \/ Ahead(u, "scores_size") \/ what = "scores_size"
                \/ g["scores_size"] = 0 /\ Ahead(u, "check_scores")
             => PostingsWrong(j, h)
      <3>1. what \in ScalarPlaces \ HeaderPlaces
        BY <1>8
      <3> QED
        BY <1>1, <3>1, AfterDefault DEF h, j
    <2>2. Inside(u) /\ Inside(j)
      BY <1>4, <1>8, <2>1
    <2>3. Inside(t)
      BY <1>1, <1>8, <2>2, InsideJoin
    <2>4. Sited(g, b, m, ix)
      BY <2>3
    <2>5. ~m /\ g["id"] \notin MappedOnly /\ g["id"] \in Mappable /\ Supports(ix) /\ g["id"] = InnerOf(ix).id
      BY <2>4 DEF Sited
    <2>6. CASE g["id"] \in {"SEIS", "SESQ"}
      BY <2>1, <2>5, <2>6 DEF Lost, Legit
    <2>7. CASE g["id"] = "INVT"
      <3>1. PostingsAhead(x, u, v, g)
        BY <1>4, <1>8, <2>7
      <3>2. what \in {"num_vectors", "n_term", "posting_width", "list_size", "scores_size"}
        <4>1. what \notin ArrayPlaces
          BY DEF ScalarPlaces, ArrayPlaces
        <4> QED
          BY <1>1, <3>1, <4>1 DEF PostingsAhead
      <3>3. PostingsWrong(j, h)
        <4>1. CASE what \in {"num_vectors", "n_term", "posting_width"}
          BY <1>1, <2>1, <3>1, <4>1 DEF PostingsAhead
        <4>2. CASE what = "list_size"
          BY <1>1, <2>1, <3>1, <4>2 DEF PostingsAhead
        <4>3. CASE what = "scores_size"
          <5>1. Default(what) = 0
            BY <4>3 DEF Default
          <5>2. v = g["n_term"] /\ ~Ahead(u, "n_term")
            BY <1>1, <3>1, <4>3 DEF PostingsAhead
          <5>3. g["n_term"] \in Nat /\ g["n_term"] # 0
            BY <5>1, <5>2 DEF IsGot
          <5>4. g["n_term"] > 0
            BY <5>3
          <5> QED
            BY <2>1, <4>3, <5>2, <5>4
        <4> QED
          BY <3>2, <4>1, <4>2, <4>3
      <3> QED
        BY <2>1, <2>2, <2>7, <3>3 DEF Lost, Fruitless
    <2> QED
      BY <2>5, <2>6, <2>7 DEF Mappable, MappedOnly
  <1> QED
    BY <1>6, <1>7, <1>8 DEF HeaderPlaces, ScalarPlaces

LEMMA StrayMap ==
  ASSUME NEW t \in Seq(Expected), t # <<>>, NEW g, IsGot(g), NEW ix, NEW b, NEW m,
         Head(t).what = "id_map", NEW v, Consequence(Head(t), Tail(t), v, g, ix)
  PROVE  Lost(Tail(t), g, b, m, ix)
  <1>1. EndsHeader(Tail(t)) /\ Ahead(Tail(t), "id")
    BY DEF Consequence
  <1>2. Tail(t) \in Seq(Expected)
    BY TailIs
  <1> QED
    BY <1>1, <1>2 DEF Lost, Fruitless, HeaderWrong
-----------------------------------------------------------------------------
(* A reader that has read what was written so far.                          *)

LEMMA ItemsAre ==
  ASSUME NEW ix \in Indexes, ix.id \in Writable
  PROVE  /\ Items(ix) \in Seq(Cells) /\ Len(Items(ix)) >= 1
         /\ Follows(HeaderItems, Items(ix), NothingRead, ix)
         /\ Items(ix) \in Narrows(InnerOf(ix).width)
         /\ InnerOf(ix).id \in Mappable
  <1>1. IsMapped(ix) \/ IsFlat(ix)
    BY IndexesAssumption
  <1>2. Follows(HeaderItems, Items(ix), NothingRead, ix) /\ Items(ix) \in Narrows(InnerOf(ix).width)
    BY <1>1, ItemsFollow
  <1>3. HeaderItems # <<>> /\ Head(HeaderItems) = HeaderItems[1] /\ HeaderItems[1].what \notin Marks
    <2>1. Scalar("id", 4).what = "id"
      BY DEF Scalar, Item
    <2> QED
      BY <2>1, HeaderItemsAre DEF Marks
  <1>4. Items(ix) \in Seq(Cells) /\ Items(ix) # <<>>
    BY <1>2, <1>3, FollowsOn
  <1>5. InnerOf(ix).id \in Mappable
    BY <1>1 DEF IsMapped, IsFlat, InnerOf, Mappable
  <1>6. Len(Items(ix)) >= 1
    BY <1>4
  <1> QED
    BY <1>2, <1>4, <1>5, <1>6

(* What was read of the first k items. *)
First(I, k) == [i \in 1 .. k |-> <<I[i].what, I[i].value>>]

(* The first k have been read as written, and the rest is what comes next. *)
Trace(k, ix, t, g, l) ==
  /\ k \in 0 .. Len(Items(ix)) /\ l = First(Items(ix), k)
  /\ Follows(t, Rest(Items(ix), k), g, ix)

(* What the next item holds; what the reader expects once it has read it.   *)
Told(ix, k)   == Items(ix)[k + 1].value
Goes(t, g, v) == Join(Then(Head(t).what, v, Noted(g, Head(t).what, v)), Tail(t))

LEMMA FirstOn ==
  ASSUME NEW I \in Seq(Cells), NEW k \in 0 .. Len(I), k < Len(I)
  PROVE  Append(First(I, k), <<I[k + 1].what, I[k + 1].value>>) = First(I, k + 1)
  <1> DEFINE a == Append(First(I, k), <<I[k + 1].what, I[k + 1].value>>)
             b == First(I, k + 1)
             X == {<<I[i].what, I[i].value>> : i \in 1 .. k + 1}
  <1>1. First(I, k) \in Seq(X) /\ b \in Seq(X) /\ Len(First(I, k)) = k /\ Len(b) = k + 1
    BY DEF First
  <1>2. <<I[k + 1].what, I[k + 1].value>> \in X
    OBVIOUS
  <1> DEFINE y == <<I[k + 1].what, I[k + 1].value>>
  <1>3. \A i \in 1 .. k : First(I, k)[i] = <<I[i].what, I[i].value>>
    BY DEF First
  <1>4. \A i \in 1 .. k + 1 : b[i] = <<I[i].what, I[i].value>>
    BY DEF First
  <1> HIDE DEF b
  <1>11. k \in Nat /\ \A i \in 1 .. k : i \in 1 .. k + 1
    OBVIOUS
  <1>5. \A i \in 1 .. k : b[i] = First(I, k)[i]
    BY <1>3, <1>4, <1>11
  <1>6. b[k + 1] = y
    BY <1>4, <1>11
  <1> DEFINE f == First(I, k)
  <1>7. y \in X /\ f \in Seq(X) /\ Len(f) = k /\ \A i \in 1 .. k : b[i] = f[i]
    BY <1>1, <1>2, <1>5
  <1> HIDE DEF y, X, f
  <1>8. /\ Append(f, y) \in Seq(X) /\ Len(Append(f, y)) = k + 1 /\ Append(f, y)[k + 1] = y
        /\ \A i \in 1 .. k : Append(f, y)[i] = f[i]
    BY <1>7
  <1>9. \A i \in 1 .. k + 1 : Append(f, y)[i] = b[i]
    BY <1>6, <1>7, <1>8
  <1>10. Append(f, y) = b
    BY <1>1, <1>8, <1>9, SameItems
  <1> QED
    BY <1>10 DEF f, y, b

LEMMA TraceItem ==
  ASSUME NEW ix, Items(ix) \in Seq(Cells), NEW k, NEW t, NEW g, NEW l, Trace(k, ix, t, g, l),
         t # <<>>, Head(t).what \notin Marks
  PROVE  /\ k < Len(Items(ix)) /\ k + 1 \in 1 .. Len(Items(ix))
         /\ Items(ix)[k + 1] = Valued(Head(t), Told(ix, k)) /\ Told(ix, k) \in Values
         /\ Consequence(Head(t), Tail(t), Told(ix, k), g, ix)
         /\ Trace(k + 1, ix, Goes(t, g, Told(ix, k)), Noted(g, Head(t).what, Told(ix, k)),
                  Append(l, <<Head(t).what, Told(ix, k)>>))
  <1> DEFINE I == Items(ix)
             s == Rest(I, k)
             v == Told(ix, k)
             h == Noted(g, Head(t).what, v)
  <1>1. k \in 0 .. Len(I) /\ l = First(I, k) /\ Follows(t, s, g, ix) /\ I \in Seq(Cells)
    BY DEF Trace
  <1>2. s # <<>>
    BY <1>1, FollowsOn
  <1>3. k < Len(I) /\ Head(s) = I[k + 1] /\ Tail(s) = Rest(I, k + 1)
    <2>1. k # Len(I)
      BY <1>1, <1>2, RestIs
    <2>2. k < Len(I)
      BY <1>1, <2>1
    <2> QED
      BY <1>1, <2>2, RestIs
  <1>4. Head(s).value = v
    BY <1>3 DEF Told
  <1> HIDE DEF s, v
  <1>5. /\ Head(s) = Valued(Head(t), v)
        /\ Consequence(Head(t), Tail(t), v, g, ix)
        /\ Follows(Then(Head(t).what, v, h) \o Tail(t), Tail(s), h, ix)
    BY <1>1, <1>4, FollowsOn
  <1>6. Follows(Goes(t, g, v), Rest(I, k + 1), h, ix)
    BY <1>3, <1>5 DEF Goes, Join
  <1>7. k + 1 \in 1 .. Len(I) /\ k + 1 \in 0 .. Len(I)
    BY <1>1, <1>3
  <1>8. I[k + 1] = Valued(Head(t), v) /\ I[k + 1] \in Cells
    BY <1>1, <1>3, <1>5, <1>7
  <1>9. I[k + 1].what = Head(t).what /\ I[k + 1].value = v /\ v \in Values
    <2>1. Valued(Head(t), v).what = Head(t).what /\ Valued(Head(t), v).value = v
      BY DEF Valued
    <2>2. I[k + 1].value \in Values
      BY <1>8 DEF Cells
    <2> QED
      BY <1>8, <2>1, <2>2
  <1>10. Append(l, <<Head(t).what, v>>) = First(I, k + 1)
    BY <1>1, <1>3, <1>9, FirstOn
  <1>11. Trace(k + 1, ix, Goes(t, g, v), h, Append(l, <<Head(t).what, v>>))
    BY <1>6, <1>7, <1>10 DEF Trace
  <1> QED
    BY <1>3, <1>5, <1>7, <1>8, <1>9, <1>11 DEF v

LEMMA TraceMark ==
  ASSUME NEW ix, Items(ix) \in Seq(Cells), NEW k, NEW t, NEW g, NEW l, Trace(k, ix, t, g, l),
         t # <<>>, Head(t).what \in Marks \ {"payload"}
  PROVE  Fits(Head(t).what, Rest(Items(ix), k), g, ix) /\ Trace(k, ix, Tail(t), g, l)
  BY FollowsOn DEF Trace

LEMMA TracePayload ==
  ASSUME NEW ix, Items(ix) \in Seq(Cells), NEW k, NEW t, NEW g, NEW l, Trace(k, ix, t, g, l),
         t # <<>>, Head(t).what = "payload"
  PROVE  /\ HeaderRead(g, ix) /\ Tail(t) = <<>>
         /\ g["version"] = Version => Trace(k, ix, Payload(g["id"]), g, l)
  BY FollowsOn DEF Trace

LEMMA TraceIs ==
  ASSUME NEW ix, Items(ix) \in Seq(Cells), NEW k, NEW t, NEW g, NEW l, Trace(k, ix, t, g, l)
  PROVE  /\ t \in Seq(Expected) /\ IsGot(g)
         /\ Inside(t) => Supports(ix) /\ g["id"] = InnerOf(ix).id
         /\ t = <<>> => k = Len(Items(ix)) /\ Supports(ix)
  <1>1. /\ t \in Seq(Expected) /\ IsGot(g)
        /\ Inside(t) => Supports(ix) /\ g["id"] = InnerOf(ix).id
        /\ t = <<>> => Rest(Items(ix), k) = <<>>
    <2>1. Follows(t, Rest(Items(ix), k), g, ix)
      BY DEF Trace
    <2>2. t \in Seq(Expected) /\ IsGot(g)
      BY <2>1, FollowsOn
    <2>3. Inside(t) => Supports(ix) /\ g["id"] = InnerOf(ix).id
      BY <2>1, FollowsOn
    <2>4. ASSUME NEW s, Follows(t, s, g, ix) PROVE t = <<>> => s = <<>>
      <3>1. PICK P : Place(t, s, g) \in P /\ \A p \in P : Meets(p[1], p[2], p[3], ix, P)
        BY <2>4 DEF Follows
      <3>2. Meets(t, s, g, ix, P)
        BY <3>1, PlaceIs
      <3> QED
        BY <3>2 DEF Meets
    <2>5. t = <<>> => Rest(Items(ix), k) = <<>>
      BY <2>1, <2>4
    <2> QED
      BY <2>2, <2>3, <2>5
  <1>2. t = <<>> => Inside(t)
    BY DEF Inside
  <1>3. k \in 0 .. Len(Items(ix))
    BY DEF Trace
  <1>4. Rest(Items(ix), k) = <<>> => k = Len(Items(ix))
    BY <1>3, RestIs
  <1> QED
    BY <1>1, <1>2, <1>4

(* What follows the size of an id map starts with the map. *)
LEMMA MapOutside ==
  ASSUME NEW v, NEW g
  PROVE  ~Inside(Join(Then("map_size", v, g), <<>>))
  <1> DEFINE x == Array("id_map", v, 4, 1)
             X == Expected \union {x}
             t == Cons(x, HeaderItems)
  <1>1. x.what = "id_map" /\ x \in X
    BY DEF Array, Item
  <1>2. IdMapNext("map_size", v) = <<x>> \o HeaderItems
    BY DEF IdMapNext
  <1>3. HeaderItems \in Seq(X)
    BY HeaderItemsAre
  <1> HIDE DEF x, X
  <1>4. t \in Seq(X) /\ IdMapNext("map_size", v) = t
    BY <1>1, <1>2, <1>3, JoinedOne, ConsIs DEF Join
  <1>5. ~Inside(t)
    BY <1>1, <1>3, OutsideCons DEF HeaderPlaces
  <1> HIDE DEF t
  <1>6. VectorsNext("map_size", v, g) = <<>> /\ ClustersNext("map_size", v, g) = <<>>
        /\ ListsNext("map_size", v) = <<>> /\ PostingsNext("map_size", v, g) = <<>>
        /\ DiskNext("map_size", v) = <<>>
    BY DEF VectorsNext, ClustersNext, ListsNext, PostingsNext, DiskNext
  <1>7. Then("map_size", v, g) = t
    BY <1>4, <1>6 DEF Then
  <1>8. Join(t, <<>>) = t
    BY <1>4, JoinIs
  <1> QED
    BY <1>5, <1>7, <1>8

(* Within a payload the reader stays where it is. *)
LEMMA TraceInside ==
  ASSUME NEW ix, Items(ix) \in Seq(Cells), NEW k, NEW t, NEW g, NEW l, Trace(k, ix, t, g, l),
         t # <<>>, Head(t).what \notin Marks, NEW b, NEW m, Inside(t) => Sited(g, b, m, ix),
         Inside(Goes(t, g, Told(ix, k)))
  PROVE  Sited(Noted(g, Head(t).what, Told(ix, k)), b, m, ix)
  <1> DEFINE x == Head(t)
             u == Tail(t)
             v == Told(ix, k)
             h == Noted(g, x.what, v)
  <1>1. /\ Consequence(x, u, v, g, ix) /\ t \in Seq(Expected) /\ IsGot(g)
    BY TraceItem, TraceIs
  <1>2. /\ x \in Expected /\ u \in Seq(Expected) /\ t = Cons(x, u) /\ x.what \notin Marks
    BY <1>1, TailIs, HeadTail
  <1>3. Goes(t, g, v) = Join(Then(x.what, v, h), u)
    BY DEF Goes
  <1>4. Inside(Join(Then(x.what, v, h), u))
    BY <1>3
  <1> HIDE DEF x, u, v
  <1>5. CASE x.what \in {"id", "version", "dim", "id_map"}
    <2>1. Then(x.what, v, h) = <<>>
      BY <1>5, ThenNothing DEF Branches
    <2>2. Inside(u)
      BY <1>2, <1>4, <2>1, JoinIs
    <2>3. EndsHeader(u) /\ u # <<>>
      BY <1>1, <1>5 DEF Consequence, EndsHeader
    <2>4. Head(u).what \in HeaderPlaces /\ Head(u).what \notin HeaderPlaces
      BY <1>2, <2>2, <2>3, TailIs
    <2> QED
      BY <2>4
  <1>6. CASE x.what = "map_size"
    <2>1. u = <<>>
      BY <1>1, <1>6 DEF Consequence
    <2> QED
      BY <1>4, <1>6, <2>1, MapOutside
  <1>7. CASE x.what \notin HeaderPlaces
    <2>1. Inside(u)
      BY <1>1, <1>7 DEF Consequence
    <2>2. Inside(t)
      BY <1>2, <1>7, <2>1, InsideJoin
    <2>3. h["id"] = g["id"]
      BY <1>1, <1>7 DEF Noted, IsGot, HeaderPlaces, Kept
    <2> QED
      BY <2>2, <2>3 DEF Sited, x, v
  <1> QED
    BY <1>2, <1>5, <1>6, <1>7 DEF HeaderPlaces, Marks
-----------------------------------------------------------------------------
(* The invariant.                                                           *)

(* The writer is as far as the file; a file that is closed, or was left, is *)
(* all of the index or ends within its last item.                           *)
WriteInv ==
  /\ pc \in {"idle", "writing", "saved", "refused", "reading", "loaded", "rejected"}
  /\ index \in Indexes /\ pos \in Nat /\ present \in Nat
  /\ useMmap \in BOOLEAN /\ borrows \in BOOLEAN /\ eof \in BOOLEAN
  /\ index.id \in Writable => LaidOut(written, Items(index))
  /\ index.id \notin Writable => written = <<>> /\ present = 0 /\ pc # "writing"
  /\ pc = "idle" => written = <<>> /\ pos = 0 /\ present = 0
  /\ pc = "writing" => /\ toWrite = Rest(Items(index), Len(written))
                       /\ pos = EndOf(written, Len(written)) /\ present = pos
  /\ pc \notin {"idle", "writing"} /\ index.id \in Writable =>
       Complete(written, Items(index), present) \/ Broken(written, present)

Full == index.id \in Writable /\ Complete(written, Items(index), present)

(* What was read is what was written, in its place. *)
InStep(k) ==
  /\ Trace(k, index, todo, got, loaded)
  /\ Inside(todo) => Sited(got, borrows, useMmap, index)
  /\ eof => ~Complete(written, Items(index), present)
  /\ ~eof => k \in 0 .. Len(written) /\ pos = EndOf(written, k) /\ pos <= present

Synced == index.id \in Writable /\ \E k \in 0 .. Len(Items(index)) : InStep(k)

(* It is not, and the file was not all there. *)
Astray ==
  /\ Lost(todo, got, borrows, useMmap, index)
  /\ index.id \notin Writable \/ (eof /\ ~Complete(written, Items(index), present))

Same == index.id \in Writable /\ loaded = First(Items(index), Len(Items(index)))

ReadInv ==
  /\ todo \in Seq(Expected) /\ (borrows => useMmap)
  /\ pc \in {"idle", "writing", "saved", "refused"} =>
       todo = <<>> /\ got = NothingRead /\ loaded = <<>> /\ ~borrows /\ ~eof
  /\ pc = "reading" => Synced \/ Astray
  /\ pc = "loaded" => Supports(index) /\ (Same \/ Legit(index, useMmap)) /\ (Full => Same)
  /\ pc = "rejected" => (Full /\ Supports(index) => InnerOf(index).id \in MappedOnly /\ ~useMmap)

FileInv == WriteInv /\ ReadInv

LEMMA InitFile == FileInit => FileInv
  <1> SUFFICES ASSUME FileInit PROVE FileInv
    OBVIOUS
  <1> USE DEF FileInit
  <1> PICK z : z = <<>>
    OBVIOUS
  <1>1. z \in Seq(Pieces) /\ z \in Seq(Expected) /\ Len(z) = 0
    OBVIOUS
  <1>2. index.id \in Writable => LaidOut(z, Items(index))
    <2> SUFFICES ASSUME index.id \in Writable PROVE LaidOut(z, Items(index))
      OBVIOUS
    <2>1. Items(index) \in Seq(Cells) /\ Len(Items(index)) >= 1
      BY ItemsAre
    <2> QED
      BY <1>1, <2>1 DEF LaidOut
  <1>3. WriteInv
    BY <1>2 DEF WriteInv
  <1>4. ReadInv
    BY <1>1 DEF ReadInv, NothingRead
  <1> QED
    BY <1>3, <1>4 DEF FileInv

(* What the writer leaves alone of the reader. *)
LEMMA UnreadStays ==
  ASSUME FileInv, pc \in {"idle", "writing"}, pc' \in {"writing", "saved", "refused"},
         UNCHANGED <<useMmap, readVars>>
  PROVE  ReadInv'
  BY DEF FileInv, ReadInv, readVars

LEMMA OpenStep == FileInv /\ Open => FileInv'
  <1> SUFFICES ASSUME FileInv, Open PROVE FileInv'
    OBVIOUS
  <1>1. /\ pc = "idle" /\ written = <<>> /\ pos = 0 /\ present = 0 /\ index \in Indexes
        /\ useMmap \in BOOLEAN /\ borrows \in BOOLEAN /\ eof \in BOOLEAN
        /\ index.id \in Writable => LaidOut(written, Items(index))
    BY DEF FileInv, WriteInv, Open
  <1>2. /\ index' = index /\ written' = written /\ pos' = pos /\ present' = present /\ useMmap' = useMmap
        /\ borrows' = borrows /\ eof' = eof
    BY DEF Open, readVars
  <1>3. CASE index.id \in Writable
    <2>1. pc' = "writing" /\ toWrite' = Items(index)
      BY <1>3 DEF Open
    <2>2. Items(index) = Rest(Items(index), 0)
      <3>1. Items(index) \in Seq(Cells) /\ 0 \in 0 .. Len(Items(index))
        BY <1>1, <1>3, ItemsAre
      <3> QED
        BY <3>1, RestIs
    <2>3. Len(written) = 0 /\ EndOf(written, Len(written)) = 0
      BY <1>1 DEF EndOf
    <2>4. WriteInv'
      BY <1>1, <1>2, <1>3, <2>1, <2>2, <2>3 DEF WriteInv
    <2> QED
      BY <1>1, <2>1, <2>4, UnreadStays DEF FileInv, Open
  <1>4. CASE index.id \notin Writable
    <2>1. pc' = "refused"
      BY <1>4 DEF Open
    <2>2. WriteInv'
      BY <1>1, <1>2, <1>4, <2>1 DEF WriteInv
    <2> QED
      BY <1>1, <2>1, <2>2, UnreadStays DEF FileInv, Open
  <1> QED
    BY <1>3, <1>4

(* While it is being written. *)
LEMMA WritingIs ==
  ASSUME WriteInv, pc = "writing"
  PROVE  /\ index \in Indexes /\ index.id \in Writable
         /\ LaidOut(written, Items(index)) /\ Items(index) \in Seq(Cells)
         /\ written \in Seq(Pieces) /\ Len(written) \in 0 .. Len(Items(index))
         /\ toWrite = Rest(Items(index), Len(written))
         /\ pos = EndOf(written, Len(written)) /\ present = pos
  <1>1. index \in Indexes /\ index.id \in Writable /\ LaidOut(written, Items(index))
        /\ toWrite = Rest(Items(index), Len(written))
        /\ pos = EndOf(written, Len(written)) /\ present = pos
    BY DEF WriteInv
  <1>2. written \in Seq(Pieces) /\ Items(index) \in Seq(Cells) /\ Len(written) <= Len(Items(index))
    BY <1>1 DEF LaidOut
  <1> QED
    BY <1>1, <1>2

LEMMA WriteItemStep == FileInv /\ WriteItem => FileInv'
  <1> SUFFICES ASSUME FileInv, WriteItem PROVE FileInv'
    OBVIOUS
  <1> DEFINE I == Items(index)
             n == Len(written)
             c == I[n + 1]
             item == Head(toWrite)
             at == AlignUp(pos, item.align)
  <1>1. /\ pc = "writing" /\ toWrite # <<>> /\ pos' = at + item.bytes /\ present' = pos'
        /\ written' = Append(written, [at |-> at, bytes |-> item.bytes,
                                       what |-> item.what, value |-> item.value])
        /\ toWrite' = Tail(toWrite)
        /\ pc' = pc /\ index' = index /\ useMmap' = useMmap /\ UNCHANGED readVars
    BY DEF WriteItem
  <1>2. WriteInv /\ index \in Indexes /\ index.id \in Writable
        /\ LaidOut(written, I) /\ I \in Seq(Cells) /\ n \in 0 .. Len(I)
        /\ toWrite = Rest(I, n) /\ pos = EndOf(written, n) /\ present = pos
    BY <1>1, WritingIs DEF FileInv
  <1>3. n < Len(I) /\ item = c /\ toWrite' = Rest(I, n + 1)
    <2>1. n # Len(I)
      BY <1>1, <1>2, RestIs
    <2>2. n < Len(I)
      BY <1>2, <2>1
    <2> QED
      BY <1>1, <1>2, <2>2, RestIs
  <1>4. written' = Append(written, Piece(c, AlignUp(EndOf(written, n), c.align)))
    BY <1>1, <1>2, <1>3 DEF Piece
  <1> HIDE DEF I, item, at
  <1> DEFINE v == written'
  <1>5. /\ LaidOut(v, I) /\ Len(v) = n + 1
        /\ EndOf(v, Len(v)) = AlignUp(EndOf(written, n), c.align) + c.bytes
    BY <1>2, <1>3, <1>4, LaidOn
  <1>6. pos' = EndOf(v, Len(v))
    BY <1>1, <1>2, <1>3, <1>5 DEF at
  <1>7. pos' \in Nat
    <2>1. Len(v) \in 0 .. Len(v)
      BY <1>2, <1>5
    <2> QED
      BY <1>5, <1>6, <2>1, Ends
  <1> HIDE DEF c
  <1>8. WriteInv'
    <2>1. useMmap \in BOOLEAN /\ borrows \in BOOLEAN /\ eof \in BOOLEAN
      BY <1>2 DEF WriteInv
    <2>2. borrows' = borrows /\ eof' = eof
      BY <1>1 DEF readVars
    <2> QED
      BY <1>1, <1>2, <1>3, <1>5, <1>6, <1>7, <2>1, <2>2 DEF WriteInv, I
  <1>9. ReadInv'
    BY <1>1, UnreadStays
  <1> QED
    BY <1>8, <1>9 DEF FileInv

LEMMA StopStep == FileInv /\ Stop => FileInv'
  <1> SUFFICES ASSUME FileInv, Stop PROVE FileInv'
    OBVIOUS
  <1>1. /\ pc = "writing" /\ written # <<>> /\ pc' = "saved"
        /\ index' = index /\ written' = written /\ pos' = pos /\ useMmap' = useMmap /\ UNCHANGED readVars
    BY DEF Stop
  <1>2. PICK cut \in Cuts : cut < Last(written).bytes /\ present' = Last(written).at + cut
    BY DEF Stop
  <1>3. WriteInv /\ index \in Indexes /\ index.id \in Writable
        /\ LaidOut(written, Items(index)) /\ written \in Seq(Pieces)
    BY <1>1, WritingIs DEF FileInv
  <1>4. Len(written) \in 1 .. Len(written) /\ Last(written) = written[Len(written)]
    BY <1>1, <1>3 DEF Last
  <1>5. /\ Last(written).at \in Nat /\ Last(written).bytes \in Nat
        /\ EndOf(written, Len(written)) = Last(written).at + Last(written).bytes
    BY <1>3, <1>4, Ends
  <1>6. cut \in Nat
    BY <1>2, CutsAssumption
  <1>7. present' \in Nat /\ Last(written).at <= present' /\ present' < EndOf(written, Len(written))
    BY <1>2, <1>5, <1>6
  <1>8. Broken(written, present')
    BY <1>1, <1>4, <1>7 DEF Broken
  <1>9. WriteInv'
    <2>1. useMmap \in BOOLEAN /\ borrows \in BOOLEAN /\ eof \in BOOLEAN /\ pos \in Nat
      BY <1>3 DEF WriteInv
    <2>2. borrows' = borrows /\ eof' = eof
      BY <1>1 DEF readVars
    <2> QED
      BY <1>1, <1>3, <1>7, <1>8, <2>1, <2>2 DEF WriteInv
  <1>10. ReadInv'
    BY <1>1, UnreadStays
  <1> QED
    BY <1>9, <1>10 DEF FileInv

LEMMA CloseStep == FileInv /\ Close => FileInv'
  <1> SUFFICES ASSUME FileInv, Close PROVE FileInv'
    OBVIOUS
  <1>1. /\ pc = "writing" /\ toWrite = <<>> /\ pc' = "saved" /\ present' = present
        /\ index' = index /\ written' = written /\ pos' = pos /\ useMmap' = useMmap /\ UNCHANGED readVars
    BY DEF Close
  <1>2. WriteInv /\ index \in Indexes /\ index.id \in Writable
        /\ LaidOut(written, Items(index)) /\ Items(index) \in Seq(Cells)
        /\ Len(written) \in 0 .. Len(Items(index))
        /\ toWrite = Rest(Items(index), Len(written)) /\ pos = EndOf(written, Len(written)) /\ present = pos
    BY <1>1, WritingIs DEF FileInv
  <1>3. Len(written) = Len(Items(index))
    BY <1>1, <1>2, RestIs
  <1>4. Complete(written, Items(index), present)
    BY <1>2, <1>3 DEF Complete
  <1>5. WriteInv'
    <2>1. useMmap \in BOOLEAN /\ borrows \in BOOLEAN /\ eof \in BOOLEAN /\ pos \in Nat /\ present \in Nat
      BY <1>2 DEF WriteInv
    <2>2. borrows' = borrows /\ eof' = eof
      BY <1>1 DEF readVars
    <2> QED
      BY <1>1, <1>2, <1>4, <2>1, <2>2 DEF WriteInv
  <1>6. ReadInv'
    BY <1>1, UnreadStays
  <1> QED
    BY <1>5, <1>6 DEF FileInv

LEMMA ReadIndexStep ==
  ASSUME NEW mmap \in BOOLEAN, FileInv, ReadIndex(mmap)
  PROVE  FileInv'
  <1>1. /\ pc \in {"saved", "refused"} /\ pc' = "reading" /\ useMmap' = mmap /\ todo' = HeaderItems /\ pos' = 0
        /\ index' = index /\ written' = written /\ present' = present /\ borrows' = borrows /\ eof' = eof
        /\ got' = got /\ loaded' = loaded
    BY DEF ReadIndex
  <1>2. WriteInv /\ got = NothingRead /\ loaded = <<>> /\ ~borrows /\ ~eof /\ index \in Indexes
    BY <1>1 DEF FileInv, ReadInv, WriteInv
  <1>3. WriteInv'
    BY <1>1, <1>2 DEF WriteInv
  <1>4. CASE index.id \in Writable
    <2> DEFINE I == Items(index)
    <2>1. I \in Seq(Cells) /\ Follows(HeaderItems, I, NothingRead, index)
      BY <1>2, <1>4, ItemsAre
    <2>2. 0 \in 0 .. Len(I) /\ Rest(I, 0) = I /\ First(I, 0) = <<>>
      <3>1. 0 \in 0 .. Len(I)
        BY <2>1
      <3> QED
        BY <2>1, <3>1, RestIs DEF First
    <2>3. Trace(0, index, HeaderItems, NothingRead, <<>>)
      BY <2>1, <2>2 DEF Trace
    <2>4. LaidOut(written, I)
      BY <1>2, <1>4 DEF WriteInv
    <2>5. 0 \in 0 .. Len(written) /\ EndOf(written, 0) = 0 /\ 0 <= present
      BY <1>2, <2>4 DEF LaidOut, WriteInv, EndOf
    <2> HIDE DEF I
    <2>6. InStep(0)'
      BY <1>1, <1>2, <2>3, <2>5, HeaderItemsAre DEF InStep
    <2>7. Synced'
      BY <1>1, <1>4, <2>2, <2>6 DEF Synced, I
    <2> QED
      BY <1>1, <1>2, <1>3, <2>7, HeaderItemsAre DEF FileInv, ReadInv
  <1>5. CASE index.id \notin Writable
    <2>1. Lost(HeaderItems, NothingRead, borrows, mmap, index)
      BY HeaderItemsAre, NothingReadIs DEF Lost, Fruitless, HeaderWrong
    <2>2. Astray'
      BY <1>1, <1>2, <1>5, <2>1 DEF Astray
    <2> QED
      BY <1>1, <1>2, <1>3, <2>2, HeaderItemsAre DEF FileInv, ReadInv
  <1> QED
    BY <1>4, <1>5

(* While it is being read. *)
LEMMA ReadingIs ==
  ASSUME FileInv, pc = "reading"
  PROVE  /\ index \in Indexes /\ pos \in Nat /\ present \in Nat
         /\ useMmap \in BOOLEAN /\ borrows \in BOOLEAN /\ eof \in BOOLEAN /\ (borrows => useMmap)
         /\ todo \in Seq(Expected) /\ (Synced \/ Astray)
         /\ index.id \in Writable =>
              /\ LaidOut(written, Items(index)) /\ Items(index) \in Seq(Cells) /\ InnerOf(index).id \in Mappable
              /\ Complete(written, Items(index), present) \/ Broken(written, present)
         /\ index.id \notin Writable => written = <<>> /\ present = 0
  <1>1. WriteInv /\ ReadInv
    BY DEF FileInv
  <1>2. index \in Indexes
    BY <1>1 DEF WriteInv
  <1>3. index.id \in Writable => Items(index) \in Seq(Cells) /\ InnerOf(index).id \in Mappable
    BY <1>2, ItemsAre
  <1> QED
    BY <1>1, <1>3 DEF WriteInv, ReadInv

LEMMA Onward ==
  ASSUME FileInv, pc = "reading", pc' = "reading", UNCHANGED <<index, written, present, useMmap>>,
         pos' \in Nat, borrows' \in BOOLEAN, eof' \in BOOLEAN, borrows' => useMmap, Synced' \/ Astray'
  PROVE  FileInv'
  <1>1. index' = index /\ written' = written /\ present' = present /\ useMmap' = useMmap
    OBVIOUS
  <1>2. WriteInv /\ index \in Indexes
    BY DEF FileInv, WriteInv
  <1>3. WriteInv'
    BY <1>1, <1>2 DEF WriteInv
  <1>4. todo' \in Seq(Expected)
    <2>1. CASE Synced'
      <3>1. index.id \in Writable /\ \E k : Trace(k, index, todo', got', loaded')
        BY <1>1, <2>1 DEF Synced, InStep
      <3> QED
        BY <1>2, <3>1, ItemsAre, TraceIs
    <2>2. CASE Astray'
      BY <2>2 DEF Astray, Lost
    <2> QED
      BY <2>1, <2>2
  <1>5. ReadInv'
    BY <1>1, <1>4 DEF ReadInv
  <1> QED
    BY <1>3, <1>5 DEF FileInv

LEMMA Refused ==
  ASSUME FileInv, pc = "reading", pc' = "rejected", UNCHANGED <<index, written, present, useMmap, borrows, todo>>,
         pos' \in Nat, eof' \in BOOLEAN,
         Full /\ Supports(index) => InnerOf(index).id \in MappedOnly /\ ~useMmap
  PROVE  FileInv'
  <1>1. index' = index /\ written' = written /\ present' = present /\ useMmap' = useMmap /\ borrows' = borrows
        /\ todo' = todo
    OBVIOUS
  <1>2. WriteInv
    BY DEF FileInv
  <1>3. WriteInv'
    BY <1>1, <1>2 DEF WriteInv
  <1>4. ReadInv'
    BY <1>1 DEF FileInv, ReadInv, Full
  <1> QED
    BY <1>3, <1>4 DEF FileInv

LEMMA TakeIs ==
  ASSUME NEW v, Take(Head(todo), v)
  PROVE  /\ got' = Noted(got, Head(todo).what, v) /\ loaded' = Append(loaded, <<Head(todo).what, v>>)
         /\ todo' = Goes(todo, got, v)
  BY DEF Take, Goes, Join

(* It reads what was written there. *)
LEMMA StepOn ==
  ASSUME FileInv, pc = "reading", index.id \in Writable, NEW k \in 0 .. Len(Items(index)), InStep(k),
         todo # <<>>, Head(todo).what \notin Marks, Take(Head(todo), Told(index, k)),
         UNCHANGED <<index, written, present, useMmap, borrows>>,
         eof' => ~Complete(written, Items(index), present),
         ~eof' => k + 1 \in 0 .. Len(written) /\ pos' = EndOf(written, k + 1) /\ pos' <= present
  PROVE  Synced'
  <1>1. index' = index /\ written' = written /\ present' = present /\ useMmap' = useMmap /\ borrows' = borrows
    OBVIOUS
  <1> DEFINE I == Items(index)
             v == Told(index, k)
             h == Noted(got, Head(todo).what, v)
             l == Append(loaded, <<Head(todo).what, v>>)
  <1>2. I \in Seq(Cells)
    BY ReadingIs
  <1>3. Trace(k, index, todo, got, loaded) /\ (Inside(todo) => Sited(got, borrows, useMmap, index))
    BY DEF InStep
  <1>4. k + 1 \in 1 .. Len(I) /\ Trace(k + 1, index, Goes(todo, got, v), h, l)
    BY <1>2, <1>3, TraceItem
  <1>5. Inside(Goes(todo, got, v)) => Sited(h, borrows, useMmap, index)
    BY <1>2, <1>3, TraceInside
  <1>6. got' = h /\ loaded' = l /\ todo' = Goes(todo, got, v)
    BY TakeIs
  <1>7. k + 1 \in 0 .. Len(I)
    BY <1>4
  <1> HIDE DEF I, v, h, l
  <1>8. InStep(k + 1)'
    BY <1>1, <1>4, <1>5, <1>6 DEF InStep, I
  <1> QED
    BY <1>1, <1>7, <1>8 DEF Synced, I

(* What the next item is. *)
LEMMA NextIs ==
  ASSUME FileInv, pc = "reading", index.id \in Writable, NEW k \in 0 .. Len(Items(index)), InStep(k),
         todo # <<>>, Head(todo).what \notin Marks
  PROVE  /\ Trace(k, index, todo, got, loaded) /\ Items(index) \in Seq(Cells) /\ k < Len(Items(index))
         /\ Head(todo) \in Expected /\ IsGot(got)
         /\ Consequence(Head(todo), Tail(todo), Told(index, k), got, index)
         /\ Head(todo).bytes = 0 => Told(index, k) = NoValue
         /\ Items(index)[k + 1].align = Head(todo).align /\ Items(index)[k + 1].bytes = Head(todo).bytes
         /\ Items(index)[k + 1].value = Told(index, k)
  <1>1. Trace(k, index, todo, got, loaded) /\ Items(index) \in Seq(Cells)
    BY ReadingIs DEF InStep
  <1>2. /\ k < Len(Items(index)) /\ k + 1 \in 1 .. Len(Items(index))
        /\ Items(index)[k + 1] = Valued(Head(todo), Told(index, k))
        /\ Consequence(Head(todo), Tail(todo), Told(index, k), got, index)
    BY <1>1, TraceItem
  <1>3. IsGot(got) /\ todo \in Seq(Expected)
    BY <1>1, TraceIs
  <1>4. Head(todo) \in Expected
    BY <1>3, TailIs
  <1>5. Items(index)[k + 1] \in Cells
    BY <1>1, <1>2
  <1>6. /\ Items(index)[k + 1].align = Head(todo).align /\ Items(index)[k + 1].bytes = Head(todo).bytes
        /\ Items(index)[k + 1].value = Told(index, k)
    BY <1>2 DEF Valued
  <1>7. Head(todo).bytes = 0 => Told(index, k) = NoValue
    BY <1>5, <1>6 DEF Cells
  <1> QED
    BY <1>1, <1>2, <1>3, <1>4, <1>6, <1>7

(* Where it is, unless a copying read has come to the end before. *)
LEMMA NextAt ==
  ASSUME FileInv, pc = "reading", index.id \in Writable, NEW k \in 0 .. Len(Items(index)), InStep(k), ~eof,
         todo # <<>>, Head(todo).what \notin Marks,
         NEW at, at = AlignUp(pos, Head(todo).align)
  PROVE  /\ k + 1 \in 1 .. Len(written) /\ k + 1 \in 0 .. Len(written)
         /\ at = written[k + 1].at /\ at \in Nat /\ at <= present
         /\ written[k + 1].bytes = Head(todo).bytes /\ written[k + 1].value = Told(index, k)
         /\ EndOf(written, k + 1) = at + Head(todo).bytes
         /\ at + Head(todo).bytes > present => ~Complete(written, Items(index), present)
         /\ Head(todo).bytes > 0 => At(at, Head(todo).bytes) = {written[k + 1]}
  <1> DEFINE I == Items(index)
             w == written
             x == Head(todo)
  <1>1. /\ LaidOut(w, I) /\ I \in Seq(Cells) /\ (Complete(w, I, present) \/ Broken(w, present))
    BY ReadingIs
  <1>2. k \in 0 .. Len(w) /\ pos = EndOf(w, k) /\ pos <= present
    BY DEF InStep
  <1>3. k < Len(I) /\ I[k + 1].align = x.align /\ I[k + 1].bytes = x.bytes /\ I[k + 1].value = Told(index, k)
    BY NextIs
  <1> HIDE DEF I, x
  <1>4. /\ present \in Nat /\ k + 1 \in 1 .. Len(w) /\ k + 1 \in 1 .. Len(I)
        /\ w[k + 1].at = AlignUp(EndOf(w, k), I[k + 1].align) /\ w[k + 1].at \in Nat
        /\ w[k + 1].bytes = I[k + 1].bytes /\ w[k + 1].value = I[k + 1].value
        /\ EndOf(w, k + 1) = w[k + 1].at + w[k + 1].bytes /\ EndOf(w, k + 1) \in Nat
        /\ w[k + 1].at <= present
        /\ EndOf(w, k + 1) > present => Broken(w, present) /\ k + 1 = Len(w)
    BY <1>1, <1>2, <1>3, NextThere
  <1>5. at = w[k + 1].at /\ w[k + 1].bytes = x.bytes
    BY <1>2, <1>3, <1>4 DEF x
  <1>6. Broken(w, present) => ~Complete(w, I, present)
    BY <1>4 DEF Broken, Complete
  <1>7. k + 1 \in 0 .. Len(w)
    BY <1>4
  <1>8. x.bytes > 0 => At(at, x.bytes) = {w[k + 1]}
    BY <1>1, <1>4, <1>5, OneThere DEF At
  <1>9. EndOf(w, k + 1) = at + x.bytes
    BY <1>4, <1>5
  <1> QED
    BY <1>3, <1>4, <1>5, <1>6, <1>7, <1>8, <1>9 DEF x, I

(* What a reader that is lost meets is not there. *)
LEMMA AstrayIs ==
  ASSUME FileInv, pc = "reading", Astray, todo # <<>>, Head(todo).what \notin Marks,
         NEW at, at = AlignUp(pos, Head(todo).align)
  PROVE  /\ todo \in Seq(Expected) /\ Head(todo) \in Expected /\ Tail(todo) \in Seq(Expected) /\ at \in Nat
         /\ Lost(todo, got, borrows, useMmap, index)
         /\ index.id \notin Writable \/ (eof /\ ~Complete(written, Items(index), present))
         /\ eof \/ present = 0
         /\ Head(todo).array <=> Head(todo).what \in ArrayPlaces
         /\ ~Head(todo).array => Head(todo).what \in ScalarPlaces /\ Head(todo).bytes > 0
         /\ Head(todo).bytes = 0 => Head(todo).what \in ArrayPlaces \ {"indptr"}
         /\ Head(todo).bytes \in Nat
  <1>1. /\ Lost(todo, got, borrows, useMmap, index)
        /\ index.id \notin Writable \/ (eof /\ ~Complete(written, Items(index), present))
    BY DEF Astray
  <1>2. todo \in Seq(Expected) /\ pos \in Nat /\ (index.id \notin Writable => present = 0)
    BY ReadingIs
  <1>3. Head(todo) \in Expected /\ Tail(todo) \in Seq(Expected)
    BY <1>2, TailIs
  <1>4. /\ Head(todo).array <=> Head(todo).what \in ArrayPlaces
        /\ ~Head(todo).array => Head(todo).what \in ScalarPlaces /\ Head(todo).bytes > 0
        /\ Head(todo).bytes = 0 => Head(todo).what \in ArrayPlaces \ {"indptr"}
        /\ Head(todo).bytes \in Nat /\ Head(todo).align \in Nat \ {0}
    BY <1>3 DEF Expected
  <1>5. at \in Nat
    BY <1>2, <1>4, AlignUpIs
  <1> QED
    BY <1>1, <1>2, <1>3, <1>4, <1>5

LEMMA ReadItemStep == FileInv /\ ReadItem => FileInv'
  <1> SUFFICES ASSUME FileInv, ReadItem PROVE FileInv'
    OBVIOUS
  <1> DEFINE item == Head(todo)
             at == AlignUp(pos, item.align)
  <1>1. /\ pc = "reading" /\ todo # <<>> /\ item.what \notin Marks /\ item.bytes > 0
        /\ ~eof /\ at + item.bytes <= present /\ pos' = at + item.bytes
        /\ index' = index /\ written' = written /\ present' = present /\ useMmap' = useMmap
        /\ borrows' = borrows /\ eof' = eof
    BY DEF ReadItem
  <1>2. \/ At(at, item.bytes) = {}
        \/ \E f \in At(at, item.bytes) : Take(item, f.value) /\ pc' = pc
    BY DEF ReadItem
  <1>3. CASE Synced
    <2>1. index.id \in Writable
      BY <1>3 DEF Synced
    <2>2. PICK k \in 0 .. Len(Items(index)) : InStep(k)
      BY <1>3 DEF Synced
    <2>3. /\ k + 1 \in 0 .. Len(written)
          /\ written[k + 1].value = Told(index, k)
          /\ EndOf(written, k + 1) = at + item.bytes /\ at \in Nat
          /\ At(at, item.bytes) = {written[k + 1]}
      BY <1>1, <2>1, <2>2, NextAt
    <2>4. Take(item, Told(index, k)) /\ pc' = "reading"
      <3>1. PICK f \in At(at, item.bytes) : Take(item, f.value) /\ pc' = pc
        BY <1>2, <2>3
      <3>2. f = written[k + 1]
        BY <2>3, <3>1
      <3> QED
        BY <1>1, <2>3, <3>1, <3>2
    <2>5. pos' = EndOf(written, k + 1) /\ pos' <= present
      BY <1>1, <2>3
    <2>6. Synced'
      BY <1>1, <2>1, <2>2, <2>3, <2>4, <2>5, StepOn
    <2>7. pos' \in Nat
      <3>1. item.bytes \in Nat
        BY <1>1, <2>1, <2>2, NextIs DEF Expected
      <3> QED
        BY <1>1, <2>3, <3>1
    <2> HIDE DEF item, at
    <2>8. borrows \in BOOLEAN /\ eof \in BOOLEAN /\ (borrows => useMmap)
      BY <1>1, ReadingIs
    <2> QED
      BY <1>1, <2>4, <2>6, <2>7, <2>8, Onward
  <1>4. CASE Astray
    <2>1. at \in Nat /\ item.bytes \in Nat /\ present = 0
      BY <1>1, <1>4, AstrayIs
    <2> HIDE DEF item, at
    <2> QED
      BY <1>1, <2>1
  <1> QED
    BY <1>1, <1>3, <1>4, ReadingIs

LEMMA ReadNothingStep == FileInv /\ ReadNothing => FileInv'
  <1> SUFFICES ASSUME FileInv, ReadNothing PROVE FileInv'
    OBVIOUS
  <1> DEFINE item == Head(todo)
             at == AlignUp(pos, item.align)
  <1>1. /\ pc = "reading" /\ todo # <<>> /\ item.what \notin Marks /\ item.bytes = 0
        /\ pos' = at
        /\ index' = index /\ written' = written /\ present' = present /\ useMmap' = useMmap
        /\ borrows' = borrows /\ eof' = eof
    BY DEF ReadNothing
  <1>2. \/ borrows /\ at > present /\ Reject
        \/ Take(item, NoValue) /\ pc' = pc
    BY DEF ReadNothing
  <1>3. /\ borrows \in BOOLEAN /\ eof \in BOOLEAN /\ (borrows => useMmap) /\ pos \in Nat /\ present \in Nat
        /\ useMmap \in BOOLEAN /\ todo \in Seq(Expected) /\ (Synced \/ Astray)
    BY <1>1, ReadingIs
  <1>4. at \in Nat /\ item.what \in ArrayPlaces \ {"indptr"} /\ Tail(todo) \in Seq(Expected)
    <2>1. item \in Expected /\ Tail(todo) \in Seq(Expected)
      BY <1>1, <1>3, TailIs
    <2>2. item.align \in Nat \ {0} /\ item.what \in ArrayPlaces \ {"indptr"}
      BY <1>1, <2>1 DEF Expected
    <2> QED
      BY <1>3, <2>1, <2>2, AlignUpIs
  <1>5. CASE Synced
    <2>1. index.id \in Writable
      BY <1>5 DEF Synced
    <2>2. PICK k \in 0 .. Len(Items(index)) : InStep(k)
      BY <1>5 DEF Synced
    <2>3. Told(index, k) = NoValue
      BY <1>1, <2>1, <2>2, NextIs
    <2>4. ~eof => k + 1 \in 0 .. Len(written) /\ EndOf(written, k + 1) = at /\ at <= present
      <3> SUFFICES ASSUME ~eof PROVE k + 1 \in 0 .. Len(written) /\ EndOf(written, k + 1) = at /\ at <= present
        OBVIOUS
      <3>1. k + 1 \in 0 .. Len(written) /\ EndOf(written, k + 1) = at + item.bytes /\ at <= present
        BY <1>1, <2>1, <2>2, NextAt
      <3> HIDE DEF item, at
      <3> QED
        BY <1>1, <1>4, <3>1
    <2>5. eof => ~Complete(written, Items(index), present)
      BY <2>2 DEF InStep
    <2>6. CASE borrows /\ at > present /\ Reject
      <3>1. pc' = "rejected" /\ todo' = todo
        BY <2>6 DEF Reject
      <3> HIDE DEF item, at
      <3>2. eof
        BY <1>3, <1>4, <2>4, <2>6
      <3>3. ~Full
        BY <2>5, <3>2 DEF Full
      <3> QED
        BY <1>1, <1>3, <1>4, <3>1, <3>3, Refused
    <2>7. CASE Take(item, NoValue) /\ pc' = pc
      <3>1. Take(item, Told(index, k))
        BY <2>3, <2>7
      <3>2. eof' => ~Complete(written, Items(index), present)
        BY <1>1, <2>5
      <3>3. ~eof' => k + 1 \in 0 .. Len(written) /\ pos' = EndOf(written, k + 1) /\ pos' <= present
        BY <1>1, <2>4
      <3>4. Synced'
        BY <1>1, <2>1, <2>2, <3>1, <3>2, <3>3, StepOn
      <3> HIDE DEF item, at
      <3> QED
        BY <1>1, <1>3, <1>4, <2>7, <3>4, Onward
    <2> QED
      BY <1>2, <2>6, <2>7
  <1>6. CASE Astray
    <2>1. /\ Lost(todo, got, borrows, useMmap, index)
          /\ index.id \notin Writable \/ (eof /\ ~Complete(written, Items(index), present))
      BY <1>6 DEF Astray
    <2>2. CASE borrows /\ at > present /\ Reject
      <3>1. pc' = "rejected" /\ todo' = todo /\ ~Full
        BY <2>1, <2>2 DEF Reject, Full
      <3> HIDE DEF item, at
      <3> QED
        BY <1>1, <1>3, <1>4, <3>1, Refused
    <2>3. CASE Take(item, NoValue) /\ pc' = pc
      <3>1. Lost(Tail(todo), got, borrows, useMmap, index)
        <4>1. item.bytes > 0 => ~borrows
          BY <1>1
        <4> QED
          BY <1>1, <1>4, <2>1, <4>1, LostArray
      <3>2. todo' = Tail(todo) /\ got' = got
        <4>1. got' = Noted(got, item.what, NoValue) /\ todo' = Goes(todo, got, NoValue)
          BY <2>3, TakeIs
        <4>2. IsGot(got)
          BY <2>1 DEF Lost
        <4>3. Noted(got, item.what, NoValue) = got /\ Then(item.what, NoValue, got) = <<>>
          BY <1>4, <4>2, ThenOfArray
        <4>4. Join(<<>>, Tail(todo)) = Tail(todo)
          BY <1>4, JoinIs
        <4> QED
          BY <4>1, <4>3, <4>4 DEF Goes
      <3> HIDE DEF item, at
      <3>3. Astray'
        BY <1>1, <2>1, <3>1, <3>2 DEF Astray
      <3> QED
        BY <1>1, <1>3, <1>4, <2>3, <3>3, Onward
    <2> QED
      BY <1>2, <2>2, <2>3
  <1> QED
    BY <1>3, <1>5, <1>6

LEMMA GoesDefault ==
  ASSUME NEW t, NEW g
  PROVE  /\ Goes(t, g, Default(Head(t).what)) = After(Head(t).what, g, Tail(t))
         /\ Noted(g, Head(t).what, Default(Head(t).what)) = Missed(Head(t).what, g)
  BY DEF Goes, After, Missed

LEMMA ReadShortStep == FileInv /\ ReadShort => FileInv'
  <1> SUFFICES ASSUME FileInv, ReadShort PROVE FileInv'
    OBVIOUS
  <1> DEFINE item == Head(todo)
             at   == AlignUp(pos, item.align)
             part == IF ~eof /\ at < present THEN {f.value : f \in At(at, item.bytes)} ELSE {}
  <1>1. /\ pc = "reading" /\ todo # <<>> /\ item.bytes > 0
        /\ eof \/ at + item.bytes > present
        /\ eof' = TRUE /\ pos' = pos
        /\ index' = index /\ written' = written /\ present' = present /\ useMmap' = useMmap
        /\ borrows' = borrows
    BY DEF ReadShort
  <1>2. \/ Reject
        \/ /\ ~borrows /\ (item.array => item.what = "id_map") /\ pc' = pc
           /\ \/ item.array /\ Take(item, NoValue)
              \/ ~item.array /\ \E v \in part \union {Default(item.what)} : Take(item, v)
    BY DEF ReadShort
  <1>3. /\ borrows \in BOOLEAN /\ eof \in BOOLEAN /\ (borrows => useMmap) /\ pos \in Nat /\ present \in Nat
        /\ useMmap \in BOOLEAN /\ todo \in Seq(Expected) /\ (Synced \/ Astray)
    BY <1>1, ReadingIs
  <1>4. /\ item \in Expected /\ Tail(todo) \in Seq(Expected) /\ item.what \notin Marks
        /\ ~item.array => item.what \in ScalarPlaces
        /\ item.array => item.what \in ArrayPlaces
    <2>1. item \in Expected /\ Tail(todo) \in Seq(Expected)
      BY <1>1, <1>3, TailIs
    <2>2. item.what \notin Marks
      BY <1>1, <2>1 DEF Expected
    <2> QED
      BY <2>1, <2>2 DEF Expected
  <1>5. ASSUME ~Complete(written, Items(index), present) \/ index.id \notin Writable, Reject PROVE FileInv'
    <2>1. ~Full /\ pc' = "rejected" /\ todo' = todo
      BY <1>5 DEF Full, Reject
    <2> HIDE DEF item, at, part
    <2> QED
      BY <1>1, <1>3, <2>1, Refused
  <1>6. ASSUME ~Complete(written, Items(index), present) \/ index.id \notin Writable, ~borrows, pc' = pc,
               item.array, item.what = "id_map", Take(item, NoValue), IsGot(got),
               Lost(Tail(todo), got, borrows, useMmap, index)
        PROVE  FileInv'
    <2>1. todo' = Tail(todo) /\ got' = got
      <3>1. got' = Noted(got, item.what, NoValue) /\ todo' = Goes(todo, got, NoValue)
        BY <1>6, TakeIs
      <3>2. item.what \in ArrayPlaces \ {"indptr"}
        BY <1>6 DEF ArrayPlaces
      <3>3. Noted(got, item.what, NoValue) = got /\ Then(item.what, NoValue, got) = <<>>
        BY <1>6, <3>2, ThenOfArray
      <3>4. Join(<<>>, Tail(todo)) = Tail(todo)
        BY <1>4, JoinIs
      <3> QED
        BY <3>1, <3>3, <3>4 DEF Goes
    <2> HIDE DEF item, at, part
    <2>2. Astray'
      BY <1>1, <1>6, <2>1 DEF Astray
    <2> QED
      BY <1>1, <1>3, <1>6, <2>2, Onward
  <1>7. ASSUME ~Complete(written, Items(index), present) \/ index.id \notin Writable, ~borrows, pc' = pc,
               Take(item, Default(item.what)),
               Lost(After(item.what, got, Tail(todo)), Missed(item.what, got), borrows, useMmap, index)
        PROVE  FileInv'
    <2>1. todo' = After(item.what, got, Tail(todo)) /\ got' = Missed(item.what, got)
      BY <1>7, TakeIs, GoesDefault
    <2> HIDE DEF item, at, part
    <2>2. Astray'
      BY <1>1, <1>7, <2>1 DEF Astray
    <2> QED
      BY <1>1, <1>3, <1>7, <2>2, Onward
  <1>8. CASE Synced
    <2>1. index.id \in Writable /\ InnerOf(index).id \in Mappable
      BY <1>1, <1>8, ReadingIs DEF Synced
    <2>2. PICK k \in 0 .. Len(Items(index)) : InStep(k)
      BY <1>8 DEF Synced
    <2>3. IsGot(got) /\ Consequence(item, Tail(todo), Told(index, k), got, index)
      BY <1>1, <1>4, <2>1, <2>2, NextIs
    <2>4. ~Complete(written, Items(index), present)
      <3>1. CASE eof
        BY <2>2, <3>1 DEF InStep
      <3>2. CASE ~eof
        BY <1>1, <1>4, <2>1, <2>2, <3>2, NextAt
      <3> QED
        BY <3>1, <3>2
    <2>5. part \subseteq {Told(index, k)}
      <3>1. CASE ~eof
        <4>1. At(at, item.bytes) = {written[k + 1]} /\ written[k + 1].value = Told(index, k)
          BY <1>1, <1>4, <2>1, <2>2, <3>1, NextAt
        <4> QED
          BY <4>1
      <3>2. CASE eof
        BY <3>2
      <3> QED
        BY <3>1, <3>2
    <2>6. CASE Reject
      BY <1>5, <2>4, <2>6
    <2>7. CASE ~borrows /\ item.array /\ item.what = "id_map" /\ pc' = pc /\ Take(item, NoValue)
      <3>1. Lost(Tail(todo), got, borrows, useMmap, index)
        BY <1>1, <1>3, <2>3, <2>7, StrayMap
      <3> QED
        BY <1>6, <2>3, <2>4, <2>7, <3>1
    <2>8. CASE ~borrows /\ ~item.array /\ pc' = pc /\ Take(item, Told(index, k))
      <3>1. Synced'
        BY <1>1, <1>4, <2>1, <2>2, <2>4, <2>8, StepOn
      <3> HIDE DEF item, at, part
      <3> QED
        BY <1>1, <1>3, <2>8, <3>1, Onward
    <2>9. CASE /\ ~borrows /\ ~item.array /\ pc' = pc /\ Take(item, Default(item.what))
               /\ Told(index, k) # Default(item.what)
      <3>1. Inside(todo) => Sited(got, borrows, useMmap, index)
        BY <2>2 DEF InStep
      <3>2. Lost(After(item.what, got, Tail(todo)), Missed(item.what, got), borrows, useMmap, index)
        BY <1>1, <1>3, <1>4, <2>1, <2>3, <2>9, <3>1, StrayScalar
      <3> QED
        BY <1>7, <2>4, <2>9, <3>2
    <2> HIDE DEF part, at
    <2> QED
      BY <1>2, <2>5, <2>6, <2>7, <2>8, <2>9
  <1>9. CASE Astray
    <2>1. /\ Lost(todo, got, borrows, useMmap, index)
          /\ ~Complete(written, Items(index), present) \/ index.id \notin Writable
          /\ eof \/ present = 0
          /\ at \in Nat
      BY <1>1, <1>4, <1>9, AstrayIs
    <2>2. IsGot(got)
      BY <2>1 DEF Lost
    <2>3. part = {}
      <3> HIDE DEF at
      <3>1. eof \/ ~(at < present)
        BY <2>1
      <3> QED
        BY <3>1
    <2>4. CASE Reject
      BY <1>5, <2>1, <2>4
    <2>5. CASE ~borrows /\ item.array /\ item.what = "id_map" /\ pc' = pc /\ Take(item, NoValue)
      <3>1. item.what \in ArrayPlaces \ {"indptr"}
        BY <2>5 DEF ArrayPlaces
      <3>2. Lost(Tail(todo), got, borrows, useMmap, index)
        BY <1>1, <2>1, <2>5, <3>1, LostArray
      <3> QED
        BY <1>6, <2>1, <2>2, <2>5, <3>2
    <2>6. CASE ~borrows /\ ~item.array /\ pc' = pc /\ Take(item, Default(item.what))
      <3>1. Lost(After(item.what, got, Tail(todo)), Missed(item.what, got), borrows, useMmap, index)
        BY <1>1, <1>4, <2>1, <2>6, LostScalar
      <3> QED
        BY <1>7, <2>1, <2>6, <3>1
    <2> HIDE DEF part, at
    <2> QED
      BY <1>2, <2>3, <2>4, <2>5, <2>6
  <1> QED
    BY <1>3, <1>8, <1>9

(* A header of a supported index is refused only where its payload has to   *)
(* be mapped and is not.                                                    *)
LEMMA HeaderFits ==
  ASSUME NEW g, NEW ix, ix.id \in Writable, InnerOf(ix).id \in Mappable, HeaderRead(g, ix), Supports(ix),
         NEW m \in BOOLEAN,
         \/ g["id"] \notin Writable \/ g["version"] # Version
         \/ g["id"] \in MappedOnly /\ ~(m /\ g["id"] \in Mappable)
  PROVE  InnerOf(ix).id \in MappedOnly /\ ~m
  <1>1. CASE g["id"] = ix.id /\ g["version"] = ix.version
    <2>1. g["id"] \in Writable /\ g["version"] = Version
      BY <1>1 DEF Supports
    <2>2. g["id"] \in MappedOnly /\ ~m
      BY <2>1 DEF MappedOnly, Mappable
    <2>3. InnerOf(ix) = ix
      BY <1>1, <2>2 DEF InnerOf, MappedOnly
    <2> QED
      BY <1>1, <2>2, <2>3
  <1>2. CASE /\ ix.id = "IDMP" /\ ix.version = Version
             /\ g["id"] = ix.delegate.id /\ g["version"] = ix.delegate.version
    <2>1. InnerOf(ix) = ix.delegate
      BY <1>2 DEF InnerOf
    <2>2. g["id"] \in Mappable /\ g["version"] = Version
      BY <1>2, <2>1 DEF Supports
    <2>3. g["id"] \in Writable
      BY <2>2 DEF Mappable, Writable
    <2> QED
      BY <1>2, <2>1, <2>2, <2>3
  <1> QED
    BY <1>1, <1>2 DEF HeaderRead

LEMMA ChooseReaderStep == FileInv /\ ChooseReader => FileInv'
  <1> SUFFICES ASSUME FileInv, ChooseReader PROVE FileInv'
    OBVIOUS
  <1> DEFINE id   == got["id"]
             maps == useMmap /\ id \in Mappable
             refused == id \notin Writable \/ got["version"] # Version \/ (id \in MappedOnly /\ ~maps)
  <1>1. /\ pc = "reading" /\ todo # <<>> /\ Head(todo).what = "payload"
        /\ index' = index /\ written' = written /\ present' = present /\ useMmap' = useMmap
        /\ pos' = pos /\ eof' = eof
    BY DEF ChooseReader
  <1>2. \/ refused /\ pc' = "rejected" /\ todo' = todo /\ borrows' = borrows
        \/ ~refused /\ borrows' = maps /\ todo' = Join(Payload(id), Tail(todo))
           /\ pc' = pc /\ got' = got /\ loaded' = loaded
    BY DEF ChooseReader, Reject, Join
  <1>3. /\ borrows \in BOOLEAN /\ eof \in BOOLEAN /\ pos \in Nat
        /\ useMmap \in BOOLEAN /\ todo \in Seq(Expected) /\ (Synced \/ Astray)
    BY <1>1, ReadingIs
  <1>4. maps \in BOOLEAN /\ (maps => useMmap)
    BY <1>3
  <1>5. CASE Synced
    <2>1. index.id \in Writable /\ InnerOf(index).id \in Mappable /\ Items(index) \in Seq(Cells)
      BY <1>1, <1>5, ReadingIs DEF Synced
    <2>2. PICK k \in 0 .. Len(Items(index)) : InStep(k)
      BY <1>5 DEF Synced
    <2>3. Trace(k, index, todo, got, loaded)
      BY <2>2 DEF InStep
    <2>4. /\ HeaderRead(got, index) /\ Tail(todo) = <<>>
          /\ got["version"] = Version => Trace(k, index, Payload(id), got, loaded)
      BY <1>1, <2>1, <2>3, TracePayload
    <2>5. CASE refused /\ pc' = "rejected" /\ todo' = todo /\ borrows' = borrows
      <3>1. Supports(index) => InnerOf(index).id \in MappedOnly /\ ~useMmap
        BY <1>3, <2>1, <2>4, <2>5, HeaderFits
      <3> HIDE DEF refused, maps
      <3> QED
        BY <1>1, <1>3, <2>5, <3>1, Refused
    <2>6. CASE /\ ~refused /\ borrows' = maps /\ todo' = Join(Payload(id), Tail(todo))
               /\ pc' = pc /\ got' = got /\ loaded' = loaded
      <3>1. id \in Writable /\ got["version"] = Version /\ (id \in MappedOnly => maps)
        BY <2>6
      <3>2. todo' = Payload(id)
        <4>1. Payload(id) \in Seq(Expected)
          BY <3>1, PayloadIs
        <4> QED
          BY <2>4, <2>6, <4>1, JoinIs
      <3>3. Trace(k, index, todo', got', loaded')
        BY <2>4, <2>6, <3>1, <3>2
      <3>4. Inside(todo') => Supports(index) /\ id = InnerOf(index).id
        BY <2>1, <2>6, <3>3, TraceIs
      <3>5. Inside(todo') => Sited(got', borrows', useMmap, index)
        BY <2>6, <3>1, <3>4 DEF Sited
      <3> HIDE DEF refused, maps
      <3>6. InStep(k)'
        BY <1>1, <2>2, <3>3, <3>5 DEF InStep
      <3>7. Synced'
        BY <1>1, <2>1, <3>6 DEF Synced
      <3> QED
        BY <1>1, <1>3, <1>4, <2>6, <3>7, Onward
    <2> QED
      BY <1>2, <2>5, <2>6
  <1>6. CASE Astray
    <2>1. /\ Lost(todo, got, borrows, useMmap, index)
          /\ index.id \notin Writable \/ (eof /\ ~Complete(written, Items(index), present))
      BY <1>6 DEF Astray
    <2>2. CASE refused /\ pc' = "rejected" /\ todo' = todo /\ borrows' = borrows
      <3>1. ~Full
        BY <2>1 DEF Full
      <3> HIDE DEF refused, maps
      <3> QED
        BY <1>1, <1>3, <2>2, <3>1, Refused
    <2>3. CASE /\ ~refused /\ borrows' = maps /\ todo' = Join(Payload(id), Tail(todo))
               /\ pc' = pc /\ got' = got /\ loaded' = loaded
      <3>1. id \in Writable /\ got["version"] = Version /\ (id \in MappedOnly => maps)
        BY <2>3
      <3>2. Lost(Join(Payload(got["id"]), Tail(todo)), got, maps, useMmap, index)
        BY <1>1, <2>1, <3>1, LostChoice
      <3> HIDE DEF refused, maps
      <3>3. Astray'
        BY <1>1, <2>1, <2>3, <3>2 DEF Astray
      <3> QED
        BY <1>1, <1>3, <1>4, <2>3, <3>3, Onward
    <2> QED
      BY <1>2, <2>2, <2>3
  <1> QED
    BY <1>3, <1>5, <1>6

(* A count that fits in what is left of the file. *)
LEMMA Fitting ==
  ASSUME NEW a \in Nat, NEW b \in Nat, NEW n \in Nat, a + 8 * n <= b
  PROVE  n <= (b - a) \div 8
  BY Z3

(* What was written passes the checks, if it is all there. *)
LEMMA CheckFits ==
  ASSUME FileInv, pc = "reading", Full, NEW k \in 0 .. Len(Items(index)), InStep(k),
         todo # <<>>, Head(todo).what \in Marks \ {"payload"}
  PROVE  Passes(Head(todo).what)
  <1> DEFINE I == Items(index)
             check == Head(todo).what
  <1>1. /\ index.id \in Writable /\ LaidOut(written, I) /\ I \in Seq(Cells) /\ index \in Indexes
        /\ Complete(written, I, present)
    BY ReadingIs DEF Full
  <1>2. ~eof /\ k \in 0 .. Len(written) /\ pos = EndOf(written, k)
        /\ Trace(k, index, todo, got, loaded)
    BY <1>1 DEF InStep
  <1>3. Fits(check, Rest(I, k), got, index) /\ IsGot(got) /\ loaded = First(I, k)
    <2>1. Fits(check, Rest(I, k), got, index)
      BY <1>1, <1>2, TraceMark
    <2>2. IsGot(got)
      BY <1>1, <1>2, TraceIs
    <2> QED
      BY <1>2, <2>1, <2>2 DEF Trace
  <1>4. check \in {"check_quantizer", "check_element_size", "check_scores", "check_locators", "check_widths"}
    BY DEF Marks
  <1> HIDE DEF I, check
  <1>5. CASE check = "check_quantizer"
    BY <1>3, <1>5 DEF Fits, Passes, QuantizerFits, check
  <1>6. CASE check = "check_element_size"
    <2>1. CASE got["id"] = "INVT"
      <3>1. got["posting_width"] = 4 /\ Spans(Rest(I, k), got["n_term"]) /\ got["n_term"] \in Nat
        BY <1>3, <1>6, <2>1 DEF Fits, IsGot
      <3>2. Len(written) = Len(I) /\ present = EndOf(written, Len(written))
        BY <1>1 DEF Complete
      <3>3. k \in 0 .. Len(I)
        BY DEF I
      <3>4. EndOf(written, k) + 8 * got["n_term"] <= EndOf(written, Len(written))
        BY <1>1, <3>1, <3>2, <3>3, SpansBytes
      <3>5. pos \in Nat /\ present \in Nat
        BY ReadingIs
      <3>6. got["n_term"] <= (present - pos) \div 8
        BY <1>2, <3>1, <3>2, <3>4, <3>5, Fitting
      <3>7. ElementSizeFits
        BY <2>1, <3>1, <3>6 DEF ElementSizeFits
      <3> QED
        BY <1>6, <3>7 DEF Passes, check
    <2>2. CASE got["id"] # "INVT"
      <3>1. ElementSizeFits
        BY <1>3, <1>6, <2>2 DEF Fits, ElementSizeFits
      <3> QED
        BY <1>6, <3>1 DEF Passes, check
    <2> QED
      BY <2>1, <2>2
  <1>7. CASE check = "check_scores"
    BY <1>3, <1>7 DEF Fits, Passes, check
  <1>8. CASE check = "check_locators"
    BY <1>3, <1>8 DEF Fits, Passes, check
  <1>9. CASE check = "check_widths"
    <2>1. ASSUME got["id"] = "DSSQ", NEW i \in DOMAIN loaded
          PROVE  /\ loaded[i][1] = "section" => loaded[i][2] = got["sq_type"] + 1
                 /\ loaded[i][1] = "summary_width" /\ loaded[i - 1][2] > 0 =>
                      loaded[i][2] = got["sq_type"] + 1
      <3> DEFINE width == InnerOf(index).width
      <3>1. got["sq_type"] + 1 = width
        BY <1>3, <1>9, <2>1 DEF Fits
      <3>2. I \in Narrows(width)
        BY <1>1, ItemsAre DEF I
      <3> HIDE DEF width
      <3>3. i \in 1 .. k /\ i \in 1 .. Len(I) /\ loaded[i][1] = I[i].what /\ loaded[i][2] = I[i].value
        <4>1. DOMAIN loaded = 1 .. k /\ k \in 0 .. Len(I)
          BY <1>3 DEF First, I
        <4> QED
          BY <1>1, <1>3, <2>1, <4>1 DEF First
      <3>4. /\ I[i].what = "section" => I[i].value = width
            /\ I[i].what = "summary_width" => i > 1 /\ (I[i - 1].value > 0 => I[i].value = width)
        BY <3>2, <3>3 DEF Narrows
      <3>5. i > 1 => loaded[i - 1][2] = I[i - 1].value
        <4>1. i > 1 => i - 1 \in 1 .. k
          BY <3>3
        <4> QED
          BY <1>3, <4>1 DEF First
      <3> QED
        BY <3>1, <3>3, <3>4, <3>5
    <2>2. WidthsFit
      BY <2>1 DEF WidthsFit
    <2> QED
      BY <1>9, <2>2 DEF Passes, check
  <1> QED
    BY <1>4, <1>5, <1>6, <1>7, <1>8, <1>9 DEF check

LEMMA CheckStep == FileInv /\ Check => FileInv'
  <1> SUFFICES ASSUME FileInv, Check PROVE FileInv'
    OBVIOUS
  <1>1. /\ pc = "reading" /\ todo # <<>> /\ Head(todo).what \in Marks \ {"payload"}
        /\ index' = index /\ written' = written /\ present' = present /\ useMmap' = useMmap
        /\ borrows' = borrows /\ pos' = pos /\ eof' = eof
    BY DEF Check
  <1>2. \/ Passes(Head(todo).what) /\ todo' = Tail(todo) /\ pc' = pc /\ got' = got /\ loaded' = loaded
        \/ ~Passes(Head(todo).what) /\ pc' = "rejected" /\ todo' = todo
    BY DEF Check, Reject
  <1>3. /\ borrows \in BOOLEAN /\ eof \in BOOLEAN /\ pos \in Nat /\ (borrows => useMmap)
        /\ useMmap \in BOOLEAN /\ todo \in Seq(Expected) /\ (Synced \/ Astray)
    BY <1>1, ReadingIs
  <1>4. CASE Synced
    <2>1. index.id \in Writable /\ Items(index) \in Seq(Cells)
      BY <1>1, <1>4, ReadingIs DEF Synced
    <2>2. PICK k \in 0 .. Len(Items(index)) : InStep(k)
      BY <1>4 DEF Synced
    <2>3. CASE ~Passes(Head(todo).what) /\ pc' = "rejected" /\ todo' = todo
      <3>1. ~Full
        BY <1>1, <2>2, <2>3, CheckFits
      <3> QED
        BY <1>1, <1>3, <2>3, <3>1, Refused
    <2>4. CASE todo' = Tail(todo) /\ pc' = pc /\ got' = got /\ loaded' = loaded
      <3>1. Trace(k, index, Tail(todo), got, loaded)
        BY <1>1, <2>1, <2>2, TraceMark DEF InStep
      <3>2. Inside(Tail(todo)) => Inside(todo)
        <4>1. Head(todo) \in Expected /\ Tail(todo) \in Seq(Expected) /\ todo = Cons(Head(todo), Tail(todo))
          BY <1>1, <1>3, HeadTail
        <4>2. Head(todo).what \notin HeaderPlaces
          BY <1>1 DEF Marks, HeaderPlaces
        <4> QED
          BY <4>1, <4>2, InsideJoin
      <3>3. Inside(Tail(todo)) => Sited(got, borrows, useMmap, index)
        BY <2>2, <3>2 DEF InStep
      <3>4. InStep(k)'
        BY <1>1, <2>2, <2>4, <3>1, <3>3 DEF InStep
      <3>5. Synced'
        BY <1>1, <2>1, <3>4 DEF Synced
      <3> QED
        BY <1>1, <1>3, <2>4, <3>5, Onward
    <2> QED
      BY <1>2, <2>3, <2>4
  <1>5. CASE Astray
    <2>1. /\ Lost(todo, got, borrows, useMmap, index)
          /\ index.id \notin Writable \/ (eof /\ ~Complete(written, Items(index), present))
      BY <1>5 DEF Astray
    <2>2. CASE pc' = "rejected" /\ todo' = todo
      <3>1. ~Full
        BY <2>1 DEF Full
      <3> QED
        BY <1>1, <1>3, <2>2, <3>1, Refused
    <2>3. CASE Passes(Head(todo).what) /\ todo' = Tail(todo) /\ pc' = pc /\ got' = got /\ loaded' = loaded
      <3>1. Head(todo).what = "check_element_size" /\ got["id"] = "INVT" => got["posting_width"] = 4
        BY <2>3 DEF Passes, ElementSizeFits
      <3>2. Head(todo).what = "check_scores" => got["scores_size"] = got["n_term"]
        BY <2>3 DEF Passes
      <3>3. Lost(Tail(todo), got, borrows, useMmap, index)
        BY <1>1, <2>1, <3>1, <3>2, LostCheck
      <3>4. Astray'
        BY <1>1, <2>1, <2>3, <3>3 DEF Astray
      <3> QED
        BY <1>1, <1>3, <2>3, <3>4, Onward
    <2> QED
      BY <1>2, <2>2, <2>3
  <1> QED
    BY <1>3, <1>4, <1>5

LEMMA ReadDoneStep == FileInv /\ ReadDone => FileInv'
  <1> SUFFICES ASSUME FileInv, ReadDone PROVE FileInv'
    OBVIOUS
  <1>1. /\ pc = "reading" /\ todo = <<>> /\ pc' = "loaded"
        /\ index' = index /\ written' = written /\ present' = present /\ useMmap' = useMmap
        /\ borrows' = borrows /\ pos' = pos /\ eof' = eof /\ todo' = todo /\ got' = got /\ loaded' = loaded
    BY DEF ReadDone, readVars
  <1>2. /\ todo \in Seq(Expected) /\ (borrows => useMmap) /\ (Synced \/ Astray) /\ WriteInv
    BY <1>1, ReadingIs DEF FileInv
  <1>3. WriteInv'
    BY <1>1, <1>2 DEF WriteInv
  <1>4. Supports(index) /\ (Same \/ Legit(index, useMmap)) /\ (Full => Same)
    <2>1. CASE Synced
      <3>1. index.id \in Writable /\ Items(index) \in Seq(Cells)
        BY <1>1, <2>1, ReadingIs DEF Synced
      <3>2. PICK k \in 0 .. Len(Items(index)) : InStep(k)
        BY <2>1 DEF Synced
      <3>3. Trace(k, index, todo, got, loaded)
        BY <3>2 DEF InStep
      <3>4. k = Len(Items(index)) /\ Supports(index)
        BY <1>1, <3>1, <3>3, TraceIs
      <3>5. Same
        BY <3>1, <3>3, <3>4 DEF Trace, Same
      <3> QED
        BY <3>4, <3>5
    <2>2. CASE Astray
      <3>1. Legit(index, useMmap)
        BY <1>1, <2>2, LostEnd DEF Astray
      <3>2. ~Full
        BY <2>2 DEF Astray, Full
      <3> QED
        BY <3>1, <3>2 DEF Legit
    <2> QED
      BY <1>2, <2>1, <2>2
  <1>5. ReadInv'
    BY <1>1, <1>2, <1>4 DEF ReadInv, Same, Full
  <1> QED
    BY <1>3, <1>5 DEF FileInv

LEMMA FileStutter == FileInv /\ UNCHANGED fileVars => FileInv'
  <1> SUFFICES ASSUME FileInv, UNCHANGED fileVars PROVE FileInv'
    OBVIOUS
  <1>1. /\ pc' = pc /\ index' = index /\ toWrite' = toWrite /\ written' = written /\ pos' = pos
        /\ present' = present /\ useMmap' = useMmap /\ borrows' = borrows /\ eof' = eof
        /\ todo' = todo /\ got' = got /\ loaded' = loaded
    BY DEF fileVars
  <1>2. WriteInv'
    BY <1>1 DEF FileInv, WriteInv
  <1>3. (Synced <=> Synced') /\ (Astray <=> Astray')
    BY <1>1 DEF Synced, InStep, Astray
  <1>4. ReadInv'
    BY <1>1, <1>3 DEF FileInv, ReadInv, Full, Same
  <1> QED
    BY <1>2, <1>4 DEF FileInv

(* The writer stays as far as the file, the reader in step with the file or *)
(* on its way to being refused: whatever is saved, wherever the save stops  *)
(* and however the file is read.                                            *)
THEOREM FileInvHolds == FileSpec => []FileInv
  <1>1. FileInit => FileInv
    BY InitFile
  <1>2. FileInv /\ [FileNext]_fileVars => FileInv'
    <2> SUFFICES ASSUME FileInv, [FileNext]_fileVars PROVE FileInv'
      OBVIOUS
    <2>1. CASE Open
      BY <2>1, OpenStep
    <2>2. CASE WriteItem
      BY <2>2, WriteItemStep
    <2>3. CASE Stop
      BY <2>3, StopStep
    <2>4. CASE Close
      BY <2>4, CloseStep
    <2>5. CASE \E mmap \in BOOLEAN : ReadIndex(mmap)
      BY <2>5, ReadIndexStep
    <2>6. CASE ReadItem
      BY <2>6, ReadItemStep
    <2>7. CASE ReadNothing
      BY <2>7, ReadNothingStep
    <2>8. CASE ReadShort
      BY <2>8, ReadShortStep
    <2>9. CASE ChooseReader
      BY <2>9, ChooseReaderStep
    <2>10. CASE Check
      BY <2>10, CheckStep
    <2>11. CASE ReadDone
      BY <2>11, ReadDoneStep
    <2>12. CASE UNCHANGED fileVars
      BY <2>12, FileStutter
    <2> QED
      BY <2>1, <2>2, <2>3, <2>4, <2>5, <2>6, <2>7, <2>8, <2>9, <2>10, <2>11, <2>12 DEF FileNext
  <1> QED
    BY <1>1, <1>2, PTL DEF FileSpec

LEMMA InnerIs == Inner = InnerOf(index) /\ (Supported <=> Supports(index))
  <1>1. Inner = InnerOf(index)
    BY DEF Inner, InnerOf
  <1> QED
    BY <1>1 DEF Supported, Supports

LEMMA SameIs ==
  ASSUME FileInv, Same
  PROVE  AsSaved
  <1>1. index.id \in Writable /\ index \in Indexes /\ loaded = First(Items(index), Len(Items(index)))
    BY DEF FileInv, WriteInv, Same
  <1>2. Items(index) \in Seq(Cells)
    BY <1>1, ItemsAre
  <1>3. DOMAIN Items(index) = 1 .. Len(Items(index))
    BY <1>2
  <1> QED
    BY <1>1, <1>3 DEF AsSaved, First

LEMMA WholeIs ==
  ASSUME FileInv, Whole
  PROVE  Full
  <1>1. index.id \in Writable /\ index \in Indexes /\ LaidOut(written, Items(index))
    BY DEF Whole, FileInv, WriteInv
  <1>2. Len(Items(index)) >= 1 /\ Len(written) = Len(Items(index)) /\ written \in Seq(Pieces)
    BY <1>1, ItemsAre DEF Whole, LaidOut
  <1>3. Len(written) \in 1 .. Len(written) /\ Last(written) = written[Len(written)]
    BY <1>2 DEF Last
  <1>4. EndOf(written, Len(written)) = Last(written).at + Last(written).bytes
    BY <1>1, <1>3, Ends
  <1>5. present = EndOf(written, Len(written))
    BY <1>4 DEF Whole
  <1> QED
    BY <1>1, <1>2, <1>5 DEF Full, Complete

(* Every item that pad_to and write_padded put in a file starts at or after *)
(* the end of the one before, and the readers ask for no negative size.     *)
THEOREM FileIsWellTyped == FileSpec => []FileTypeOK
  <1>1. FileInv => FileTypeOK
    <2> SUFFICES ASSUME FileInv PROVE FileTypeOK
      OBVIOUS
    <2>1. /\ pc \in {"idle", "writing", "saved", "refused", "reading", "loaded", "rejected"}
          /\ index \in Indexes /\ pos \in Nat /\ present \in Nat /\ (borrows => useMmap)
      BY DEF FileInv, WriteInv, ReadInv
    <2>2. ASSUME NEW i \in DOMAIN written, i > 1
          PROVE  written[i].at >= written[i - 1].at + written[i - 1].bytes
      <3>1. index.id \in Writable
        BY <2>2 DEF FileInv, WriteInv
      <3>2. LaidOut(written, Items(index)) /\ written \in Seq(Pieces)
        BY <3>1 DEF FileInv, WriteInv, LaidOut
      <3>3. i \in 1 .. Len(written) /\ i - 1 # 0
        BY <2>2, <3>2
      <3>4. written[i].at >= EndOf(written, i - 1)
        BY <3>2, <3>3, Ends
      <3> QED
        BY <3>3, <3>4 DEF EndOf
    <2>3. \A i \in DOMAIN todo : todo[i].bytes \in Nat
      <3>1. todo \in Seq(Expected)
        BY DEF FileInv, ReadInv
      <3>2. \A i \in DOMAIN todo : todo[i] \in Expected
        BY <3>1
      <3> QED
        BY <3>2 DEF Expected
    <2> QED
      BY <2>1, <2>2, <2>3 DEF FileTypeOK
  <1> QED
    BY <1>1, FileInvHolds, PTL

(* write_index and read_index agree on every byte of a file: a file that is *)
(* all there loads, item by item as saved, whether it is copied or mapped,  *)
(* alone or inside an IDMapIndex; only a disk index that is not to be       *)
(* mapped is refused, and no read takes one item for another.               *)
THEOREM FileRoundTrips == FileSpec => []RoundTrip
  <1>1. FileInv => RoundTrip
    <2> SUFFICES ASSUME FileInv PROVE RoundTrip
      OBVIOUS
    <2>1. pc # "misread"
      BY DEF FileInv, WriteInv
    <2>2. ASSUME Whole, Supported
          PROVE  /\ pc = "rejected" => Inner.id \in MappedOnly /\ ~useMmap
                 /\ pc = "loaded" => AsSaved
      <3>1. Full /\ Supports(index) /\ Inner = InnerOf(index)
        BY <2>2, WholeIs, InnerIs
      <3>2. pc = "rejected" => InnerOf(index).id \in MappedOnly /\ ~useMmap
        BY <3>1 DEF FileInv, ReadInv
      <3>3. pc = "loaded" => Same
        BY <3>1 DEF FileInv, ReadInv
      <3> QED
        BY <3>1, <3>2, <3>3, SameIs
    <2> QED
      BY <2>1, <2>2 DEF RoundTrip
  <1> QED
    BY <1>1, FileInvHolds, PTL

(* What a save that stopped leaves, and a file of another version, is not   *)
(* taken for an index by a mapped read nor by a copying read of an inverted *)
(* index: read_owned, the cursor and the checks of the payload's reader     *)
(* find out.                                                                *)
THEOREM LoadedIsWhole == FileSpec => []WholeOrRejected
  <1>1. FileInv => WholeOrRejected
    <2> SUFFICES ASSUME FileInv, pc = "loaded"
                 PROVE  Supported /\ (AsSaved \/ (~useMmap /\ Inner.id \in {"SEIS", "SESQ"}))
      BY DEF WholeOrRejected
    <2>1. Supports(index) /\ (Same \/ Legit(index, useMmap))
      BY DEF FileInv, ReadInv
    <2>2. Same => AsSaved
      BY SameIs
    <2>3. Legit(index, useMmap) => ~useMmap /\ InnerOf(index).id \in {"SEIS", "SESQ"}
      BY DEF Legit
    <2> QED
      BY <2>1, <2>2, <2>3, InnerIs
  <1> QED
    BY <1>1, FileInvHolds, PTL
=============================================================================
