----------------------- MODULE DiskSeismicIndexProofs -----------------------
(***************************************************************************)
(* A disk index through its life, for every number of lists, blocks and    *)
(* documents: what it ranks a block by is what it scores, the directory of *)
(* a file leads to every document, and what is saved loads.                *)
(*                                                                         *)
(* An index that was not filled after it was loaded has its blocks in one  *)
(* place: in the lists, over its own corpus, or in the file.  The          *)
(* invariant says of the file what a load will ask of it.                  *)
(*                                                                         *)
(* The second part is about the inline forward index, the section such an  *)
(* index has its blocks in: for every corpus, lists, element size, page    *)
(* size and place in the stream, blocks are found where they were put, and *)
(* of a damaged section nothing is read outside of what is mapped.         *)
(***************************************************************************)
EXTENDS DiskSeismicIndex, InlineForward, DataTheorems

(* The corpus there is to save. *)
Vs == IF vectors = Nothing THEN <<>> ELSE vectors

Entry == [id : 0 .. MaxDocs - 1, doc : Docs]

(* Lists, each a sequence of blocks. *)
Listing(ls) == DOMAIN ls \subseteq Nat /\ \A l \in DOMAIN ls : ls[l] \in Seq(Blocks)

(* A list's blocks hold documents there are.                                *)
Within(ls, vs) ==
  \A l \in DOMAIN ls : \A b \in DOMAIN ls[l] : \A i \in DOMAIN ls[l][b].docs :
    ls[l][b].docs[i] \in Ids(vs)

(* The blocks f of a file are those the summaries ls were made from.        *)
Matches(ls, f) ==
  \A l \in DOMAIN ls : \A b \in DOMAIN ls[l] :
    l \in DOMAIN f /\ b \in DOMAIN f[l] /\ f[l][b] = ls[l][b].of

(* The lists ls were built from the corpus vs.                              *)
BuiltFrom(ls, vs) ==
  \A l \in DOMAIN ls : \A b \in DOMAIN ls[l] : ls[l][b].of = Held(ls[l][b].docs, vs)

NoBlocks(ls) == \A l \in DOMAIN ls : DOMAIN ls[l] = {}

(* The directory: where loc leads, in the blocks f and the rows r.          *)
Leads(loc, r, f, id, d) ==
  \/ \E i \in DOMAIN r : loc = [row |-> i] /\ r[i] = d
  \/ \E l \in DOMAIN f : \E b \in DOMAIN f[l] : \E s \in DOMAIN f[l][b] :
       loc = [place |-> <<l, b, s>>] /\ f[l][b][s] = [id |-> id, doc |-> d]

Directory(locs, r, f, vs) ==
  Len(locs) = Len(vs) /\ \A id \in Ids(vs) : Leads(locs[id + 1], r, f, id, vs[id + 1])

TypeInv ==
  /\ vectors \in Seq(Docs) \union {Nothing}
  /\ borrowed \in BOOLEAN /\ fresh \in BOOLEAN /\ mixed \in BOOLEAN
  /\ added \in 0 .. MaxDocs
  /\ Listing(lists)
  /\ \A l \in DOMAIN fwd : fwd[l] \in Seq(Seq(Entry))
  /\ remainder \in Seq(Docs)
  /\ corpus \in Seq(Docs) /\ Len(corpus) <= MaxDocs

(* The count kept by hand is that of the corpus, which is vectors_ if there *)
(* are any.                                                                 *)
CountInv ==
  /\ num = Len(corpus)
  /\ vectors # Nothing => corpus = vectors /\ Len(vectors) <= added
  /\ Within(lists, Vs)

(* An index has a corpus or was loaded, and its blocks are found in one or  *)
(* the other.                                                               *)
RankInv ==
  /\ locators = Nothing => fwd = <<>>
  /\ ~mixed =>
       /\ num = 0 => NoBlocks(lists)
       /\ IF locators = Nothing
            THEN BuiltFrom(lists, Vs) /\ (vectors = Nothing => NoBlocks(lists))
            ELSE /\ vectors = Nothing /\ Matches(lists, fwd)
                 /\ Directory(locators, remainder, fwd, corpus)

FileInv ==
  file # Nothing =>
    /\ file.num = Len(file.corpus) /\ file.num <= MaxDocs
    /\ file.corpus \in Seq(Docs) /\ file.mixed \in BOOLEAN
    /\ Listing(file.lists)
    /\ \A l \in DOMAIN file.lists : \A b \in DOMAIN file.lists[l] : file.lists[l][b].docs = <<>>
    /\ \A l \in DOMAIN file.fwd : file.fwd[l] \in Seq(Seq(Entry))
    /\ file.remainder \in Seq(Docs) /\ file.locators \in Seq(Locator)
    /\ ~file.hollow => Loadable(file)
    /\ ~file.mixed /\ Loadable(file) =>
         /\ file.num = 0 => NoBlocks(file.lists)
         /\ Matches(file.lists, file.fwd)
         /\ Directory(file.locators, file.remainder, file.fwd, file.corpus)

IInv == TypeInv /\ CountInv /\ RankInv /\ FileInv
-----------------------------------------------------------------------------
(* The directory. *)

(* Of several places there is one before the others.                        *)
LEMMA FirstPlace ==
  ASSUME NEW P, P \subseteq Nat \X Nat \X Nat, P # {}
  PROVE  \E p \in P : \A q \in P \ {p} : Before(p, q)
<1>1. PICK a \in {p[1] : p \in P} : \A b \in {p[1] : p \in P} : a <= b
  <2>1. {p[1] : p \in P} \subseteq Nat /\ {p[1] : p \in P} # {}
    OBVIOUS
  <2> QED
    BY <2>1, LeastNatural
<1> DEFINE Q == {p \in P : p[1] = a}
<1>2. PICK b \in {p[2] : p \in Q} : \A c \in {p[2] : p \in Q} : b <= c
  <2>1. {p[2] : p \in Q} \subseteq Nat /\ {p[2] : p \in Q} # {}
    BY <1>1
  <2> QED
    BY <2>1, LeastNatural
<1> DEFINE R == {p \in Q : p[2] = b}
<1>3. PICK c \in {p[3] : p \in R} : \A d \in {p[3] : p \in R} : c <= d
  <2>1. {p[3] : p \in R} \subseteq Nat /\ {p[3] : p \in R} # {}
    BY <1>2
  <2> QED
    BY <2>1, LeastNatural
<1>4. PICK p \in R : p[3] = c
  OBVIOUS
<1>5. ASSUME NEW q \in P \ {p}
      PROVE  Before(p, q)
  <2>1. p[1] \in Nat /\ p[2] \in Nat /\ p[3] \in Nat /\ q[1] \in Nat /\ q[2] \in Nat /\ q[3] \in Nat
    OBVIOUS
  <2>2. p[1] <= q[1]
    BY <1>1
  <2>3. q[1] = p[1] => p[2] <= q[2]
    BY <1>2
  <2>4. q[1] = p[1] /\ q[2] = p[2] => p[3] <= q[3]
    BY <1>3, <1>4
  <2>5. ~(q[1] = p[1] /\ q[2] = p[2] /\ q[3] = p[3])
    <3>1. p = <<p[1], p[2], p[3]>> /\ q = <<q[1], q[2], q[3]>>
      OBVIOUS
    <3> QED
      BY <3>1
  <2> QED
    BY <2>1, <2>2, <2>3, <2>4, <2>5 DEF Before
<1> QED
  BY <1>4, <1>5

(* An id in a block has a first place in the blocks; one in none has a row. *)
LEMMA LocatorFits ==
  ASSUME NEW ls, Listing(ls), NEW vs \in Seq(Docs), Len(vs) <= MaxDocs, NEW id \in Ids(vs)
  PROVE  \/ /\ Places(ls, id) = {}
            /\ \E r \in DOMAIN Uncovered(ls, vs) :
                 Locators(ls, vs)[id + 1] = [row |-> r] /\ Uncovered(ls, vs)[r] = id
         \/ \E p \in Places(ls, id) : Locators(ls, vs)[id + 1] = [place |-> p]
<1>1. Len(vs) \in Nat /\ id \in 0 .. MaxDocs /\ id + 1 \in 1 .. Len(vs) /\ id + 1 - 1 = id
  BY BoundsAssumption DEF Ids
<1>2. CASE Places(ls, id) = {}
  <2>1. Ids(vs) \subseteq 0 .. MaxDocs /\ MaxDocs \in Nat
    BY <1>1, BoundsAssumption DEF Ids
  <2>2. \E r \in DOMAIN Uncovered(ls, vs) : Uncovered(ls, vs)[r] = id
    <3>1. id \in {i \in Ids(vs) : Places(ls, i) = {}}
      BY <1>2
    <3>2. {i \in Ids(vs) : Places(ls, i) = {}} \subseteq 0 .. MaxDocs
      BY <2>1
    <3> QED
      BY <2>1, <3>1, <3>2, AscendingHasAll DEF Uncovered
  <2> DEFINE r == CHOOSE r \in DOMAIN Uncovered(ls, vs) : Uncovered(ls, vs)[r] = id
  <2>3. r \in DOMAIN Uncovered(ls, vs) /\ Uncovered(ls, vs)[r] = id
    BY <2>2
  <2>4. Locators(ls, vs)[id + 1] = [row |-> r]
    BY <1>1, <1>2 DEF Locators
  <2> HIDE DEF r
  <2> QED
    BY <1>2, <2>3, <2>4
<1>3. CASE Places(ls, id) # {}
  <2>1. Places(ls, id) \subseteq Nat \X Nat \X Nat
    BY BoundsAssumption DEF Places, Listing
  <2> DEFINE p == First(Places(ls, id))
  <2>2. p \in Places(ls, id)
    <3>1. \E q \in Places(ls, id) : \A t \in Places(ls, id) \ {q} : Before(q, t)
      BY <1>3, <2>1, FirstPlace
    <3> QED
      BY <3>1 DEF First
  <2>3. Locators(ls, vs)[id + 1] = [place |-> p]
    BY <1>1, <1>3 DEF Locators
  <2> HIDE DEF p
  <2> QED
    BY <2>2, <2>3
<1> QED
  BY <1>2, <1>3
-----------------------------------------------------------------------------
(* Blocks. *)

(* A block of a list is one.                                                *)
LEMMA BlockParts ==
  ASSUME NEW ls, Listing(ls), NEW l \in DOMAIN ls, NEW b \in DOMAIN ls[l]
  PROVE  /\ b \in Nat /\ Len(ls[l]) \in Nat /\ DOMAIN ls[l] = 1 .. Len(ls[l])
         /\ ls[l][b] \in Blocks
         /\ ls[l][b].docs \in Seq(0 .. MaxDocs - 1) /\ ls[l][b].of \in Seq(Entry)
<1>1. ls[l] \in Seq(Blocks)
  BY DEF Listing
<1>2. ls[l][b] \in Blocks
  BY <1>1
<1> QED
  BY <1>1, <1>2 DEF Blocks, Entry

(* What a block holds of documents there are.                               *)
LEMMA HeldType ==
  ASSUME NEW vs \in Seq(Docs), Len(vs) <= MaxDocs, NEW ids \in Seq(0 .. MaxDocs - 1),
         \A i \in DOMAIN ids : ids[i] \in Ids(vs)
  PROVE  Held(ids, vs) \in Seq(Entry)
<1>1. ASSUME NEW i \in DOMAIN ids
      PROVE  [id |-> ids[i], doc |-> vs[ids[i] + 1]] \in Entry
  <2>1. Len(vs) \in Nat /\ ids[i] \in 0 .. Len(vs) - 1 /\ MaxDocs \in Nat
    BY BoundsAssumption DEF Ids
  <2>2. ids[i] \in 0 .. MaxDocs - 1 /\ ids[i] + 1 \in 1 .. Len(vs)
    BY <2>1
  <2>3. vs[ids[i] + 1] \in Docs
    BY <2>2
  <2> QED
    BY <2>2, <2>3 DEF Entry
<1>2. DOMAIN ids = 1 .. Len(ids) /\ Len(ids) \in Nat
  OBVIOUS
<1> DEFINE e(i) == [id |-> ids[i], doc |-> vs[ids[i] + 1]]
<1>3. Held(ids, vs) = [i \in 1 .. Len(ids) |-> e(i)]
  BY <1>2 DEF Held
<1>4. \A i \in 1 .. Len(ids) : e(i) \in Entry
  BY <1>1, <1>2
<1> HIDE DEF e
<1>5. [i \in 1 .. Len(ids) |-> e(i)] \in [1 .. Len(ids) -> Entry]
  BY <1>4
<1>6. [i \in 1 .. Len(ids) |-> e(i)] \in Seq(Entry)
  BY <1>2, <1>5
<1> QED
  BY <1>3, <1>6

(* A longer corpus has the same documents.                                  *)
LEMMA HeldStays ==
  ASSUME NEW vs \in Seq(Docs), NEW ws \in Seq(Docs), NEW ids,
         \A i \in DOMAIN ids : ids[i] \in Ids(vs)
  PROVE  Held(ids, vs \o ws) = Held(ids, vs)
<1>1. ASSUME NEW i \in DOMAIN ids
      PROVE  (vs \o ws)[ids[i] + 1] = vs[ids[i] + 1]
  <2>1. ids[i] \in 0 .. Len(vs) - 1 /\ Len(vs) \in Nat
    BY DEF Ids
  <2>2. ids[i] + 1 \in 1 .. Len(vs)
    BY <2>1
  <2> QED
    BY <2>2
<1> QED
  BY <1>1 DEF Held

(* The blocks of a file.                                                    *)
LEMMA ForwardType ==
  ASSUME NEW ls, Listing(ls), NEW vs \in Seq(Docs), Len(vs) <= MaxDocs, Within(ls, vs)
  PROVE  /\ DOMAIN Forward(ls, vs) = DOMAIN ls
         /\ \A l \in DOMAIN ls : Forward(ls, vs)[l] \in Seq(Seq(Entry))
         /\ \A l \in DOMAIN ls : DOMAIN Forward(ls, vs)[l] = DOMAIN ls[l]
         /\ \A l \in DOMAIN ls : \A b \in DOMAIN ls[l] :
              Forward(ls, vs)[l][b] = Held(ls[l][b].docs, vs)
<1>1. ASSUME NEW l \in DOMAIN ls
      PROVE  /\ Forward(ls, vs)[l] = [b \in DOMAIN ls[l] |-> Held(ls[l][b].docs, vs)]
             /\ Forward(ls, vs)[l] \in Seq(Seq(Entry))
  <2>1. Forward(ls, vs)[l] = [b \in DOMAIN ls[l] |-> Held(ls[l][b].docs, vs)]
    BY DEF Forward
  <2>2. ASSUME NEW b \in DOMAIN ls[l]
        PROVE  Held(ls[l][b].docs, vs) \in Seq(Entry)
    <3>1. ls[l][b].docs \in Seq(0 .. MaxDocs - 1)
      BY BlockParts
    <3>3. \A i \in DOMAIN ls[l][b].docs : ls[l][b].docs[i] \in Ids(vs)
      BY DEF Within
    <3> QED
      BY <3>1, <3>3, HeldType
  <2>3. ls[l] \in Seq(Blocks)
    BY DEF Listing
  <2>4. DOMAIN ls[l] = 1 .. Len(ls[l]) /\ Len(ls[l]) \in Nat
    BY <2>3
  <2>5. Forward(ls, vs)[l] \in [1 .. Len(ls[l]) -> Seq(Entry)]
    BY <2>1, <2>2, <2>4
  <2> QED
    BY <2>1, <2>4, <2>5
<1>2. DOMAIN Forward(ls, vs) = DOMAIN ls
  BY DEF Forward
<1> QED
  BY <1>1, <1>2

(* The rows of no block.                                                    *)
Rest(ls, vs) == LET ids == Uncovered(ls, vs) IN [r \in DOMAIN ids |-> vs[ids[r] + 1]]

LEMMA UncoveredType ==
  ASSUME NEW ls, NEW vs \in Seq(Docs), Len(vs) <= MaxDocs
  PROVE  Uncovered(ls, vs) \in Seq(Ids(vs)) /\ Rest(ls, vs) \in Seq(Docs)
<1> DEFINE S == {id \in Ids(vs) : Places(ls, id) = {}}
<1>1. S \subseteq 0 .. MaxDocs /\ MaxDocs \in Nat /\ S \subseteq Ids(vs)
  BY BoundsAssumption DEF Ids
<1>2. Ascending(S) \in Seq(S)
  BY <1>1, AscendingHasAll
<1>3. Uncovered(ls, vs) \in Seq(Ids(vs))
  BY <1>1, <1>2 DEF Uncovered
<1> DEFINE u == Uncovered(ls, vs)
<1> HIDE DEF u
<1>4. u \in Seq(Ids(vs)) /\ Rest(ls, vs) = [r \in DOMAIN u |-> vs[u[r] + 1]]
  BY <1>3 DEF u, Rest
<1>5. ASSUME NEW r \in DOMAIN u
      PROVE  vs[u[r] + 1] \in Docs
  <2>1. u[r] \in Ids(vs)
    BY <1>4
  <2>2. u[r] + 1 \in 1 .. Len(vs)
    BY <2>1 DEF Ids
  <2> QED
    BY <2>2
<1>6. Rest(ls, vs) \in [1 .. Len(u) -> Docs] /\ Len(u) \in Nat
  BY <1>4, <1>5
<1>7. Rest(ls, vs) \in Seq(Docs)
  BY <1>6
<1> QED
  BY <1>3, <1>7

(* The directory of a corpus leads to each of its documents.                *)
LEMMA DirectoryFits ==
  ASSUME NEW ls, Listing(ls), NEW vs \in Seq(Docs), Len(vs) <= MaxDocs, Within(ls, vs)
  PROVE  /\ Locators(ls, vs) \in Seq(Locator)
         /\ Len(Locators(ls, vs)) = Len(vs)
         /\ Directory(Locators(ls, vs), Rest(ls, vs), Forward(ls, vs), vs)
<1> DEFINE L == Locators(ls, vs)
           R == Rest(ls, vs)
           F == Forward(ls, vs)
           u == Uncovered(ls, vs)
<1>1. ASSUME NEW id \in Ids(vs)
      PROVE  L[id + 1] \in Locator /\ Leads(L[id + 1], R, F, id, vs[id + 1])
  <2>1. CASE \E r \in DOMAIN u : L[id + 1] = [row |-> r] /\ u[r] = id
    <3>1. PICK r \in DOMAIN u : L[id + 1] = [row |-> r] /\ u[r] = id
      BY <2>1
    <3>2. r \in Nat /\ r \in DOMAIN R /\ R[r] = vs[id + 1]
      BY <3>1, UncoveredType DEF Rest
    <3> QED
      BY <3>1, <3>2 DEF Leads, Locator
  <2>2. CASE \E p \in Places(ls, id) : L[id + 1] = [place |-> p]
    <3>1. PICK p \in Places(ls, id) : L[id + 1] = [place |-> p]
      BY <2>2
    <3>2. /\ p \in Nat \X Nat \X Nat /\ p = <<p[1], p[2], p[3]>>
          /\ p[1] \in DOMAIN ls /\ p[2] \in DOMAIN ls[p[1]]
          /\ p[3] \in DOMAIN ls[p[1]][p[2]].docs /\ ls[p[1]][p[2]].docs[p[3]] = id
      BY BoundsAssumption DEF Places, Listing
    <3>3. /\ p[1] \in DOMAIN F /\ p[2] \in DOMAIN F[p[1]]
          /\ F[p[1]][p[2]] = Held(ls[p[1]][p[2]].docs, vs)
      BY <3>2, ForwardType
    <3>4. /\ p[3] \in DOMAIN F[p[1]][p[2]]
          /\ F[p[1]][p[2]][p[3]] = [id |-> id, doc |-> vs[id + 1]]
      BY <3>2, <3>3 DEF Held
    <3>5. L[id + 1] = [place |-> <<p[1], p[2], p[3]>>]
      BY <3>1, <3>2
    <3>6. L[id + 1] \in Locator
      BY <3>1, <3>2 DEF Locator
    <3> HIDE DEF L, R, F
    <3> QED
      BY <3>3, <3>4, <3>5, <3>6 DEF Leads
  <2> QED
    BY <2>1, <2>2, LocatorFits
<1>2. Len(vs) \in Nat /\ L \in [1 .. Len(vs) -> Locator]
  <2>1. L = [i \in 1 .. Len(vs) |-> L[i]]
    BY DEF Locators
  <2>2. ASSUME NEW i \in 1 .. Len(vs)
        PROVE  L[i] \in Locator
    <3>1. i - 1 \in Ids(vs) /\ i - 1 + 1 = i
      BY DEF Ids
    <3> QED
      BY <1>1, <3>1
  <2> HIDE DEF L
  <2> QED
    BY <2>1, <2>2
<1>3. L \in Seq(Locator) /\ Len(L) = Len(vs)
  BY <1>2
<1> HIDE DEF L, R, F
<1>4. Directory(L, R, F, vs)
  BY <1>1, <1>3 DEF Directory
<1> QED
  BY <1>3, <1>4 DEF L, R, F
-----------------------------------------------------------------------------
(* What a build makes. *)

(* A block of the corpus vs: documents there are, and what it was made from.*)
LEMMA BlockFits ==
  ASSUME NEW vs \in Seq(Docs), Len(vs) <= MaxDocs, NEW S \in SUBSET Ids(vs)
  PROVE  /\ [docs |-> Ascending(S), of |-> Held(Ascending(S), vs)] \in Blocks
         /\ \A i \in DOMAIN Ascending(S) : Ascending(S)[i] \in Ids(vs)
<1> DEFINE a == Ascending(S)
<1>1. S \subseteq 0 .. MaxDocs /\ MaxDocs \in Nat
  BY BoundsAssumption DEF Ids
<1>2. a \in Seq(S)
  BY <1>1, AscendingHasAll
<1> HIDE DEF a
<1>3. \A i \in DOMAIN a : a[i] \in Ids(vs)
  BY <1>2
<1>4. Ids(vs) \subseteq 0 .. MaxDocs - 1
  BY <1>1 DEF Ids
<1>5. a \in Seq(0 .. MaxDocs - 1)
  <2>1. \A i \in 1 .. Len(a) : a[i] \in 0 .. MaxDocs - 1
    BY <1>2, <1>3, <1>4
  <2>2. a = [i \in 1 .. Len(a) |-> a[i]]
    BY <1>2
  <2>3. a \in [1 .. Len(a) -> 0 .. MaxDocs - 1]
    BY <2>1, <2>2
  <2> DEFINE n == Len(a)
             X == 0 .. MaxDocs - 1
  <2>4. n \in Nat /\ a \in [1 .. n -> X]
    BY <1>2, <2>3
  <2> HIDE DEF n, X
  <2>5. a \in Seq(X)
    BY <2>4
  <2> QED
    BY <2>5 DEF X
<1>6. Held(a, vs) \in Seq(Entry)
  BY <1>3, <1>5, HeldType
<1>7. [docs |-> a, of |-> Held(a, vs)] \in Blocks
  BY <1>5, <1>6 DEF Blocks, Entry
<1> QED
  BY <1>3, <1>7 DEF a

LEMMA ListsFit ==
  ASSUME NEW vs \in Seq(Docs), Len(vs) <= MaxDocs, NEW ls \in ListsOf(vs)
  PROVE  Listing(ls) /\ Within(ls, vs) /\ BuiltFrom(ls, vs) /\ (Len(vs) = 0 => NoBlocks(ls))
<1> DEFINE blockings == {b \in UNION {[1 .. n -> (SUBSET Ids(vs)) \ {{}}] : n \in 0 .. MaxBlocks} :
                           \A i, j \in DOMAIN b : i # j => b[i] \intersect b[j] = {}}
           block(S)  == LET ids == Ascending(S) IN [docs |-> ids, of |-> Held(ids, vs)]
<1>1. ls \in [1 .. Dim -> {[i \in DOMAIN b |-> block(b[i])] : b \in blockings}]
  BY DEF ListsOf
<1>2. DOMAIN ls = 1 .. Dim /\ DOMAIN ls \subseteq Nat
  BY <1>1, DimAssumption
<1>3. ASSUME NEW l \in DOMAIN ls
      PROVE  /\ ls[l] \in Seq(Blocks)
             /\ \A b \in DOMAIN ls[l] : \E S \in SUBSET Ids(vs) :
                  S # {} /\ ls[l][b] = [docs |-> Ascending(S), of |-> Held(Ascending(S), vs)]
  <2>1. ls[l] \in {[i \in DOMAIN b |-> block(b[i])] : b \in blockings}
    BY <1>1, <1>2
  <2>2. PICK b \in blockings : ls[l] = [i \in DOMAIN b |-> block(b[i])]
    BY <2>1
  <2>3. PICK n \in 0 .. MaxBlocks : b \in [1 .. n -> (SUBSET Ids(vs)) \ {{}}]
    BY <2>2
  <2>4. n \in Nat
    BY <2>3, BoundsAssumption
  <2>5. ASSUME NEW i \in 1 .. n
        PROVE  /\ b[i] \in SUBSET Ids(vs) /\ b[i] # {}
               /\ ls[l][i] = [docs |-> Ascending(b[i]), of |-> Held(Ascending(b[i]), vs)]
               /\ ls[l][i] \in Blocks
    <3>1. b[i] \in SUBSET Ids(vs) /\ b[i] # {}
      <4>1. b[i] \in (SUBSET Ids(vs)) \ {{}}
        BY <2>3
      <4> HIDE DEF blockings, block
      <4> QED
        BY <4>1
    <3>2. ls[l][i] = block(b[i])
      BY <2>2, <2>3
    <3> QED
      BY <3>1, <3>2, BlockFits
  <2>6. DOMAIN ls[l] = 1 .. n /\ ls[l] = [i \in 1 .. n |-> ls[l][i]]
    <3> HIDE DEF block
    <3> QED
      BY <2>2, <2>3
  <2>7. ls[l] \in [1 .. n -> Blocks]
    BY <2>5, <2>6
  <2> QED
    BY <2>4, <2>5, <2>6, <2>7
<1>4. Listing(ls)
  BY <1>2, <1>3 DEF Listing
<1>5. Within(ls, vs)
  <2> SUFFICES ASSUME NEW l \in DOMAIN ls, NEW b \in DOMAIN ls[l], NEW i \in DOMAIN ls[l][b].docs
               PROVE  ls[l][b].docs[i] \in Ids(vs)
    BY DEF Within
  <2>1. PICK S \in SUBSET Ids(vs) :
          ls[l][b] = [docs |-> Ascending(S), of |-> Held(Ascending(S), vs)]
    BY <1>3
  <2>2. ls[l][b].docs = Ascending(S)
    BY <2>1
  <2> QED
    BY <2>2, BlockFits
<1>6. BuiltFrom(ls, vs)
  <2> SUFFICES ASSUME NEW l \in DOMAIN ls, NEW b \in DOMAIN ls[l]
               PROVE  ls[l][b].of = Held(ls[l][b].docs, vs)
    BY DEF BuiltFrom
  <2>1. PICK S \in SUBSET Ids(vs) :
          ls[l][b] = [docs |-> Ascending(S), of |-> Held(Ascending(S), vs)]
    BY <1>3
  <2> QED
    BY <2>1
<1>7. ASSUME Len(vs) = 0
      PROVE  NoBlocks(ls)
  <2>1. Ids(vs) = {}
    BY <1>7 DEF Ids
  <2>2. ASSUME NEW l \in DOMAIN ls, NEW b \in DOMAIN ls[l]
        PROVE  FALSE
    BY <1>3, <2>1
  <2> QED
    BY <2>2 DEF NoBlocks
<1> QED
  BY <1>4, <1>5, <1>6, <1>7

(* Lists without their documents.                                           *)
LEMMA BareFits ==
  ASSUME NEW ls, Listing(ls)
  PROVE  /\ Listing(Bare(ls))
         /\ DOMAIN Bare(ls) = DOMAIN ls
         /\ \A l \in DOMAIN ls : DOMAIN Bare(ls)[l] = DOMAIN ls[l]
         /\ \A l \in DOMAIN ls : \A b \in DOMAIN ls[l] :
              Bare(ls)[l][b].docs = <<>> /\ Bare(ls)[l][b].of = ls[l][b].of
<1>1. DOMAIN Bare(ls) = DOMAIN ls
  BY DEF Bare
<1>2. ASSUME NEW l \in DOMAIN ls
      PROVE  Bare(ls)[l] = [b \in DOMAIN ls[l] |-> [docs |-> <<>>, of |-> ls[l][b].of]]
  BY DEF Bare
<1>3. ASSUME NEW l \in DOMAIN ls, NEW b \in DOMAIN ls[l]
      PROVE  /\ Bare(ls)[l][b] = [docs |-> <<>>, of |-> ls[l][b].of]
             /\ Bare(ls)[l][b] \in Blocks
  <2>1. Bare(ls)[l][b] = [docs |-> <<>>, of |-> ls[l][b].of]
    BY <1>2
  <2>2. ls[l][b].of \in Seq(Entry) /\ <<>> \in Seq(0 .. MaxDocs - 1)
    BY BlockParts
  <2> QED
    BY <2>1, <2>2 DEF Blocks, Entry
<1>4. ASSUME NEW l \in DOMAIN ls
      PROVE  Bare(ls)[l] \in Seq(Blocks)
  <2>1. DOMAIN ls[l] = 1 .. Len(ls[l]) /\ Len(ls[l]) \in Nat
    <3>1. ls[l] \in Seq(Blocks)
      BY DEF Listing
    <3> QED
      BY <3>1
  <2>2. Bare(ls)[l] \in [1 .. Len(ls[l]) -> Blocks]
    <3>1. Bare(ls)[l] = [b \in 1 .. Len(ls[l]) |-> Bare(ls)[l][b]]
      BY <1>2, <2>1
    <3> QED
      BY <1>3, <2>1, <3>1
  <2> QED
    BY <2>1, <2>2
<1>5. Listing(Bare(ls))
  BY <1>1, <1>4 DEF Listing
<1>6. \A l \in DOMAIN ls : DOMAIN Bare(ls)[l] = DOMAIN ls[l]
  BY <1>2
<1>7. \A l \in DOMAIN ls : \A b \in DOMAIN ls[l] :
        Bare(ls)[l][b].docs = <<>> /\ Bare(ls)[l][b].of = ls[l][b].of
  <2> SUFFICES ASSUME NEW l \in DOMAIN ls, NEW b \in DOMAIN ls[l]
               PROVE  Bare(ls)[l][b].docs = <<>> /\ Bare(ls)[l][b].of = ls[l][b].of
    OBVIOUS
  <2>1. Bare(ls)[l][b] = [docs |-> <<>>, of |-> ls[l][b].of]
    BY <1>3
  <2> QED
    BY <2>1
<1> QED
  BY <1>1, <1>5, <1>6, <1>7
-----------------------------------------------------------------------------
(* The invariant. *)

(* A corpus is none of the other things.                                    *)
LEMMA CorpusIsThere == \A vs \in Seq(Docs) : vs # Nothing
<1> SUFFICES ASSUME NEW vs \in Seq(Docs)
             PROVE  vs # Nothing
  OBVIOUS
<1>1. \A i \in 1 .. Len(vs) : vs[i] \in Nat
  <2>1. ASSUME NEW i \in 1 .. Len(vs)
        PROVE  vs[i] \in Nat
    <3>1. vs[i] \in Docs
      OBVIOUS
    <3> QED
      BY <3>1 DEF Docs
  <2> QED
    BY <2>1
<1>2. vs = [i \in 1 .. Len(vs) |-> vs[i]]
  OBVIOUS
<1>3. vs \in [1 .. Len(vs) -> Nat]
  BY <1>1, <1>2
<1>4. Len(vs) \in Nat
  OBVIOUS
<1> DEFINE n == Len(vs)
<1>5. n \in Nat /\ vs \in [1 .. n -> Nat]
  BY <1>3, <1>4
<1> HIDE DEF n
<1>6. vs \in Seq(Nat)
  BY <1>5
<1> QED
  BY <1>6, NothingAssumption

LEMMA SavedCorpus ==
  ASSUME TypeInv, CountInv
  PROVE  Vs \in Seq(Docs) /\ Len(Vs) \in Nat /\ Len(Vs) <= MaxDocs
<1>1. CASE vectors = Nothing
  BY <1>1, BoundsAssumption DEF Vs
<1>2. CASE vectors # Nothing
  BY <1>2, BoundsAssumption DEF Vs, TypeInv, CountInv
<1> QED
  BY <1>1, <1>2

LEMMA InitIInv == Init => IInv
<1> SUFFICES ASSUME Init
             PROVE  IInv
  OBVIOUS
<1>1. TypeInv
  <2>1. DOMAIN lists = {} /\ DOMAIN fwd = {}
    BY DEF Init
  <2>2. Listing(lists) /\ \A l \in DOMAIN fwd : fwd[l] \in Seq(Seq(Entry))
    BY <2>1 DEF Listing
  <2>3. remainder \in Seq(Docs) /\ corpus \in Seq(Docs) /\ Len(corpus) = 0
    BY DEF Init
  <2>4. added \in 0 .. MaxDocs /\ Len(corpus) <= MaxDocs
    BY <2>3, BoundsAssumption DEF Init
  <2> QED
    BY <2>2, <2>3, <2>4 DEF Init, TypeInv
<1>2. CountInv
  BY DEF Init, CountInv, Within
<1>3. RankInv
  BY DEF Init, RankInv, NoBlocks, BuiltFrom
<1>4. FileInv
  BY DEF Init, FileInv
<1> QED
  BY <1>1, <1>2, <1>3, <1>4 DEF IInv

(* More documents: what there was is still the start of the corpus.         *)
LEMMA GrowKeeps ==
  ASSUME NEW n \in 1 .. MaxDocs - added, NEW ws \in Seq(Docs),
         IInv,
         vectors' \in Seq(Docs), Len(vectors') = Len(Vs) + n, num' = Len(vectors'),
         vectors # Nothing => vectors' = vectors \o ws,
         borrowed' \in BOOLEAN, Grown, UNCHANGED <<lists, mappedVars, file>>
  PROVE  IInv'
<1>1. TypeInv /\ CountInv /\ RankInv /\ FileInv
  BY DEF IInv
<1>2. added \in Nat /\ n \in Nat /\ 1 <= n /\ added + n <= MaxDocs /\ MaxDocs \in Nat
  BY <1>1, BoundsAssumption DEF TypeInv
<1>3. Vs \in Seq(Docs) /\ Len(Vs) \in Nat /\ Len(Vs) <= added
  <2>1. CASE vectors = Nothing
    BY <1>2, <2>1 DEF Vs
  <2>2. CASE vectors # Nothing
    BY <1>1, <2>2 DEF Vs, TypeInv, CountInv
  <2> QED
    BY <2>1, <2>2
<1>4. added' = added + n
  <2>1. CASE vectors = Nothing
    BY <1>2, <2>1 DEF Vs, Grown
  <2>2. CASE vectors # Nothing
    <3>1. Len(Vs) = Len(vectors)
      BY <2>2 DEF Vs
    <3>2. added' = added + Len(vectors') - Len(vectors)
      BY <2>2 DEF Grown
    <3> QED
      BY <1>2, <1>3, <3>1, <3>2
  <2> QED
    BY <2>1, <2>2
<1>5. Len(vectors') \in Nat /\ Len(vectors') <= added' /\ added' <= MaxDocs /\ added' \in Nat
  BY <1>2, <1>3, <1>4
<1>6. vectors' # Nothing /\ Vs' = vectors'
  BY CorpusIsThere DEF Vs
<1>7. corpus' = vectors' /\ fresh' = FALSE /\ mixed' = (mixed \/ locators # Nothing)
  BY DEF Grown
<1>8. TypeInv'
  <2>1. fresh' \in BOOLEAN /\ mixed' \in BOOLEAN
    BY <1>1, <1>7 DEF TypeInv
  <2>2. Listing(lists)' /\ remainder' \in Seq(Docs)
        /\ (\A l \in DOMAIN fwd : fwd[l] \in Seq(Seq(Entry)))'
    BY <1>1 DEF TypeInv, Listing, mappedVars
  <2>3. corpus' \in Seq(Docs) /\ Len(corpus') <= MaxDocs /\ added' \in 0 .. MaxDocs
    BY <1>2, <1>5, <1>7
  <2> QED
    BY <2>1, <2>2, <2>3 DEF TypeInv
<1>9. Ids(Vs) \subseteq Ids(Vs')
  BY <1>2, <1>3, <1>6 DEF Ids
<1>10. CountInv'
  <2>1. Within(lists, Vs')
    BY <1>1, <1>9 DEF CountInv, Within
  <2> QED
    BY <1>5, <1>7, <2>1 DEF CountInv
<1>11. RankInv'
  <2>1. locators' = locators /\ fwd' = fwd /\ lists' = lists
    BY DEF mappedVars
  <2>2. ASSUME ~mixed'
        PROVE  locators = Nothing /\ BuiltFrom(lists, vectors')
    <3>1. locators = Nothing /\ ~mixed
      BY <1>1, <1>7, <2>2 DEF TypeInv
    <3>2. BuiltFrom(lists, Vs) /\ (vectors = Nothing => NoBlocks(lists))
      BY <1>1, <3>1 DEF RankInv
    <3>3. CASE vectors = Nothing
      <4>1. \A l \in DOMAIN lists : DOMAIN lists[l] = {}
        BY <3>2, <3>3 DEF NoBlocks
      <4> QED
        BY <3>1, <4>1 DEF BuiltFrom
    <3>4. CASE vectors # Nothing
      <4>1. vectors' = Vs \o ws
        BY <3>4 DEF Vs
      <4>2. ASSUME NEW l \in DOMAIN lists, NEW b \in DOMAIN lists[l]
            PROVE  lists[l][b].of = Held(lists[l][b].docs, vectors')
        <5>1. \A i \in DOMAIN lists[l][b].docs : lists[l][b].docs[i] \in Ids(Vs)
          BY <1>1 DEF CountInv, Within
        <5>2. Held(lists[l][b].docs, Vs \o ws) = Held(lists[l][b].docs, Vs)
          BY <1>3, <5>1, HeldStays
        <5> QED
          BY <3>2, <4>1, <5>2 DEF BuiltFrom
      <4> QED
        BY <3>1, <4>2 DEF BuiltFrom
    <3> QED
      BY <3>1, <3>3, <3>4
  <2>3. num' # 0
    BY <1>2, <1>3
  <2>4. locators = Nothing => fwd = <<>>
    BY <1>1 DEF RankInv
  <2> QED
    BY <1>6, <2>1, <2>2, <2>3, <2>4 DEF RankInv
<1>12. FileInv'
  BY <1>1 DEF FileInv, Loadable
<1> QED
  BY <1>8, <1>10, <1>11, <1>12 DEF IInv

LEMMA NewDocsType ==
  ASSUME TypeInv, NEW n \in 1 .. MaxDocs - added
  PROVE  NewDocs(n) \in Seq(Docs) /\ Len(NewDocs(n)) = n /\ n \in Nat
<1>1. added \in Nat /\ n \in Nat /\ 1 <= n /\ added + n <= MaxDocs /\ MaxDocs \in Nat
  BY BoundsAssumption DEF TypeInv
<1>2. NewDocs(n) \in [1 .. n -> Docs]
  BY <1>1 DEF NewDocs, Docs
<1> QED
  BY <1>1, <1>2

LEMMA AddKeeps ==
  ASSUME NEW n \in 1 .. MaxDocs - added, IInv, Add(n)
  PROVE  IInv'
<1>1. TypeInv /\ CountInv
  BY DEF IInv
<1> DEFINE ws == NewDocs(n)
<1>2. ws \in Seq(Docs) /\ Len(ws) = n /\ n \in Nat
  BY <1>1, NewDocsType
<1> HIDE DEF ws
<1>3. /\ vectors' = IF vectors = Nothing THEN ws ELSE vectors \o ws
      /\ num' = IF vectors = Nothing THEN n ELSE num + n
      /\ Grown /\ UNCHANGED <<lists, mappedVars, file>> /\ borrowed' = borrowed
  BY DEF Add, ws
<1>4. vectors' \in Seq(Docs) /\ Len(vectors') = Len(Vs) + n /\ num' = Len(vectors')
  <2>1. CASE vectors = Nothing
    BY <1>2, <1>3, <2>1 DEF Vs
  <2>2. CASE vectors # Nothing
    <3>1. vectors \in Seq(Docs) /\ num = Len(vectors) /\ Vs = vectors
      BY <1>1, <2>2 DEF TypeInv, CountInv, Vs
    <3>2. vectors' = vectors \o ws /\ num' = num + n
      BY <1>3, <2>2
    <3>3. vectors \o ws \in Seq(Docs) /\ Len(vectors \o ws) = Len(vectors) + n
      BY <1>2, <3>1
    <3> QED
      BY <3>1, <3>2, <3>3
  <2> QED
    BY <2>1, <2>2
<1>5. vectors # Nothing => vectors' = vectors \o ws
  BY <1>3
<1>6. borrowed' \in BOOLEAN
  BY <1>1, <1>3 DEF TypeInv
<1> QED
  BY <1>2, <1>3, <1>4, <1>5, <1>6, GrowKeeps

LEMMA MapCsrKeeps ==
  ASSUME NEW n \in 1 .. MaxDocs - added, IInv, MapCsr(n)
  PROVE  IInv'
<1>1. TypeInv /\ CountInv
  BY DEF IInv
<1> DEFINE ws == NewDocs(n)
<1>2. ws \in Seq(Docs) /\ Len(ws) = n /\ n \in Nat
  BY <1>1, NewDocsType
<1> HIDE DEF ws
<1>3. /\ vectors = Nothing /\ vectors' = ws /\ num' = n /\ borrowed' = TRUE
      /\ Grown /\ UNCHANGED <<lists, mappedVars, file>>
  BY DEF MapCsr, ws
<1>4. vectors' \in Seq(Docs) /\ Len(vectors') = Len(Vs) + n /\ num' = Len(vectors')
  BY <1>2, <1>3 DEF Vs
<1> QED
  BY <1>2, <1>3, <1>4, GrowKeeps
LEMMA BuildKeeps ==
  ASSUME IInv, Build
  PROVE  IInv'
<1>1. TypeInv /\ CountInv /\ RankInv /\ FileInv
  BY DEF IInv
<1>2. /\ lists' \in IF vectors = Nothing THEN {[t \in 1 .. Dim |-> <<>>]} ELSE ListsOf(vectors)
      /\ fresh' = TRUE
      /\ vectors' = vectors /\ borrowed' = borrowed /\ num' = num
      /\ fwd' = fwd /\ locators' = locators /\ remainder' = remainder
      /\ file' = file /\ added' = added /\ corpus' = corpus /\ mixed' = mixed
  BY DEF Build, corpusVars, mappedVars
<1>3. Vs \in Seq(Docs) /\ Len(Vs) <= MaxDocs
  BY <1>1, SavedCorpus
<1>4. /\ Listing(lists') /\ Within(lists', Vs) /\ BuiltFrom(lists', Vs)
      /\ vectors = Nothing \/ Len(vectors) = 0 => NoBlocks(lists')
  <2>1. CASE vectors = Nothing
    <3>1. DOMAIN lists' = 1 .. Dim /\ \A l \in DOMAIN lists' : lists'[l] = <<>>
      BY <1>2, <2>1
    <3>2. DOMAIN lists' \subseteq Nat
      BY <3>1, DimAssumption
    <3>3. \A l \in DOMAIN lists' : lists'[l] \in Seq(Blocks) /\ DOMAIN lists'[l] = {}
      <4>1. <<>> \in Seq(Blocks) /\ DOMAIN <<>> = {}
        OBVIOUS
      <4> QED
        BY <3>1, <4>1
    <3> QED
      BY <3>2, <3>3 DEF Listing, Within, BuiltFrom, NoBlocks
  <2>2. CASE vectors # Nothing
    <3>1. Vs = vectors /\ lists' \in ListsOf(Vs)
      BY <1>2, <2>2 DEF Vs
    <3> QED
      BY <1>3, <2>2, <3>1, ListsFit
  <2> QED
    BY <2>1, <2>2
<1>5. TypeInv'
  BY <1>1, <1>2, <1>4 DEF TypeInv
<1>6. Vs' = Vs
  BY <1>2 DEF Vs
<1>7. CountInv'
  BY <1>1, <1>2, <1>4, <1>6 DEF CountInv
<1>8. RankInv'
  <2>1. num' = 0 => NoBlocks(lists')
    <3>1. num = 0 /\ vectors # Nothing => Len(vectors) = 0
      BY <1>1 DEF CountInv
    <3> QED
      BY <1>2, <1>4, <3>1
  <2>2. locators' = Nothing =>
          BuiltFrom(lists', Vs') /\ (vectors' = Nothing => NoBlocks(lists'))
    BY <1>2, <1>4, <1>6
  <2>3. ASSUME ~mixed', locators' # Nothing
        PROVE  /\ vectors' = Nothing /\ Matches(lists', fwd')
               /\ Directory(locators', remainder', fwd', corpus')
    <3>1. vectors = Nothing /\ Directory(locators, remainder, fwd, corpus)
      BY <1>1, <1>2, <2>3 DEF RankInv
    <3>2. \A l \in DOMAIN lists' : DOMAIN lists'[l] = {}
      BY <1>4, <3>1 DEF NoBlocks
    <3>3. Matches(lists', fwd')
      BY <3>2 DEF Matches
    <3> QED
      BY <1>2, <3>1, <3>3
  <2>4. locators' = Nothing => fwd' = <<>>
    BY <1>1, <1>2 DEF RankInv
  <2> QED
    BY <2>1, <2>2, <2>3, <2>4 DEF RankInv
<1>9. FileInv'
  BY <1>1, <1>2 DEF FileInv, Loadable
<1> QED
  BY <1>5, <1>7, <1>8, <1>9 DEF IInv

(* What there is to save, and what of it is the corpus of the index.        *)
LEMMA SaveKeeps ==
  ASSUME IInv, Save
  PROVE  IInv'
<1>1. TypeInv /\ CountInv /\ RankInv /\ FileInv
  BY DEF IInv
<1> DEFINE locs == Locators(lists, Vs)
           rest == Rest(lists, Vs)
           f == Forward(lists, Vs)
           bare == Bare(lists)
<1>2. /\ file' = [num |-> num, lists |-> bare, fwd |-> f, locators |-> locs,
                  remainder |-> rest, corpus |-> corpus, mixed |-> mixed,
                  hollow |-> vectors = Nothing /\ num > 0]
      /\ UNCHANGED <<corpusVars, lists, mappedVars, added, corpus, fresh, mixed>>
  BY DEF Save, Vs, Rest
<1>3. Vs \in Seq(Docs) /\ Len(Vs) <= MaxDocs /\ Listing(lists) /\ Within(lists, Vs)
  BY <1>1, SavedCorpus DEF TypeInv, CountInv
<1>4. locs \in Seq(Locator) /\ Len(locs) = Len(Vs) /\ Directory(locs, rest, f, Vs)
  BY <1>3, DirectoryFits
<1>5. /\ DOMAIN f = DOMAIN lists
      /\ \A l \in DOMAIN lists : f[l] \in Seq(Seq(Entry)) /\ DOMAIN f[l] = DOMAIN lists[l]
      /\ \A l \in DOMAIN lists : \A b \in DOMAIN lists[l] : f[l][b] = Held(lists[l][b].docs, Vs)
  BY <1>3, ForwardType
<1>6. /\ Listing(bare) /\ DOMAIN bare = DOMAIN lists
      /\ \A l \in DOMAIN lists : DOMAIN bare[l] = DOMAIN lists[l]
      /\ \A l \in DOMAIN lists : \A b \in DOMAIN lists[l] :
           bare[l][b].docs = <<>> /\ bare[l][b].of = lists[l][b].of
  BY <1>3, BareFits
<1>7. rest \in Seq(Docs)
  BY <1>3, UncoveredType
<1> HIDE DEF locs, rest, f, bare
<1>8. /\ file'.num = num /\ file'.lists = bare /\ file'.fwd = f /\ file'.locators = locs
      /\ file'.remainder = rest /\ file'.corpus = corpus /\ file'.mixed = mixed
      /\ file'.hollow = (vectors = Nothing /\ num > 0)
  BY <1>2
<1>9. num = Len(corpus) /\ num \in Nat /\ num <= MaxDocs /\ corpus \in Seq(Docs)
  BY <1>1 DEF TypeInv, CountInv
<1>10. vectors # Nothing => Len(locs) = num /\ Vs = corpus
  BY <1>1, <1>4 DEF CountInv, Vs
<1>11. vectors = Nothing => Len(locs) = 0 /\ Vs = <<>>
  BY <1>4 DEF Vs
<1>12. ASSUME ~mixed, Len(locs) = num
       PROVE  /\ num = 0 => NoBlocks(bare)
              /\ Matches(bare, f) /\ Directory(locs, rest, f, corpus)
  <2>1. num = 0 => NoBlocks(lists)
    BY <1>1, <1>12 DEF RankInv
  <2>2. NoBlocks(lists) => NoBlocks(bare)
    BY <1>6 DEF NoBlocks
  <2>3. BuiltFrom(lists, Vs) => Matches(bare, f)
    BY <1>5, <1>6 DEF BuiltFrom, Matches
  <2>4. NoBlocks(bare) => Matches(bare, f)
    BY DEF NoBlocks, Matches
  <2>5. CASE vectors = Nothing
    <3>1. num = 0 /\ Vs = <<>> /\ corpus = <<>>
      BY <1>9, <1>11, <1>12, <2>5
    <3> QED
      BY <1>4, <2>1, <2>2, <2>4, <3>1
  <2>6. CASE vectors # Nothing
    <3>1. BuiltFrom(lists, Vs) /\ Vs = corpus
      BY <1>1, <1>10, <1>12, <2>6 DEF RankInv
    <3> QED
      BY <1>4, <2>1, <2>2, <2>3, <3>1
  <2> QED
    BY <2>5, <2>6
<1>13. TypeInv'
  BY <1>1, <1>2 DEF TypeInv, Listing, corpusVars, mappedVars
<1>14. CountInv'
  BY <1>1, <1>2 DEF CountInv, Within, Vs, corpusVars
<1>15. RankInv'
  <2>1. /\ num' = num /\ vectors' = vectors /\ lists' = lists /\ fwd' = fwd /\ mixed' = mixed
        /\ locators' = locators /\ remainder' = remainder /\ corpus' = corpus /\ Vs' = Vs
    BY <1>2 DEF Vs, corpusVars, mappedVars
  <2>2. locators' = Nothing => fwd' = <<>>
    BY <1>1, <2>1 DEF RankInv
  <2>3. ASSUME ~mixed'
        PROVE  /\ num' = 0 => NoBlocks(lists')
               /\ IF locators' = Nothing
                    THEN BuiltFrom(lists', Vs') /\ (vectors' = Nothing => NoBlocks(lists'))
                    ELSE /\ vectors' = Nothing /\ Matches(lists', fwd')
                         /\ Directory(locators', remainder', fwd', corpus')
    BY <1>1, <2>1, <2>3 DEF RankInv
  <2> QED
    BY <2>2, <2>3 DEF RankInv
<1>16. FileInv'
  <2>1. ~file'.hollow => Len(locs) = num
    <3>1. CASE vectors = Nothing /\ num > 0
      BY <1>8, <3>1
    <3>2. CASE vectors # Nothing
      BY <1>10, <3>2
    <3>3. CASE vectors = Nothing /\ ~(num > 0)
      BY <1>9, <1>11, <3>3
    <3> QED
      BY <3>1, <3>2, <3>3
  <2>2. \A l \in DOMAIN bare : \A b \in DOMAIN bare[l] : bare[l][b].docs = <<>>
    BY <1>6
  <2>3. \A l \in DOMAIN f : f[l] \in Seq(Seq(Entry))
    BY <1>5
  <2>4. mixed \in BOOLEAN
    BY <1>1 DEF TypeInv
  <2> QED
    BY <1>4, <1>6, <1>7, <1>8, <1>9, <1>12, <2>1, <2>2, <2>3, <2>4 DEF FileInv, Loadable
<1> QED
  BY <1>13, <1>14, <1>15, <1>16 DEF IInv

LEMMA LoadKeeps ==
  ASSUME IInv, Load
  PROVE  IInv'
<1>1. TypeInv /\ FileInv
  BY DEF IInv
<1>2. /\ file # Nothing /\ Loadable(file) /\ file' = file /\ added' = added
      /\ vectors' = Nothing /\ borrowed' = FALSE /\ num' = file.num
      /\ lists' = file.lists /\ fwd' = file.fwd /\ locators' = file.locators
      /\ remainder' = file.remainder /\ corpus' = file.corpus /\ mixed' = file.mixed
      /\ fresh' = FALSE
  BY DEF Load
<1>3. /\ file.num = Len(file.corpus) /\ file.num <= MaxDocs
      /\ file.corpus \in Seq(Docs) /\ file.mixed \in BOOLEAN
      /\ Listing(file.lists)
      /\ \A l \in DOMAIN file.lists : \A b \in DOMAIN file.lists[l] : file.lists[l][b].docs = <<>>
      /\ \A l \in DOMAIN file.fwd : file.fwd[l] \in Seq(Seq(Entry))
      /\ file.remainder \in Seq(Docs) /\ file.locators \in Seq(Locator)
      /\ ~file.mixed =>
           /\ file.num = 0 => NoBlocks(file.lists)
           /\ Matches(file.lists, file.fwd)
           /\ Directory(file.locators, file.remainder, file.fwd, file.corpus)
  BY <1>1, <1>2 DEF FileInv
<1>4. locators' # Nothing
  BY <1>2, <1>3, NothingAssumption
<1>5. TypeInv'
  <2>1. added' \in 0 .. MaxDocs
    BY <1>1, <1>2 DEF TypeInv
  <2>2. Len(corpus') <= MaxDocs
    BY <1>2, <1>3
  <2> QED
    BY <1>2, <1>3, <2>1, <2>2 DEF TypeInv
<1>6. CountInv'
  <2>1. \A l \in DOMAIN lists' : \A b \in DOMAIN lists'[l] : DOMAIN lists'[l][b].docs = {}
    BY <1>2, <1>3
  <2>2. Within(lists', Vs')
    BY <2>1 DEF Within
  <2> QED
    BY <1>2, <1>3, <2>2 DEF CountInv
<1>7. RankInv'
  BY <1>2, <1>3, <1>4 DEF RankInv
<1>8. FileInv'
  BY <1>1, <1>2 DEF FileInv, Loadable
<1> QED
  BY <1>5, <1>6, <1>7, <1>8 DEF IInv

LEMMA StutterKeeps ==
  ASSUME IInv, UNCHANGED vars
  PROVE  IInv'
<1>1. /\ vectors' = vectors /\ borrowed' = borrowed /\ num' = num /\ lists' = lists
      /\ fwd' = fwd /\ locators' = locators /\ remainder' = remainder
      /\ file' = file /\ added' = added /\ corpus' = corpus
      /\ fresh' = fresh /\ mixed' = mixed
  BY DEF vars, corpusVars, mappedVars
<1> QED
  BY <1>1 DEF IInv, TypeInv, CountInv, RankInv, FileInv, Vs, Loadable

LEMMA NextIInv == IInv /\ [Next]_vars => IInv'
<1> SUFFICES ASSUME IInv, [Next]_vars
             PROVE  IInv'
  OBVIOUS
<1>1. ASSUME NEW n \in 1 .. MaxDocs - added, Add(n)
      PROVE  IInv'
  BY <1>1, AddKeeps
<1>2. ASSUME NEW n \in 1 .. MaxDocs - added, MapCsr(n)
      PROVE  IInv'
  BY <1>2, MapCsrKeeps
<1>3. CASE Build
  BY <1>3, BuildKeeps
<1>4. CASE Save
  BY <1>4, SaveKeeps
<1>5. CASE Load
  BY <1>5, LoadKeeps
<1>6. CASE UNCHANGED vars
  BY <1>6, StutterKeeps
<1> QED
  BY <1>1, <1>2, <1>3, <1>4, <1>5, <1>6 DEF Next

(* The invariant of every reachable state.                                  *)
THEOREM IInvHolds == Spec => []IInv
<1>1. Init => IInv
  BY InitIInv
<1>2. IInv /\ [Next]_vars => IInv'
  BY NextIInv
<1> QED
  BY <1>1, <1>2, PTL DEF Spec
-----------------------------------------------------------------------------
(* What the caller relies on. *)

(* The documents, the count, the lists and what is mapped of them have      *)
(* their types.                                                             *)
THEOREM TypesHold == Spec => []TypeOK
<1>1. IInv => TypeOK
  <2> SUFFICES ASSUME IInv
               PROVE  TypeOK
    OBVIOUS
  <2>1. TypeInv /\ CountInv
    BY DEF IInv
  <2>2. num \in 0 .. MaxDocs
    BY <2>1, BoundsAssumption DEF TypeInv, CountInv
  <2> QED
    BY <2>1, <2>2 DEF TypeInv, TypeOK, Listing, Entry
<1> QED
  BY <1>1, IInvHolds, PTL

(* A block is scored on the documents its summary was made from, whether    *)
(* they are read from the corpus or from the mapped file.                   *)
THEOREM RankingIsScored == Spec => []ScoresWhatItRanks
<1>1. IInv => ScoresWhatItRanks
  <2> SUFFICES ASSUME IInv, ~mixed, NEW l \in DOMAIN lists, NEW b \in DOMAIN lists[l]
               PROVE  Scored(l, b) = lists[l][b].of
    BY DEF ScoresWhatItRanks
  <2>1. CountInv /\ RankInv
    BY DEF IInv
  <2>2. ~NoBlocks(lists)
    BY DEF NoBlocks
  <2>3. num # 0
    BY <2>1, <2>2 DEF RankInv
  <2>4. CASE locators = Nothing
    <3>1. BuiltFrom(lists, Vs) /\ vectors # Nothing /\ fwd = <<>>
      BY <2>1, <2>2, <2>4 DEF RankInv
    <3>2. ~HasBlocks(fwd)
      BY <3>1 DEF HasBlocks
    <3>3. ~HasNothing
      BY <2>3, <3>1 DEF HasNothing
    <3>4. Scored(l, b) = Held(lists[l][b].docs, vectors)
      BY <3>2, <3>3 DEF Scored
    <3> QED
      BY <3>1, <3>4 DEF BuiltFrom, Vs
  <2>5. CASE locators # Nothing
    <3>1. l \in DOMAIN fwd /\ b \in DOMAIN fwd[l] /\ fwd[l][b] = lists[l][b].of
      BY <2>1, <2>5 DEF RankInv, Matches
    <3>2. HasBlocks(fwd)
      BY <3>1 DEF HasBlocks
    <3>3. ~HasNothing
      BY <2>3, <3>2 DEF HasNothing
    <3> QED
      BY <3>1, <3>2, <3>3 DEF Scored
  <2> QED
    BY <2>4, <2>5
<1> QED
  BY <1>1, IInvHolds, PTL

(* Where the directory leads, there is the document.                        *)
LEMMA LeadsResolve ==
  ASSUME NEW id, NEW d, Leads(locators[id + 1], remainder, fwd, id, d)
  PROVE  GetDoc(id) = d
<1> DEFINE loc == locators[id + 1]
<1>1. CASE \E i \in DOMAIN remainder : loc = [row |-> i] /\ remainder[i] = d
  <2>1. PICK i \in DOMAIN remainder : loc = [row |-> i] /\ remainder[i] = d
    BY <1>1
  <2>2. "row" \in DOMAIN loc /\ loc.row = i
    BY <2>1
  <2> QED
    BY <2>1, <2>2 DEF GetDoc
<1>2. CASE \E l \in DOMAIN fwd : \E b \in DOMAIN fwd[l] : \E s \in DOMAIN fwd[l][b] :
             loc = [place |-> <<l, b, s>>] /\ fwd[l][b][s] = [id |-> id, doc |-> d]
  <2> DEFINE found(l, b, s) ==
               loc = [place |-> <<l, b, s>>] /\ fwd[l][b][s] = [id |-> id, doc |-> d]
  <2>1. PICK l \in DOMAIN fwd : \E b \in DOMAIN fwd[l] : \E s \in DOMAIN fwd[l][b] : found(l, b, s)
    BY <1>2
  <2>2. PICK b \in DOMAIN fwd[l] : \E s \in DOMAIN fwd[l][b] : found(l, b, s)
    BY <2>1
  <2>3. PICK s \in DOMAIN fwd[l][b] : found(l, b, s)
    BY <2>2
  <2>4. "row" \notin DOMAIN loc /\ loc.place[1] = l /\ loc.place[2] = b /\ loc.place[3] = s
    BY <2>3
  <2>5. fwd[l][b][s].id = id /\ fwd[l][b][s].doc = d
    BY <2>3
  <2> QED
    BY <2>3, <2>4, <2>5 DEF GetDoc
<1> QED
  BY <1>1, <1>2 DEF Leads

(* The directory of a loaded index resolves every id to the document the    *)
(* caller gave it, and never throws.                                        *)
THEOREM DirectoryLeads == Spec => []DirectoryResolves
<1>1. IInv => DirectoryResolves
  <2> SUFFICES ASSUME IInv, ~mixed, locators # Nothing
               PROVE  /\ Len(locators) = Len(corpus)
                      /\ \A id \in Ids(corpus) : GetDoc(id) = corpus[id + 1]
    BY DEF DirectoryResolves
  <2>1. Directory(locators, remainder, fwd, corpus)
    BY DEF IInv, RankInv
  <2> QED
    BY <2>1, LeadsResolve DEF Directory
<1> QED
  BY <1>1, IInvHolds, PTL

(* A file that was not saved from an index that has lost its corpus loads.  *)
THEOREM SavesLoad == Spec => []SavedFilesLoad
<1>1. IInv => SavedFilesLoad
  BY DEF IInv, FileInv, SavedFilesLoad
<1> QED
  BY <1>1, IInvHolds, PTL
-----------------------------------------------------------------------------
(* The inline forward index.                                                *)
(*                                                                         *)
(* What both passes of a save and the load go by is the order of the        *)
(* blocks and where the sizing pass has each; arithmetic first.             *)

(* The multiples of a number. *)
LEMMA MultipleMod ==
  ASSUME NEW a \in Nat, a # 0, NEW q \in Nat
  PROVE  (q * a) % a = 0
OBVIOUS

(* A number lies between a multiple and the next. *)
LEMMA DivBound ==
  ASSUME NEW a \in Nat, a # 0, NEW x \in Nat
  PROVE  /\ x \div a \in Nat
         /\ (x \div a) * a <= x
         /\ x < (x \div a) * a + a
OBVIOUS

(* Rounding up is to a multiple, and never down. *)
LEMMA AlignUpIs ==
  ASSUME NEW a \in Nat, a # 0, NEW o \in Nat
  PROVE  /\ AlignUp(o, a) \in Nat
         /\ o <= AlignUp(o, a)
         /\ AlignUp(o, a) % a = 0
  <1> DEFINE q == (o + a - 1) \div a
  <1>1. o + a - 1 \in Nat
    OBVIOUS
  <1>2. q \in Nat /\ o + a - 1 < q * a + a
    BY <1>1, DivBound
  <1> HIDE DEF q
  <1>3. q * a \in Nat
    BY <1>2
  <1>4. (q * a) % a = 0
    BY <1>2, MultipleMod
  <1> QED
    BY <1>2, <1>3, <1>4 DEF AlignUp, q

(* A power of two from 8 on is a multiple of 8: whatever odd number is left *)
(* of it after up to two halvings would divide it.                          *)
LEMMA PowerOfEight ==
  ASSUME NEW a \in Nat, IsPowerOfTwo(a), 8 <= a
  PROVE  \E q \in Nat : a = 8 * q
  <1>1. ASSUME NEW d \in Nat, 2 <= d, NEW q \in Nat, a = q * d, q # 0
        PROVE  \E h \in Nat : d = 2 * h
    <2>1. d <= a
      BY <1>1
    <2>2. a % d = 0
      BY <1>1, MultipleMod
    <2>3. d % 2 = 0
      BY <1>1, <2>1, <2>2 DEF IsPowerOfTwo
    <2> QED
      BY <1>1, <2>3
  <1>2. PICK m \in Nat : a = 2 * m
    <2>1. a = 1 * a
      OBVIOUS
    <2> QED
      BY <1>1, <2>1
  <1>3. PICK k \in Nat : m = 2 * k
    BY <1>1, <1>2
  <1>4. PICK j \in Nat : k = 2 * j
    <2>1. a = 4 * k
      BY <1>2, <1>3
    <2> QED
      BY <1>1, <2>1
  <1> QED
    BY <1>2, <1>3, <1>4

(* So is every alignment: a multiple of it is one of 8. *)
LEMMA AlignmentIs ==
  ASSUME NEW a \in Alignments
  PROVE  /\ a \in Nat /\ 8 <= a /\ IsPowerOfTwo(a)
         /\ \A o \in Nat : o % a = 0 => o % 8 = 0
  <1>1. a \in Nat /\ 8 <= a /\ IsPowerOfTwo(a)
    <2>1. CASE a = 8
      <3>1. ASSUME NEW d \in 2 .. 8, 8 % d = 0
            PROVE  d % 2 = 0
        <4>1. d \in {2, 3, 4, 5, 6, 7, 8}
          OBVIOUS
        <4> QED
          BY <3>1, <4>1
      <3> QED
        BY <2>1, <3>1 DEF IsPowerOfTwo
    <2>2. CASE a # 8
      <3>1. a \in Pages /\ a # Packed /\ ValidPage(a)
        BY <2>2 DEF Alignments, MinBlockAlign
      <3>2. a \in Nat
        BY <3>1, PagesAssumption
      <3> QED
        BY <3>1, <3>2 DEF ValidPage, HeaderSize
    <2> QED
      BY <2>1, <2>2
  <1>2. PICK q \in Nat : a = 8 * q
    BY <1>1, PowerOfEight
  <1>3. ASSUME NEW o \in Nat, o % a = 0
        PROVE  o % 8 = 0
    <2> DEFINE t == o \div a
    <2>1. t \in Nat /\ o = a * t
      BY <1>1, <1>3
    <2> HIDE DEF t
    <2>2. t * q \in Nat
      BY <2>1
    <2>3. o = 8 * (t * q)
      BY <1>2, <2>1
    <2> QED
      BY <2>2, <2>3
  <1> QED
    BY <1>1, <1>3

(* The layout of a block: its arrays are where its elements can be loaded,  *)
(* one behind the other.                                                    *)
LEMMA LayoutIs ==
  ASSUME NEW n \in Nat, NEW nnz \in Nat, NEW w \in {1, 2, 4}
  PROVE  LET o == Layout(n, nnz, w)
         IN  /\ o.docIds = 4
             /\ o.comps \in Nat /\ o.comps % 2 = 0
             /\ o.vals \in Nat /\ o.vals % w = 0
             /\ o.end \in Nat /\ o.comps <= o.end /\ 8 <= o.end
             /\ o.comps = Layout(n, 0, w).comps
  <1> DEFINE c == 4 + 4 * n + 4 * (n + 1)
             v == AlignUp(c + 2 * nnz, w)
  <1>1. c \in Nat /\ c % 2 = 0 /\ 8 <= c /\ c + 2 * nnz \in Nat
    OBVIOUS
  <1>2. v \in Nat /\ c + 2 * nnz <= v /\ v % w = 0
    <2> HIDE DEF c
    <2> QED
      BY <1>1, AlignUpIs
  <1>3. /\ Layout(n, nnz, w).docIds = 4 /\ Layout(n, nnz, w).comps = c
        /\ Layout(n, nnz, w).vals = v /\ Layout(n, nnz, w).end = v + nnz * w
        /\ Layout(n, 0, w).comps = c
    BY DEF Layout, PrefixSize
  <1>4. nnz * w \in Nat
    OBVIOUS
  <1> HIDE DEF c, v
  <1> QED
    BY <1>1, <1>2, <1>3, <1>4

(* A block whose offset is a multiple of 8, in a section that starts on one,*)
(* can be read where it is.                                                 *)
LEMMA BlockAligned ==
  ASSUME base \in Nat, base % 8 = 0, NEW off \in Nat, off % 8 = 0,
         NEW n \in Nat, NEW nnz \in Nat, NEW w \in {1, 2, 4}
  PROVE  Aligned(off, Layout(n, nnz, w), w)
  <1> DEFINE o == Layout(n, nnz, w)
  <1>1. o.docIds = 4 /\ o.comps \in Nat /\ o.comps % 2 = 0 /\ o.vals \in Nat /\ o.vals % w = 0
    BY LayoutIs
  <1> HIDE DEF o
  <1>2. (base + off) \in Nat /\ (base + off) % 8 = 0
    OBVIOUS
  <1> DEFINE p == base + off
  <1> HIDE DEF p
  <1>3. (p + 4) % 4 = 0
    BY <1>2 DEF p
  <1>4. (p + o.comps) % 2 = 0
    BY <1>1, <1>2 DEF p
  <1>5. (p + o.vals) % w = 0
    <2> DEFINE x == o.vals
    <2>1. p \in Nat /\ p % 8 = 0 /\ x \in Nat /\ x % w = 0
      BY <1>1, <1>2 DEF p
    <2> HIDE DEF x
    <2>2. (p + x) % w = 0
      <3>1. CASE w = 1
        BY <2>1, <3>1
      <3>2. CASE w = 2
        BY <2>1, <3>2
      <3>3. CASE w = 4
        BY <2>1, <3>3
      <3> QED
        BY <3>1, <3>2, <3>3
    <2> QED
      BY <2>2 DEF x
  <1> QED
    BY <1>1, <1>3, <1>4, <1>5 DEF Aligned, o, p
-----------------------------------------------------------------------------
(* A block's offsets start at 0 and never fall.                             *)
LEMMA OffsetsAre ==
  ASSUME NEW docs \in Seq(0 .. Len(Nnz) - 1)
  PROVE  /\ OffsetsOf(docs) \in Seq(Nat) /\ Len(OffsetsOf(docs)) = Len(docs) + 1
         /\ OffsetsOf(docs)[1] = 0
         /\ \A i \in 1 .. Len(docs) : OffsetsOf(docs)[i] <= OffsetsOf(docs)[i + 1]
         /\ Last(OffsetsOf(docs)) \in Nat /\ Last(OffsetsOf(docs)) = OffsetsOf(docs)[Len(docs) + 1]
  <1> DEFINE m == Len(docs)
             f == [j \in 1 .. m |-> Nnz[docs[j] + 1]]
             o == OffsetsOf(docs)
  <1>1. m \in Nat /\ f \in [1 .. m -> Nat]
    <2>1. ASSUME NEW j \in 1 .. m
          PROVE  Nnz[docs[j] + 1] \in Nat
      <3>1. docs[j] \in 0 .. Len(Nnz) - 1 /\ Len(Nnz) \in Nat
        BY NnzAssumption
      <3>2. docs[j] + 1 \in 1 .. Len(Nnz)
        BY <3>1
      <3> QED
        BY <3>2, NnzAssumption
    <2> QED
      BY <2>1
  <1>2. o = Begins(f, m)
    <2>1. ASSUME NEW i \in 1 .. m + 1
          PROVE  [j \in 1 .. i - 1 |-> Nnz[docs[j] + 1]] = [j \in 1 .. i - 1 |-> f[j]]
      <3>1. \A j \in 1 .. i - 1 : j \in 1 .. m
        BY <1>1
      <3> QED
        BY <3>1
    <2> QED
      BY <2>1 DEF OffsetsOf, Begins
  <1>3. Begins(f, m)[1] = 0
    <2>1. Begins(f, m)[1] = SumOf([j \in 1 .. 0 |-> f[j]])
      BY <1>1 DEF Begins
    <2>2. SumOf([j \in 1 .. 0 |-> f[j]]) = 0
      <3> DEFINE z == [j \in 1 .. 0 |-> f[j]]
      <3>1. DOMAIN z = {} /\ z \in [{} -> Nat]
        OBVIOUS
      <3> HIDE DEF z
      <3>2. SumOf(z) = 0
        BY <3>1, SumOfNone
      <3> QED
        BY <3>2 DEF z
    <2> QED
      BY <2>1, <2>2
  <1> HIDE DEF f, o, m
  <1>4. /\ Begins(f, m) \in [1 .. m + 1 -> Nat]
        /\ \A k \in 1 .. m : Begins(f, m)[k + 1] = Begins(f, m)[k] + f[k]
    BY <1>1, RunsAreLaid
  <1>5. o \in Seq(Nat) /\ Len(o) = m + 1
    BY <1>1, <1>2, <1>4, FunctionIsSequence
  <1>6. ASSUME NEW i \in 1 .. m
        PROVE  o[i] <= o[i + 1]
    <2>1. o[i + 1] = o[i] + f[i] /\ f[i] \in Nat
      BY <1>1, <1>2, <1>4
    <2>2. o[i] \in Nat
      BY <1>1, <1>2, <1>4
    <2> QED
      BY <2>1, <2>2
  <1>7. Last(o) = o[m + 1] /\ o[m + 1] \in Nat
    BY <1>1, <1>5 DEF Last
  <1> QED
    BY <1>2, <1>3, <1>5, <1>6, <1>7 DEF o, m

(* So a block's layout ends behind its arrays.                              *)
LEMMA BlockEnds ==
  ASSUME NEW docs \in Seq(0 .. Len(Nnz) - 1), NEW w \in {1, 2, 4}
  PROVE  EndOf(docs, w) \in Nat /\ 8 <= EndOf(docs, w)
         /\ Layout(Len(docs), 0, w).comps <= EndOf(docs, w)
  <1>1. Len(docs) \in Nat /\ Last(OffsetsOf(docs)) \in Nat
    BY OffsetsAre
  <1> QED
    BY <1>1, LayoutIs DEF EndOf

(* Offsets that never fall are at most the last one.                        *)
LEMMA NoOffsetBeyond ==
  ASSUME NEW n \in Nat, NEW o \in [1 .. n + 1 -> Nat], \A i \in 1 .. n : o[i] <= o[i + 1]
  PROVE  \A i \in 1 .. n + 1 : o[i] <= o[n + 1]
  <1> DEFINE T == {k \in Nat : k <= n => o[n + 1 - k] <= o[n + 1]}
  <1>1. 0 \in T
    <2>1. n + 1 - 0 = n + 1 /\ o[n + 1] \in Nat
      OBVIOUS
    <2> QED
      BY <2>1
  <1>2. ASSUME NEW k \in Nat, k \in T
        PROVE  k + 1 \in T
    <2> SUFFICES ASSUME k + 1 <= n PROVE o[n + 1 - (k + 1)] <= o[n + 1]
      OBVIOUS
    <2> DEFINE i == n - k
    <2>1. i \in 1 .. n /\ n + 1 - (k + 1) = i /\ n + 1 - k = i + 1
      OBVIOUS
    <2> HIDE DEF i
    <2>2. o[i + 1] <= o[n + 1]
      BY <1>2, <2>1
    <2>3. o[i] <= o[i + 1] /\ o[i] \in Nat /\ o[i + 1] \in Nat /\ o[n + 1] \in Nat
      BY <2>1
    <2> QED
      BY <2>1, <2>2, <2>3
  <1> HIDE DEF T
  <1>3. ASSUME NEW i \in 1 .. n + 1
        PROVE  o[i] <= o[n + 1]
    <2>1. n + 1 - i \in Nat /\ n + 1 - i <= n
      OBVIOUS
    <2>2. n + 1 - i \in T
      BY <1>1, <1>2, <2>1, NatSetInduction
    <2>3. n + 1 - (n + 1 - i) = i
      OBVIOUS
    <2> QED
      BY <2>1, <2>2, <2>3 DEF T
  <1> QED
    BY <1>3
-----------------------------------------------------------------------------
(* How much the lists before list l count. *)
SumBelow(c, l) == SumOf([i \in 0 .. l - 1 |-> c[i]])

(* What comes before a list and the list itself are part of the whole, and  *)
(* all of it if no later list has any.                                      *)
LEMMA SumBelowIs ==
  ASSUME NEW m \in Nat, NEW c \in [0 .. m - 1 -> Nat], NEW l \in 0 .. m - 1
  PROVE  /\ SumBelow(c, l) \in Nat /\ SumOf(c) \in Nat
         /\ SumBelow(c, l) + c[l] <= SumOf(c)
         /\ (\A x \in 0 .. m - 1 : x > l => c[x] = 0) => SumBelow(c, l) + c[l] = SumOf(c)
  <1> DEFINE S == 0 .. m - 1
             A == 0 .. l - 1
             B == {l}
             C == {x \in S : x > l}
             D == {x \in S : x >= l}
             fA == [i \in A |-> c[i]]
             fB == [i \in B |-> c[i]]
             fC == [i \in C |-> c[i]]
             fD == [i \in D |-> c[i]]
  <1>1. IsFiniteSet(S) /\ IsFiniteSet(A) /\ IsFiniteSet(B) /\ IsFiniteSet(C) /\ IsFiniteSet(D)
    <2>1. IsFiniteSet(S)
      BY FS_Interval
    <2>2. A \subseteq S /\ B \subseteq S /\ C \subseteq S /\ D \subseteq S
      OBVIOUS
    <2> HIDE DEF S, A, B, C, D
    <2> QED
      BY <2>1, <2>2, FS_Subset
  <1>2. SplitsInto(c, S, fA, A, fD, D)
    <2>1. A \union D = S /\ A \intersect D = {} /\ c \in [S -> Nat] /\ fA \in [A -> Nat] /\ fD \in [D -> Nat]
      OBVIOUS
    <2>2. (\A x \in A : fA[x] = c[x]) /\ \A x \in D : fD[x] = c[x]
      OBVIOUS
    <2> HIDE DEF S, A, D, fA, fD
    <2> QED
      BY <1>1, <2>1, <2>2 DEF SplitsInto
  <1>3. SplitsInto(fD, D, fB, B, fC, C)
    <2>1. B \union C = D /\ B \intersect C = {} /\ fB \in [B -> Nat] /\ fC \in [C -> Nat] /\ fD \in [D -> Nat]
      OBVIOUS
    <2>2. (\A x \in B : fB[x] = fD[x]) /\ \A x \in C : fC[x] = fD[x]
      OBVIOUS
    <2> HIDE DEF B, C, D, fB, fC, fD
    <2> QED
      BY <1>1, <2>1, <2>2 DEF SplitsInto
  <1>4. fA \in [A -> Nat] /\ fB \in [B -> Nat] /\ fC \in [C -> Nat] /\ fD \in [D -> Nat] /\ c \in [S -> Nat]
    OBVIOUS
  <1>5. fB[l] = c[l] /\ B = {l}
    OBVIOUS
  <1>6. (\A x \in 0 .. m - 1 : x > l => c[x] = 0) => \A x \in C : fC[x] = 0
    OBVIOUS
  <1>7. SumBelow(c, l) = SumOf(fA)
    BY DEF SumBelow
  <1> HIDE DEF S, A, B, C, D, fA, fB, fC, fD
  <1>8. SumOf(c) = SumOf(fA) + SumOf(fD) /\ SumOf(fD) = SumOf(fB) + SumOf(fC)
    BY <1>1, <1>2, <1>3, SumOfParts
  <1>9. SumOf(fA) \in Nat /\ SumOf(fC) \in Nat /\ SumOf(c) \in Nat
    BY <1>1, <1>4, SumType
  <1>10. SumOf(fB) = c[l] /\ SumOf(fB) \in Nat
    BY <1>1, <1>4, <1>5, SumOfOne, SumType
  <1>11. (\A x \in C : fC[x] = 0) => SumOf(fC) = 0
    BY <1>1, <1>4, SumOfZeros
  <1> QED
    BY <1>6, <1>7, <1>8, <1>9, <1>10, <1>11

(* One more of list l: the lists up to it begin where they did.             *)
LEMMA SumOneMore ==
  ASSUME NEW m \in Nat, NEW c \in [0 .. m - 1 -> Nat], NEW l \in 0 .. m - 1,
         \A x \in 0 .. m - 1 : x > l => c[x] = 0
  PROVE  LET d == [c EXCEPT ![l] = @ + 1]
         IN  /\ d \in [0 .. m - 1 -> Nat]
             /\ SumOf(d) = SumOf(c) + 1
             /\ \A k \in 0 .. l : SumBelow(d, k) = SumBelow(c, k)
  <1> DEFINE d == [c EXCEPT ![l] = @ + 1]
  <1>1. d \in [0 .. m - 1 -> Nat] /\ d[l] = c[l] + 1 /\ c[l] \in Nat
    OBVIOUS
  <1>2. \A x \in 0 .. m - 1 : x > l => d[x] = 0
    OBVIOUS
  <1> HIDE DEF d
  <1>3. ASSUME NEW k \in 0 .. l
        PROVE  SumBelow(d, k) = SumBelow(c, k)
    <2>1. [i \in 0 .. k - 1 |-> d[i]] = [i \in 0 .. k - 1 |-> c[i]]
      BY DEF d
    <2> QED
      BY <2>1 DEF SumBelow
  <1>4. SumBelow(c, l) + c[l] = SumOf(c) /\ SumBelow(c, l) \in Nat
    BY SumBelowIs
  <1>5. SumBelow(d, l) + d[l] = SumOf(d)
    <2>1. (\A x \in 0 .. m - 1 : x > l => d[x] = 0) => SumBelow(d, l) + d[l] = SumOf(d)
      BY <1>1, SumBelowIs
    <2> QED
      BY <1>2, <2>1
  <1>6. l \in 0 .. l /\ l \in Nat
    OBVIOUS
  <1>7. SumBelow(d, l) = SumBelow(c, l)
    BY <1>3, <1>6
  <1>8. SumOf(d) = SumOf(c) + 1
    BY <1>1, <1>4, <1>5, <1>7
  <1> QED
    BY <1>1, <1>3, <1>8 DEF d
-----------------------------------------------------------------------------
(* The order of the blocks.                                                 *)

(* The next block is in the same list, or the first of a later one. *)
Follows(p, q) == (q[1] = p[1] /\ q[2] = p[2] + 1) \/ (p[1] < q[1] /\ q[2] = 1)

(* s has the blocks of the first m lists, in order. *)
Laid(ls, m, s) ==
  /\ s \in Seq(Nat \X Nat)
  /\ \A l \in 1 .. m : \A b \in 1 .. Len(ls[l]) : \E k \in 1 .. Len(s) : s[k] = <<l, b>>
  /\ \A k \in 1 .. Len(s) : s[k][1] \in 1 .. m /\ s[k][2] \in 1 .. Len(ls[s[k][1]])
  /\ \A k \in 1 .. Len(s) : k = 1 => s[k][2] = 1
  /\ \A k \in 1 .. Len(s) : k > 1 => Follows(s[k - 1], s[k])

(* Two sequences, one after the other. *)
LEMMA SequencesJoined ==
  ASSUME NEW S, NEW s \in Seq(S), NEW t \in Seq(S)
  PROVE  /\ s \o t \in Seq(S) /\ Len(s \o t) = Len(s) + Len(t)
         /\ \A i \in 1 .. Len(s) : (s \o t)[i] = s[i]
         /\ \A i \in 1 .. Len(t) : (s \o t)[Len(s) + i] = t[i]
  OBVIOUS

(* The blocks of one more list are laid behind those of the lists before.   *)
LEMMA LaidNext ==
  ASSUME NEW D, NEW ls \in Seq(Seq(D)), NEW m \in Nat, m + 1 <= Len(ls),
         NEW s, Laid(ls, m, s)
  PROVE  Laid(ls, m + 1, s \o [b \in 1 .. Len(ls[m + 1]) |-> <<m + 1, b>>])
  <1> DEFINE n == Len(ls[m + 1])
             t == [b \in 1 .. n |-> <<m + 1, b>>]
             j == s \o t
  <1>1. n \in Nat /\ m + 1 \in Nat /\ ls[m + 1] \in Seq(D)
    <2>1. m + 1 \in 1 .. Len(ls)
      OBVIOUS
    <2> QED
      BY <2>1
  <1>2. t \in [1 .. n -> Nat \X Nat] /\ \A b \in 1 .. n : t[b] = <<m + 1, b>>
    BY <1>1
  <1> HIDE DEF n, t
  <1>3. t \in Seq(Nat \X Nat) /\ Len(t) = n
    BY <1>1, <1>2, FunctionIsSequence
  <1>4. s \in Seq(Nat \X Nat) /\ Len(s) \in Nat
    BY DEF Laid
  <1>5. /\ j \in Seq(Nat \X Nat) /\ Len(j) = Len(s) + n
        /\ \A i \in 1 .. Len(s) : j[i] = s[i]
        /\ \A i \in 1 .. n : j[Len(s) + i] = <<m + 1, i>>
    <2>1. s \in Seq(Nat \X Nat) /\ t \in Seq(Nat \X Nat) /\ n = Len(t) /\ n \in Nat
      BY <1>1, <1>3, <1>4
    <2>2. /\ j \in Seq(Nat \X Nat) /\ Len(j) = Len(s) + Len(t)
          /\ \A i \in 1 .. Len(s) : j[i] = s[i]
          /\ \A i \in 1 .. Len(t) : j[Len(s) + i] = t[i]
      BY ONLY <2>1, SequencesJoined
    <2> QED
      BY <1>2, <2>1, <2>2
  <1> HIDE DEF j
  <1>6. ASSUME NEW l \in 1 .. m + 1, NEW b \in 1 .. Len(ls[l])
        PROVE  \E k \in 1 .. Len(j) : j[k] = <<l, b>>
    <2>1. CASE l = m + 1
      <3>1. b \in 1 .. n
        BY <2>1 DEF n
      <3>2. j[Len(s) + b] = <<l, b>>
        BY <1>5, <2>1, <3>1
      <3>3. Len(s) + b \in 1 .. Len(j)
        <4>1. Len(j) = Len(s) + n
          BY <1>5
        <4> QED
          BY <1>1, <1>4, <3>1, <4>1
      <3> QED
        BY <3>2, <3>3
    <2>2. CASE l # m + 1
      <3>1. l \in 1 .. m
        BY <2>2
      <3>2. PICK k \in 1 .. Len(s) : s[k] = <<l, b>>
        BY <3>1 DEF Laid
      <3>3. j[k] = <<l, b>>
        BY <1>5, <3>2
      <3>4. k \in 1 .. Len(j)
        <4>1. Len(j) = Len(s) + n
          BY <1>5
        <4> QED
          BY <1>1, <1>4, <4>1
      <3> QED
        BY <3>3, <3>4
    <2> QED
      BY <2>1, <2>2
  <1>7. ASSUME NEW k \in 1 .. Len(j)
        PROVE  /\ j[k][1] \in 1 .. m + 1 /\ j[k][2] \in 1 .. Len(ls[j[k][1]])
               /\ k = 1 => j[k][2] = 1
               /\ k > 1 => Follows(j[k - 1], j[k])
    <2>1. CASE k <= Len(s)
      <3>1. k \in 1 .. Len(s)
        BY <2>1
      <3>2. j[k] = s[k] /\ s[k][1] \in 1 .. m /\ s[k][2] \in 1 .. Len(ls[s[k][1]])
        BY <1>5, <3>1 DEF Laid
      <3>3. k = 1 => s[k][2] = 1
        BY <3>1 DEF Laid
      <3>4. k > 1 => Follows(j[k - 1], j[k])
        <4> SUFFICES ASSUME k > 1 PROVE Follows(j[k - 1], j[k])
          OBVIOUS
        <4>1. k - 1 \in 1 .. Len(s)
          BY <3>1
        <4>2. j[k - 1] = s[k - 1]
          BY <1>5, <4>1
        <4>3. Follows(s[k - 1], s[k])
          BY <3>1 DEF Laid
        <4> QED
          BY <3>2, <4>2, <4>3
      <3> QED
        BY <3>2, <3>3, <3>4
    <2>2. CASE k > Len(s)
      <3> DEFINE i == k - Len(s)
      <3>1. i \in 1 .. n /\ k = Len(s) + i
        BY <1>1, <1>4, <1>5, <2>2
      <3> HIDE DEF i
      <3>2. j[k] = <<m + 1, i>>
        BY <1>5, <3>1
      <3>3. k = 1 => i = 1
        BY <1>4, <3>1
      <3>4. k > 1 => Follows(j[k - 1], j[k])
        <4> SUFFICES ASSUME k > 1 PROVE Follows(j[k - 1], j[k])
          OBVIOUS
        <4>1. CASE i = 1
          <5>1. k - 1 = Len(s) /\ Len(s) \in 1 .. Len(s)
            BY <1>4, <3>1, <4>1
          <5>2. j[k - 1] = s[Len(s)] /\ s[Len(s)][1] \in 1 .. m
            BY <1>5, <5>1 DEF Laid
          <5> QED
            BY <3>2, <4>1, <5>2 DEF Follows
        <4>2. CASE i # 1
          <5>1. i - 1 \in 1 .. n /\ k - 1 = Len(s) + (i - 1)
            BY <1>1, <1>4, <3>1, <4>2
          <5>2. j[k - 1] = <<m + 1, i - 1>>
            BY <1>5, <5>1
          <5> QED
            BY <3>1, <3>2, <5>2 DEF Follows
        <4> QED
          BY <4>1, <4>2
      <3>5. j[k][1] = m + 1 /\ j[k][2] = i
        BY <3>2
      <3> QED
        BY <1>1, <3>1, <3>3, <3>4, <3>5 DEF n
    <2> QED
      BY <1>1, <1>4, <1>5, <2>1, <2>2
  <1>8. Laid(ls, m + 1, j)
    BY <1>5, <1>6, <1>7 DEF Laid
  <1> QED
    BY <1>8 DEF j, t, n

(* The loops over lists and their blocks, as a function. *)
UpTo(ls) ==
  CHOOSE f : f = [l \in 0 .. Len(ls) |->
                   IF l = 0 THEN <<>> ELSE f[l - 1] \o [b \in 1 .. Len(ls[l]) |-> <<l, b>>]]

(* What the loop over the blocks of one more list adds. *)
LEMMA UpToRow ==
  ASSUME NEW D, NEW ls \in Seq(Seq(D))
  PROVE  /\ UpTo(ls)[0] = <<>>
         /\ \A l \in 1 .. Len(ls) :
              UpTo(ls)[l] = UpTo(ls)[l - 1] \o [b \in 1 .. Len(ls[l]) |-> <<l, b>>]
  <1> DEFINE X      == Seq(Nat \X Nat)
             row(l) == [b \in 1 .. Len(ls[l]) |-> <<l, b>>]
             step   == [p \in X \X Nat |-> IF p[2] \in 1 .. Len(ls) THEN p[1] \o row(p[2]) ELSE p[1]]
             Row(f) == [l \in 0 .. Len(ls) |-> IF l = 0 THEN <<>> ELSE f[l - 1] \o row(l)]
  <1>0. Len(ls) \in Nat
    OBVIOUS
  <1>1. ASSUME NEW l \in 1 .. Len(ls)
        PROVE  row(l) \in X
    <2>1. Len(ls[l]) \in Nat /\ l \in Nat
      OBVIOUS
    <2>2. row(l) \in [1 .. Len(ls[l]) -> Nat \X Nat]
      BY <2>1
    <2> HIDE DEF row
    <2> QED
      BY <2>1, <2>2, FunctionIsSequence
  <1> HIDE DEF row
  <1>2. PICK g : Recursion(g, X, <<>>, step, Len(ls))
    <2>1. step \in [X \X Nat -> X]
      <3>1. ASSUME NEW p \in X \X Nat
            PROVE  (IF p[2] \in 1 .. Len(ls) THEN p[1] \o row(p[2]) ELSE p[1]) \in X
        <4>1. p[1] \in X
          OBVIOUS
        <4>2. CASE p[2] \in 1 .. Len(ls)
          <5>1. row(p[2]) \in X
            BY <1>1, <4>2
          <5> QED
            BY <4>1, <4>2, <5>1
        <4> QED
          BY <4>1, <4>2
      <3> QED
        BY <3>1
    <2>2. <<>> \in X /\ Len(ls) \in Nat
      OBVIOUS
    <2> HIDE DEF step, X
    <2> QED
      BY <2>1, <2>2, RecursionExists
  <1>3. ASSUME NEW n \in 1 .. Len(ls)
        PROVE  g[n] = g[n - 1] \o row(n)
    <2>1. n - 1 \in 0 .. Len(ls) /\ n \in Nat
      BY <1>0
    <2>2. g[n - 1] \in X
      <3> HIDE DEF X, step
      <3> QED
        BY <1>2, <2>1 DEF Recursion
    <2>3. g[n] = step[<<g[n - 1], n>>]
      <3> HIDE DEF X, step
      <3> QED
        BY <1>2 DEF Recursion
    <2> HIDE DEF X
    <2> QED
      BY <2>1, <2>2, <2>3
  <1>4. g = Row(g)
    <2>1. g = [n \in 0 .. Len(ls) |-> g[n]] /\ g[0] = <<>>
      <3> HIDE DEF X, step
      <3> QED
        BY <1>2 DEF Recursion
    <2>2. ASSUME NEW n \in 0 .. Len(ls)
          PROVE  g[n] = IF n = 0 THEN <<>> ELSE g[n - 1] \o row(n)
      <3>1. n # 0 => n \in 1 .. Len(ls)
        BY <1>0
      <3> QED
        BY <1>3, <2>1, <3>1
    <2> QED
      BY <2>1, <2>2
  <1>5. UpTo(ls) = CHOOSE f : f = Row(f)
    BY DEF UpTo, row
  <1> HIDE DEF Row
  <1>6. UpTo(ls) = Row(UpTo(ls))
    BY <1>4, <1>5
  <1> DEFINE f == UpTo(ls)
  <1> HIDE DEF f
  <1>7. f = [l \in 0 .. Len(ls) |-> IF l = 0 THEN <<>> ELSE f[l - 1] \o row(l)]
    BY <1>6 DEF Row, f
  <1>8. f[0] = <<>> /\ \A l \in 1 .. Len(ls) : f[l] = f[l - 1] \o row(l)
    <2>1. 0 \in 0 .. Len(ls)
      BY <1>0
    <2>2. f[0] = <<>>
      BY <1>7, <2>1
    <2>3. ASSUME NEW l \in 1 .. Len(ls)
          PROVE  f[l] = f[l - 1] \o row(l)
      <3>1. l \in 0 .. Len(ls) /\ l # 0
        BY <1>0
      <3> QED
        BY <1>7, <3>1
    <2> QED
      BY <2>2, <2>3
  <1> QED
    BY <1>8 DEF f, row

(* InOrder has every block of every list once they are all passed, in order.*)
LEMMA InOrderIs ==
  ASSUME NEW D, NEW ls \in Seq(Seq(D))
  PROVE  Laid(ls, Len(ls), InOrder(ls))
  <1> DEFINE T == {m \in Nat : m <= Len(ls) => Laid(ls, m, UpTo(ls)[m])}
  <1>1. 0 \in T
    <2>1. UpTo(ls)[0] = <<>>
      BY UpToRow
    <2>2. Laid(ls, 0, <<>>)
      BY DEF Laid
    <2> QED
      BY <2>1, <2>2
  <1>2. ASSUME NEW m \in Nat, m \in T
        PROVE  m + 1 \in T
    <2> SUFFICES ASSUME m + 1 <= Len(ls) PROVE Laid(ls, m + 1, UpTo(ls)[m + 1])
      OBVIOUS
    <2>1. Laid(ls, m, UpTo(ls)[m])
      BY <1>2
    <2>2. m + 1 \in 1 .. Len(ls) /\ (m + 1) - 1 = m
      OBVIOUS
    <2>3. UpTo(ls)[m + 1] = UpTo(ls)[m] \o [b \in 1 .. Len(ls[m + 1]) |-> <<m + 1, b>>]
      BY <2>2, UpToRow
    <2> QED
      BY <2>1, <2>3, LaidNext
  <1> HIDE DEF T
  <1>3. Len(ls) \in T
    BY <1>1, <1>2, NatSetInduction
  <1>4. InOrder(ls) = UpTo(ls)[Len(ls)]
    BY DEF InOrder, UpTo
  <1> QED
    BY <1>3, <1>4 DEF T
-----------------------------------------------------------------------------
(* Where the blocks are. *)

Corpora == Seq(Seq(Seq(0 .. Len(Nnz) - 1)))

(* The k-th block in order is a block of a list. *)
LEMMA BlockIs ==
  ASSUME NEW ls \in Corpora, NEW k \in 1 .. Len(InOrder(ls))
  PROVE  LET p == InOrder(ls)[k]
         IN  /\ p \in Nat \X Nat /\ p[1] \in 1 .. Len(ls) /\ p[2] \in 1 .. Len(ls[p[1]])
             /\ ls[p[1]] \in Seq(Seq(0 .. Len(Nnz) - 1))
             /\ ls[p[1]][p[2]] \in Seq(0 .. Len(Nnz) - 1)
  <1> DEFINE p == InOrder(ls)[k]
             D == Seq(0 .. Len(Nnz) - 1)
  <1>1. ls \in Seq(Seq(D))
    BY DEF Corpora
  <1> HIDE DEF D
  <1>2. Laid(ls, Len(ls), InOrder(ls))
    BY <1>1, InOrderIs
  <1>3. InOrder(ls) \in Seq(Nat \X Nat) /\ p[1] \in 1 .. Len(ls) /\ p[2] \in 1 .. Len(ls[p[1]])
    BY <1>2 DEF Laid
  <1>4. p \in Nat \X Nat
    BY <1>3
  <1> HIDE DEF p
  <1>5. ls[p[1]] \in Seq(D)
    BY <1>1, <1>3
  <1>6. ls[p[1]][p[2]] \in D
    BY <1>3, <1>5
  <1> QED
    BY <1>3, <1>4, <1>5, <1>6 DEF p, D

(* What grows with every step is greater at any later one. *)
LEMMA StepsGrow ==
  ASSUME NEW n \in Nat, NEW f \in [0 .. n -> Nat], \A k \in 1 .. n : f[k - 1] < f[k]
  PROVE  \A i, j \in 0 .. n : i < j => f[i] < f[j]
  <1> DEFINE T == {j \in Nat : j <= n => \A i \in 0 .. n : i < j => f[i] < f[j]}
  <1>1. 0 \in T
    OBVIOUS
  <1>2. ASSUME NEW j \in Nat, j \in T
        PROVE  j + 1 \in T
    <2> SUFFICES ASSUME j + 1 <= n, NEW i \in 0 .. n, i < j + 1
                 PROVE  f[i] < f[j + 1]
      OBVIOUS
    <2>1. j + 1 \in 1 .. n /\ (j + 1) - 1 = j /\ j \in 0 .. n /\ j + 1 \in 0 .. n
      OBVIOUS
    <2>2. f[j] < f[j + 1] /\ f[j] \in Nat /\ f[j + 1] \in Nat /\ f[i] \in Nat
      BY <2>1
    <2>3. i = j \/ i < j
      BY <2>1
    <2>4. i < j => f[i] < f[j]
      BY <1>2, <2>1
    <2> QED
      BY <2>2, <2>3, <2>4
  <1> HIDE DEF T
  <1>3. \A j \in Nat : j \in T
    BY <1>1, <1>2, NatSetInduction
  <1> QED
    BY <1>3 DEF T

(* The sizing pass: each block starts on the alignment, behind the one      *)
(* before it.                                                               *)
LEMMA SizedIs ==
  ASSUME NEW ls \in Corpora, NEW w \in {1, 2, 4}, NEW a \in Alignments
  PROVE  LET n == Len(InOrder(ls))
             f == Sized(ls, w, a)
             end(k) == EndOf(ls[InOrder(ls)[k][1]][InOrder(ls)[k][2]], w)
         IN  /\ n \in Nat
             /\ f \in [0 .. n -> Nat]
             /\ f[0] = AlignUp(HeaderSize, a)
             /\ \A k \in 1 .. n : f[k] = AlignUp(f[k - 1] + end(k), a) /\ f[k - 1] + end(k) <= f[k]
             /\ \A k \in 0 .. n : HeaderSize <= f[k] /\ f[k] % a = 0
             /\ \A i, j \in 0 .. n : i < j => f[i] < f[j]
  <1> DEFINE s      == InOrder(ls)
             n      == Len(s)
             end(k) == EndOf(ls[s[k][1]][s[k][2]], w)
             step   == [p \in Nat \X Nat |-> IF p[2] \in 1 .. n THEN AlignUp(p[1] + end(p[2]), a) ELSE p[1]]
             Row(g) == [k \in 0 .. n |-> IF k = 0 THEN AlignUp(HeaderSize, a)
                                         ELSE AlignUp(g[k - 1] + end(k), a)]
             f      == Sized(ls, w, a)
             x0     == AlignUp(HeaderSize, a)
  <1>1. n \in Nat
    <2> DEFINE D == Seq(0 .. Len(Nnz) - 1)
    <2>1. ls \in Seq(Seq(D))
      BY DEF Corpora
    <2> HIDE DEF D
    <2>2. Laid(ls, Len(ls), s)
      BY <2>1, InOrderIs
    <2> QED
      BY <2>2 DEF Laid
  <1>2. \A k \in 1 .. n : end(k) \in Nat /\ 8 <= end(k)
    BY BlockIs, BlockEnds
  <1>3. f = CHOOSE g : g = Row(g)
    BY DEF Sized
  <1>4. a \in Nat /\ a # 0
    BY AlignmentIs
  <1> HIDE DEF end, n, f
  <1>5. x0 \in Nat /\ HeaderSize <= x0 /\ x0 % a = 0
    BY <1>4, AlignUpIs DEF HeaderSize
  <1> HIDE DEF x0
  <1>6. ASSUME NEW o \in Nat, NEW k \in 1 .. n
        PROVE  AlignUp(o + end(k), a) \in Nat /\ o + end(k) <= AlignUp(o + end(k), a)
               /\ AlignUp(o + end(k), a) % a = 0
    <2>1. o + end(k) \in Nat
      BY <1>2
    <2> QED
      BY <1>4, <2>1, AlignUpIs
  <1>7. PICK g : Recursion(g, Nat, x0, step, n)
    <2>1. step \in [Nat \X Nat -> Nat]
      <3>1. ASSUME NEW p \in Nat \X Nat
            PROVE  (IF p[2] \in 1 .. n THEN AlignUp(p[1] + end(p[2]), a) ELSE p[1]) \in Nat
        <4>1. p[1] \in Nat
          OBVIOUS
        <4> QED
          BY <1>6, <4>1
      <3> QED
        BY <3>1
    <2> HIDE DEF step
    <2> QED
      BY <1>1, <1>5, <2>1, RecursionExists
  <1>8. g \in [0 .. n -> Nat] /\ g[0] = x0
    <2> HIDE DEF step
    <2> QED
      BY <1>7 DEF Recursion
  <1>9. ASSUME NEW k \in 1 .. n
        PROVE  g[k] = AlignUp(g[k - 1] + end(k), a) /\ g[k - 1] \in Nat /\ k - 1 \in 0 .. n /\ g[k] \in Nat
    <2>1. k - 1 \in 0 .. n /\ k \in 0 .. n /\ k \in Nat
      BY <1>1
    <2>2. g[k - 1] \in Nat /\ g[k] \in Nat
      BY <1>8, <2>1
    <2>3. g[k] = step[<<g[k - 1], k>>]
      <3> HIDE DEF step
      <3> QED
        BY <1>7 DEF Recursion
    <2> QED
      BY <2>1, <2>2, <2>3
  <1>10. g = Row(g)
    <2>1. g = [k \in 0 .. n |-> g[k]]
      BY <1>8
    <2>2. ASSUME NEW k \in 0 .. n
          PROVE  g[k] = IF k = 0 THEN AlignUp(HeaderSize, a) ELSE AlignUp(g[k - 1] + end(k), a)
      <3>1. k # 0 => k \in 1 .. n
        BY <1>1
      <3> QED
        BY <1>8, <1>9, <3>1 DEF x0
    <2> QED
      BY <2>1, <2>2
  <1> HIDE DEF Row
  <1>11. f = Row(f)
    BY <1>3, <1>10
  <1>12. f = [k \in 0 .. n |-> IF k = 0 THEN x0 ELSE AlignUp(f[k - 1] + end(k), a)]
    BY <1>11 DEF Row, x0
  <1>13. f[0] = x0 /\ DOMAIN f = 0 .. n
    <2>1. 0 \in 0 .. n
      BY <1>1
    <2> QED
      BY <1>12, <2>1
  <1>14. ASSUME NEW k \in 1 .. n
         PROVE  f[k] = AlignUp(f[k - 1] + end(k), a)
    <2>1. k \in 0 .. n /\ k # 0
      BY <1>1
    <2> QED
      BY <1>12, <2>1
  <1>15. \A k \in 0 .. n : f[k] \in Nat /\ HeaderSize <= f[k] /\ f[k] % a = 0
    <2> DEFINE Good(k) == f[k] \in Nat /\ HeaderSize <= f[k] /\ f[k] % a = 0
               T       == {k \in Nat : k <= n => Good(k)}
    <2>1. 0 \in T
      BY <1>5, <1>13
    <2>2. ASSUME NEW k \in Nat, k \in T
          PROVE  k + 1 \in T
      <3> SUFFICES ASSUME k + 1 <= n PROVE Good(k + 1)
        OBVIOUS
      <3>1. k + 1 \in 1 .. n /\ (k + 1) - 1 = k /\ k <= n
        BY <1>1
      <3>2. f[k] \in Nat /\ HeaderSize <= f[k]
        BY <2>2, <3>1
      <3>3. f[k + 1] = AlignUp(f[k] + end(k + 1), a)
        BY <1>14, <3>1
      <3>4. f[k + 1] \in Nat /\ f[k] + end(k + 1) <= f[k + 1] /\ f[k + 1] % a = 0
        BY <1>6, <3>1, <3>2, <3>3
      <3>5. end(k + 1) \in Nat
        BY <1>2, <3>1
      <3> QED
        BY <3>2, <3>4, <3>5 DEF HeaderSize
    <2> HIDE DEF T
    <2>3. \A k \in Nat : k \in T
      BY <2>1, <2>2, NatSetInduction
    <2>4. ASSUME NEW k \in 0 .. n
          PROVE  Good(k)
      <3>1. k \in T /\ k \in Nat /\ k <= n
        BY <1>1, <2>3
      <3> QED
        BY <3>1 DEF T
    <2> QED
      BY <2>4
  <1>16. f \in [0 .. n -> Nat]
    BY <1>12, <1>13, <1>15
  <1>17. ASSUME NEW k \in 1 .. n
         PROVE  f[k - 1] + end(k) <= f[k] /\ f[k - 1] < f[k]
    <2>1. k - 1 \in 0 .. n /\ k \in 0 .. n
      BY <1>1
    <2>2. f[k - 1] \in Nat /\ f[k] \in Nat
      BY <1>16, <2>1
    <2>3. f[k - 1] + end(k) <= f[k]
      BY <1>6, <1>14, <2>2
    <2> QED
      BY <1>2, <2>2, <2>3
  <1>18. \A i, j \in 0 .. n : i < j => f[i] < f[j]
    BY <1>1, <1>16, <1>17, StepsGrow
  <1> QED
    BY <1>1, <1>13, <1>14, <1>15, <1>16, <1>17, <1>18 DEF end, n, f, x0
-----------------------------------------------------------------------------
(* The inductive invariant.                                                 *)

DirEntry == [pl : Nat, block : Nat, off : Nat, len : Nat, n : Nat]

(* The directory's entry of the k-th block, and the block. *)
EntryOf(ls, w, a, k) ==
  LET p == InOrder(ls)[k]
  IN  [pl |-> p[1] - 1, block |-> p[2] - 1, off |-> Sized(ls, w, a)[k - 1],
       len |-> EndOf(ls[p[1]][p[2]], w), n |-> Len(ls[p[1]][p[2]])]

ContentOf(ls, k) ==
  LET p == InOrder(ls)[k]
  IN  [ids |-> ls[p[1]][p[2]], offsets |-> OffsetsOf(ls[p[1]][p[2]])]

ChosenInv == lists_ \in Inputs /\ width \in Widths /\ align \in Alignments /\ pc \in Pcs

(* What is written is the blocks before the one to write next, each where   *)
(* the sizing pass has it.                                                  *)
BodyInv ==
  LET s     == InOrder(lists_)
      start == Sized(lists_, width, align)
  IN  /\ pos \in Nat /\ base \in Nat /\ base % 8 = 0 /\ length \in Nat /\ cur \in Nat
      /\ dir \in Seq(DirEntry) /\ todo \in Seq(Nat \X Nat)
      /\ Len(dir) <= Len(s)
      /\ \A i \in 1 .. Len(dir) : dir[i] = EntryOf(lists_, width, align, i)
      /\ DOMAIN blocks = {start[i - 1] : i \in 1 .. Len(dir)}
      /\ \A i \in 1 .. Len(dir) : blocks[start[i - 1]] = ContentOf(lists_, i)
      /\ base = 0 => pc \in {"sizing", "threw"} /\ dir = <<>> /\ todo = <<>>
      /\ base # 0 =>
           /\ pc \notin {"sizing", "threw"}
           /\ length = SectionLength
           /\ cur = start[Len(dir)]
           /\ Len(todo) = Len(s) - Len(dir)
           /\ \A j \in 1 .. Len(todo) : todo[j] = s[Len(dir) + j]
           /\ pc = "body" => pos = base + cur
           /\ pc # "body" => todo = <<>>

(* The section as it was written. *)
WholeSection ==
  [length |-> length, width |-> width, page |-> align, nBlocks |-> Len(InOrder(lists_)),
   dir |-> dir, dirOffset |-> cur, nEntries |-> Len(dir), nLists |-> Len(lists_),
   present |-> length, intact |-> TRUE]

Sections ==
  [length : Nat, width : Nat, page : Nat, nBlocks : Nat, dir : Seq(DirEntry), dirOffset : Nat,
   nEntries : Nat, nLists : Nat, present : Nat, intact : BOOLEAN]

SectionNumbers(f) == f \in Sections /\ Len(f.dir) = Len(dir)

MappedInv ==
  /\ pc \in {"sizing", "body", "threw"} => section = NoFile
  /\ pc \notin {"sizing", "body", "threw"} =>
       /\ SectionNumbers(section)
       /\ section.intact => section = WholeSection
  /\ pc = "written" => section = WholeSection
  /\ pc = "rejected" => ~section.intact
  /\ pc \in {"sizing", "body", "threw", "written", "mapping"} => at = 1 /\ counts = <<>>
  /\ at \in 1 .. Len(dir) + 1
  /\ \A l \in DOMAIN counts : counts[l] \in 0 .. Len(dir)

(* The entries before the one to look at next: each is where the counts of  *)
(* the lists before its own, and its place in its own, say.                 *)
EntryPlaced(i) ==
  LET e == section.dir[i]
  IN  /\ EntryFits(e)
      /\ e.block < counts[e.pl]
      /\ SumBelow(counts, e.pl) + e.block + 1 = i

LoadInv ==
  pc \in {"entries", "loaded"} =>
    /\ WithinMapping(section) /\ HeaderAccepted(section)
    /\ counts \in [0 .. section.nLists - 1 -> Nat]
    /\ SumOf(counts) = at - 1
    /\ \A i \in 1 .. at - 1 : EntryPlaced(i) /\ section.dir[i].pl <= section.dir[at - 1].pl
    /\ \A l \in DOMAIN counts : at = 1 \/ l > section.dir[at - 1].pl => counts[l] = 0
    /\ at > 1 => counts[section.dir[at - 1].pl] = section.dir[at - 1].block + 1
    /\ pc = "loaded" => at = Len(dir) + 1

SectionInv == ChosenInv /\ BodyInv /\ MappedInv /\ LoadInv
-----------------------------------------------------------------------------
(* What the invariant says of the input. *)
LEMMA ChosenIs ==
  ASSUME ChosenInv
  PROVE  /\ lists_ \in Corpora /\ width \in {1, 2, 4} /\ align \in Alignments
         /\ Len(InOrder(lists_)) \in Nat /\ InOrder(lists_) \in Seq(Nat \X Nat)
  <1>1. lists_ \in Corpora /\ width \in {1, 2, 4} /\ align \in Alignments
    BY InputsAssumption, WidthAssumption DEF ChosenInv, Corpora
  <1> DEFINE D == Seq(0 .. Len(Nnz) - 1)
  <1>2. lists_ \in Seq(Seq(D))
    BY <1>1 DEF Corpora
  <1> HIDE DEF D
  <1>3. Laid(lists_, Len(lists_), InOrder(lists_))
    BY <1>2, InOrderIs
  <1> QED
    BY <1>1, <1>3 DEF Laid

(* An entry is made of numbers. *)
LEMMA EntryIs ==
  ASSUME NEW ls \in Corpora, NEW w \in {1, 2, 4}, NEW a \in Alignments,
         NEW k \in 1 .. Len(InOrder(ls))
  PROVE  EntryOf(ls, w, a, k) \in DirEntry
  <1> DEFINE p == InOrder(ls)[k]
             docs == ls[p[1]][p[2]]
  <1>1. p \in Nat \X Nat /\ p[1] \in 1 .. Len(ls) /\ p[2] \in 1 .. Len(ls[p[1]])
        /\ docs \in Seq(0 .. Len(Nnz) - 1)
    BY BlockIs
  <1>2. EndOf(docs, w) \in Nat /\ Len(docs) \in Nat
    BY <1>1, BlockEnds
  <1>3. Sized(ls, w, a)[k - 1] \in Nat
    <2>1. Len(InOrder(ls)) \in Nat /\ Sized(ls, w, a) \in [0 .. Len(InOrder(ls)) -> Nat]
      BY SizedIs
    <2>2. k - 1 \in 0 .. Len(InOrder(ls))
      BY <2>1
    <2> QED
      BY <2>1, <2>2
  <1>4. p[1] - 1 \in Nat /\ p[2] - 1 \in Nat
    BY <1>1
  <1>5. EntryOf(ls, w, a, k) =
          [pl |-> p[1] - 1, block |-> p[2] - 1, off |-> Sized(ls, w, a)[k - 1],
           len |-> EndOf(docs, w), n |-> Len(docs)]
    BY DEF EntryOf
  <1> HIDE DEF p, docs
  <1> QED
    BY <1>2, <1>3, <1>4, <1>5 DEF DirEntry

(* Each step keeps the invariant; one lemma for each action. *)
LEMMA InitKeeps ==
  ASSUME SectionInit
  PROVE  SectionInv
  <1>1. ChosenInv
    BY DEF SectionInit, ChosenInv, Pcs
  <1>2. Len(InOrder(lists_)) \in Nat
    BY <1>1, ChosenIs
  <1>3. BodyInv
    <2>1. pos \in Nat
      BY StartsAssumption DEF SectionInit
    <2>2. /\ dir = <<>> /\ todo = <<>> /\ blocks = <<>> /\ base = 0 /\ length = 0 /\ cur = 0
          /\ pc = "sizing"
      BY DEF SectionInit
    <2>3. DOMAIN blocks = {} /\ Len(dir) = 0
      BY <2>2
    <2>4. dir \in Seq(DirEntry) /\ todo \in Seq(Nat \X Nat)
      BY <2>2
    <2>5. DOMAIN blocks = {Sized(lists_, width, align)[i - 1] : i \in 1 .. Len(dir)}
      BY <2>3
    <2> QED
      BY <1>2, <2>1, <2>2, <2>3, <2>4, <2>5 DEF BodyInv
  <1>4. MappedInv
    BY DEF SectionInit, MappedInv
  <1>5. LoadInv
    BY DEF SectionInit, LoadInv
  <1> QED
    BY <1>1, <1>3, <1>4, <1>5 DEF SectionInv

(* serialize writes nothing it has to refuse later.                         *)
LEMMA SerializeKeeps ==
  ASSUME SectionInv, Serialize
  PROVE  SectionInv'
  <1>0. ChosenInv /\ BodyInv /\ MappedInv
    BY DEF SectionInv
  <1>1. /\ pc = "sizing"
        /\ UNCHANGED <<lists_, width, align, blocks, dir, section, at, counts>>
    BY DEF Serialize
  <1> DEFINE s     == InOrder(lists_)
             start == Sized(lists_, width, align)
  <1>2. /\ lists_ \in Corpora /\ width \in {1, 2, 4} /\ align \in Alignments
        /\ Len(s) \in Nat /\ s \in Seq(Nat \X Nat)
    BY <1>0, ChosenIs
  <1>3. start \in [0 .. Len(s) -> Nat] /\ start[0] = AlignUp(HeaderSize, align)
    BY <1>2, SizedIs
  <1>4. pos \in Nat /\ length \in Nat /\ cur \in Nat
    BY <1>0 DEF BodyInv
  <1>5. dir = <<>> /\ base = 0 /\ todo = <<>>
    <2>1. base = 0
      BY <1>0, <1>1 DEF BodyInv
    <2> QED
      BY <1>0, <2>1 DEF BodyInv
  <1>6. DOMAIN blocks = {} /\ Len(dir) = 0
    <2>1. Len(dir) = 0
      BY <1>5
    <2>2. DOMAIN blocks = {start[i - 1] : i \in 1 .. Len(dir)}
      BY <1>0 DEF BodyInv
    <2> QED
      BY <2>1, <2>2
  <1>7. ChosenInv'
    BY <1>0, <1>1 DEF ChosenInv, Serialize, Pcs
  <1> HIDE DEF s, start
  <1>8. BodyInv'
    <2>1. CASE \A p \in Range(InOrder(lists_)) : Countable(BlockDocs(p))
      <3>1. /\ length' = SectionLength /\ base' = AlignUp(pos, MinBlockAlign) + 8
            /\ cur' = AlignUp(HeaderSize, align) /\ pos' = base' + cur'
            /\ todo' = s /\ pc' = "body"
        BY <2>1 DEF Serialize, s
      <3>2. base' \in Nat /\ base' # 0 /\ base' % 8 = 0
        <4>1. AlignUp(pos, 8) \in Nat /\ AlignUp(pos, 8) % 8 = 0
          BY <1>4, AlignUpIs
        <4> QED
          BY <3>1, <4>1 DEF MinBlockAlign
      <3>3. 0 \in 0 .. Len(s) /\ Len(s) \in 0 .. Len(s)
        BY <1>2
      <3>4. cur' = start[0] /\ cur' \in Nat
        BY <1>3, <3>1, <3>3
      <3>5. SectionLength \in Nat
        <4>1. start[Len(s)] \in Nat /\ Len(s) \in Nat
          BY <1>2, <1>3, <3>3
        <4> QED
          BY <4>1 DEF SectionLength, EndSize, EntrySize, TrailerSize, s, start
      <3>6. pos' \in Nat
        BY <3>1, <3>2, <3>4
      <3>7. SectionLength' = SectionLength
        BY <1>1 DEF SectionLength, EndSize
      <3>8. InOrder(lists_)' = s /\ Sized(lists_, width, align)' = start
        BY <1>1 DEF s, start
      <3>9. /\ pos' \in Nat /\ base' \in Nat /\ base' % 8 = 0 /\ length' \in Nat /\ cur' \in Nat
            /\ dir' \in Seq(DirEntry) /\ todo' \in Seq(Nat \X Nat)
            /\ Len(dir') <= Len(s) /\ Len(dir') = 0
        BY <1>1, <1>2, <1>5, <1>6, <3>1, <3>2, <3>4, <3>5, <3>6
      <3>10. DOMAIN blocks' = {start[i - 1] : i \in 1 .. Len(dir')}
        BY <1>1, <1>6
      <3>11. /\ cur' = start[Len(dir')]
             /\ Len(todo') = Len(s) - Len(dir')
             /\ \A j \in 1 .. Len(todo') : todo'[j] = s[Len(dir') + j]
        BY <1>2, <3>1, <3>4, <3>9
      <3> QED
        BY <3>1, <3>2, <3>7, <3>8, <3>9, <3>10, <3>11 DEF BodyInv
    <2>2. CASE ~(\A p \in Range(InOrder(lists_)) : Countable(BlockDocs(p)))
      <3>1. pc' = "threw" /\ UNCHANGED <<length, base, cur, pos, todo>>
        BY <2>2 DEF Serialize
      <3> QED
        BY <1>0, <1>1, <1>5, <3>1 DEF BodyInv
    <2> QED
      BY <2>1, <2>2
  <1>9. pc' \in {"body", "threw"}
    BY DEF Serialize
  <1>10. MappedInv'
    BY <1>0, <1>1, <1>9 DEF MappedInv
  <1>11. LoadInv'
    BY <1>9 DEF LoadInv
  <1> QED
    BY <1>7, <1>8, <1>10, <1>11 DEF SectionInv

(* What is left of a sequence without its head. *)
LEMMA SequenceTail ==
  ASSUME NEW S, NEW s \in Seq(S), s # <<>>
  PROVE  /\ Tail(s) \in Seq(S) /\ Head(s) = s[1] /\ Len(s) # 0
         /\ Len(Tail(s)) = Len(s) - 1
         /\ \A j \in 1 .. Len(Tail(s)) : Tail(s)[j] = s[j + 1]
OBVIOUS

(* A block is written where the sizing pass has it.                         *)
LEMMA WriteBlockKeeps ==
  ASSUME SectionInv, WriteBlock
  PROVE  SectionInv'
  <1>0. ChosenInv /\ BodyInv /\ MappedInv
    BY DEF SectionInv
  <1> DEFINE s     == InOrder(lists_)
             start == Sized(lists_, width, align)
             n     == Len(dir)
             k     == n + 1
             docs  == lists_[s[k][1]][s[k][2]]
  <1>1. /\ pc = "body" /\ todo # <<>>
        /\ UNCHANGED <<lists_, width, align, pc, base, length, section, at, counts>>
    BY DEF WriteBlock
  <1>2. /\ lists_ \in Corpora /\ width \in {1, 2, 4} /\ align \in Alignments
        /\ Len(s) \in Nat /\ s \in Seq(Nat \X Nat)
    BY <1>0, ChosenIs
  <1>3. base # 0
    BY <1>0, <1>1 DEF BodyInv
  <1>4. /\ pos \in Nat /\ base \in Nat /\ length \in Nat /\ cur \in Nat
        /\ dir \in Seq(DirEntry) /\ todo \in Seq(Nat \X Nat) /\ n \in Nat
        /\ length = SectionLength /\ cur = start[n] /\ Len(todo) = Len(s) - n
        /\ pos = base + cur /\ base % 8 = 0
    BY <1>0, <1>1, <1>3 DEF BodyInv
  <1>5. /\ \A j \in 1 .. Len(todo) : todo[j] = s[n + j]
        /\ \A i \in 1 .. n : dir[i] = EntryOf(lists_, width, align, i)
        /\ DOMAIN blocks = {start[i - 1] : i \in 1 .. n}
        /\ \A i \in 1 .. n : blocks[start[i - 1]] = ContentOf(lists_, i)
    BY <1>0, <1>3 DEF BodyInv
  <1>6. /\ Tail(todo) \in Seq(Nat \X Nat) /\ Head(todo) = todo[1] /\ Len(todo) # 0
        /\ Len(Tail(todo)) = Len(todo) - 1 /\ Len(todo) \in Nat
        /\ \A j \in 1 .. Len(Tail(todo)) : Tail(todo)[j] = todo[j + 1]
    BY <1>1, <1>4, SequenceTail
  <1>7. k \in 1 .. Len(s) /\ Head(todo) = s[k]
    <2>1. 1 \in 1 .. Len(todo) /\ k \in 1 .. Len(s)
      <3>1. n \in Nat /\ Len(s) \in Nat /\ Len(todo) \in Nat /\ Len(todo) # 0 /\ Len(todo) = Len(s) - n
        BY <1>2, <1>4, <1>6
      <3> HIDE DEF n, s
      <3> QED
        BY <3>1
    <2> QED
      BY <1>5, <1>6, <2>1
  <1>8. /\ start \in [0 .. Len(s) -> Nat]
        /\ start[k] = AlignUp(start[k - 1] + EndOf(docs, width), align)
        /\ \A i, j \in 0 .. Len(s) : i < j => start[i] < start[j]
    BY <1>2, <1>7, SizedIs
  <1>9. /\ s[k] \in Nat \X Nat /\ docs \in Seq(0 .. Len(Nnz) - 1)
    BY <1>2, <1>7, BlockIs
  <1>10. BlockDocs(Head(todo)) = docs /\ k - 1 = n /\ n \in 0 .. Len(s)
    <2>1. BlockDocs(Head(todo)) = docs
      BY <1>7 DEF BlockDocs
    <2>2. n \in Nat
      BY <1>4
    <2> HIDE DEF docs, s, n
    <2> QED
      BY <1>2, <1>7, <2>1, <2>2
  <1>11. /\ cur' = AlignUp(cur + EndOf(docs, width), align)
         /\ pos' = pos + (cur' - cur)
         /\ blocks' = [o \in DOMAIN blocks \union {cur} |->
                         IF o = cur THEN [ids |-> docs, offsets |-> OffsetsOf(docs)] ELSE blocks[o]]
         /\ dir' = Append(dir, [pl |-> s[k][1] - 1, block |-> s[k][2] - 1, off |-> cur,
                                len |-> EndOf(docs, width), n |-> Len(docs)])
         /\ todo' = Tail(todo)
    BY <1>7, <1>10 DEF WriteBlock
  <1>12. dir' = Append(dir, EntryOf(lists_, width, align, k))
    BY <1>4, <1>10, <1>11 DEF EntryOf
  <1>13. EntryOf(lists_, width, align, k) \in DirEntry
    BY <1>2, <1>7, EntryIs
  <1>14. blocks' = [o \in DOMAIN blocks \union {cur} |->
                      IF o = cur THEN ContentOf(lists_, k) ELSE blocks[o]]
    BY <1>11 DEF ContentOf
  <1>15. InOrder(lists_)' = s /\ Sized(lists_, width, align)' = start /\ SectionLength' = SectionLength
    BY <1>1 DEF SectionLength, EndSize
  <1>16. cur' = start[k] /\ cur' \in Nat
    <2>1. cur' = start[k]
      BY <1>4, <1>8, <1>10, <1>11
    <2> HIDE DEF start, docs
    <2>2. k \in 0 .. Len(s)
      BY <1>2, <1>7
    <2> QED
      BY <1>8, <2>1, <2>2
  <1> HIDE DEF s, start, docs
  <1>17. dir' \in Seq(DirEntry) /\ Len(dir') = k /\ \A i \in 1 .. k : dir'[i] = EntryOf(lists_, width, align, i)
    BY <1>4, <1>5, <1>12, <1>13
  <1>18. /\ DOMAIN blocks' = {start[i - 1] : i \in 1 .. k}
         /\ \A i \in 1 .. k : blocks'[start[i - 1]] = ContentOf(lists_, i)
    <2>1. \A i \in 1 .. n : start[i - 1] # cur
      <3>1. ASSUME NEW i \in 1 .. n
            PROVE  start[i - 1] < start[n]
        <4>1. i - 1 \in 0 .. Len(s) /\ n \in 0 .. Len(s) /\ i - 1 < n
          <5> HIDE DEF n
          <5> QED
            BY <1>2, <1>10
        <4> QED
          BY <1>8, <4>1
      <3>2. ASSUME NEW i \in 1 .. n
            PROVE  start[i - 1] \in Nat
        <4>1. i - 1 \in 0 .. Len(s)
          BY <1>2, <1>4, <1>7
        <4> QED
          BY <1>8, <4>1
      <3> QED
        BY <1>4, <3>1, <3>2
    <2>2. cur = start[k - 1]
      BY <1>4, <1>10
    <2>3. 1 .. k = (1 .. n) \union {k}
      BY <1>4
    <2>4. DOMAIN blocks' = DOMAIN blocks \union {cur}
      BY <1>14
    <2>5. DOMAIN blocks' = {start[i - 1] : i \in 1 .. k}
      BY <1>5, <2>2, <2>3, <2>4
    <2>6. ASSUME NEW i \in 1 .. k
          PROVE  blocks'[start[i - 1]] = ContentOf(lists_, i)
      <3>1. start[i - 1] \in DOMAIN blocks \union {cur}
        BY <2>4, <2>5
      <3>2. CASE i = k
        BY <1>14, <2>2, <3>1, <3>2
      <3>3. CASE i # k
        <4>1. i \in 1 .. n
          BY <2>3, <3>3
        <4> QED
          BY <1>5, <1>14, <2>1, <3>1, <4>1
      <3> QED
        BY <3>2, <3>3
    <2> QED
      BY <2>5, <2>6
  <1>19. /\ todo' \in Seq(Nat \X Nat) /\ Len(todo') = Len(s) - k
         /\ \A j \in 1 .. Len(todo') : todo'[j] = s[k + j]
    <2>1. todo' \in Seq(Nat \X Nat) /\ Len(todo') = Len(todo) - 1
      BY <1>6, <1>11
    <2>2. ASSUME NEW j \in 1 .. Len(todo')
          PROVE  todo'[j] = s[k + j]
      <3>1. j + 1 \in 1 .. Len(todo) /\ n + (j + 1) = k + j
        BY <1>4, <1>6, <2>1
      <3>2. todo'[j] = todo[j + 1]
        BY <1>6, <1>11
      <3> QED
        BY <1>5, <3>1, <3>2
    <2> QED
      BY <1>2, <1>4, <2>1, <2>2
  <1>20. pos' \in Nat /\ pos' = base + cur'
    <2>1. pos + (cur' - cur) = base + cur'
      <3>1. pos = base + cur /\ base \in Nat /\ cur \in Nat /\ cur' \in Nat
        BY <1>4, <1>16
      <3> QED
        BY <3>1
    <2>2. pos' = base + cur'
      BY <1>11, <2>1
    <2>3. base + cur' \in Nat
      BY <1>4, <1>16
    <2> QED
      BY <2>2, <2>3
  <1>21. Len(dir') <= Len(s)
    BY <1>2, <1>7, <1>17
  <1>22. BodyInv'
    <2>1. \A i \in 1 .. Len(dir') : dir'[i] = EntryOf(lists_, width, align, i)
      BY <1>17
    <2>2. /\ DOMAIN blocks' = {start[i - 1] : i \in 1 .. Len(dir')}
          /\ \A i \in 1 .. Len(dir') : blocks'[start[i - 1]] = ContentOf(lists_, i)
      BY <1>17, <1>18
    <2>3. /\ Len(todo') = Len(s) - Len(dir') /\ \A j \in 1 .. Len(todo') : todo'[j] = s[Len(dir') + j]
          /\ cur' = start[Len(dir')]
      BY <1>16, <1>17, <1>19
    <2> HIDE DEF k
    <2>4. /\ pos' \in Nat /\ base' \in Nat /\ base' # 0 /\ base' % 8 = 0 /\ length' \in Nat
          /\ cur' \in Nat /\ dir' \in Seq(DirEntry) /\ todo' \in Seq(Nat \X Nat)
          /\ pc' = "body" /\ length' = SectionLength /\ pos' = base' + cur'
      BY <1>1, <1>3, <1>4, <1>16, <1>17, <1>19, <1>20
    <2> QED
      BY <1>1, <1>15, <1>21, <2>1, <2>2, <2>3, <2>4 DEF BodyInv
  <1>23. MappedInv'
    <2>1. /\ section = NoFile /\ at = 1 /\ counts = <<>>
      BY <1>0, <1>1 DEF MappedInv
    <2>2. 1 \in 1 .. Len(dir') + 1
      BY <1>4, <1>17
    <2> QED
      BY <1>1, <2>1, <2>2 DEF MappedInv
  <1>24. ChosenInv' /\ LoadInv'
    BY <1>0, <1>1 DEF ChosenInv, LoadInv
  <1> QED
    BY <1>22, <1>23, <1>24 DEF SectionInv

(* The length the sizing pass came to is that of what is written.           *)
LEMMA WriteDirectoryKeeps ==
  ASSUME SectionInv, WriteDirectory
  PROVE  SectionInv'
  <1>0. ChosenInv /\ BodyInv /\ MappedInv
    BY DEF SectionInv
  <1> DEFINE s     == InOrder(lists_)
             start == Sized(lists_, width, align)
  <1>1. /\ pc = "body" /\ todo = <<>>
        /\ UNCHANGED <<lists_, width, align, base, length, todo, cur, blocks, dir, at, counts>>
    BY DEF WriteDirectory
  <1>2. /\ lists_ \in Corpora /\ width \in {1, 2, 4} /\ align \in Alignments
        /\ Len(s) \in Nat /\ s \in Seq(Nat \X Nat)
    BY <1>0, ChosenIs
  <1>3. base # 0
    BY <1>0, <1>1 DEF BodyInv
  <1>4. /\ pos \in Nat /\ base \in Nat /\ length \in Nat /\ cur \in Nat
        /\ dir \in Seq(DirEntry) /\ Len(dir) \in Nat
        /\ length = SectionLength /\ cur = start[Len(dir)] /\ Len(todo) = Len(s) - Len(dir)
        /\ pos = base + cur
    BY <1>0, <1>1, <1>3 DEF BodyInv
  <1>5. Len(dir) = Len(s)
    <2>1. Len(todo) = 0
      BY <1>1
    <2> QED
      BY <1>2, <1>4, <2>1
  <1>6. pos' - base = length /\ pos' \in Nat
    <2>1. length = cur + (Len(dir) * EntrySize + TrailerSize)
      BY <1>4, <1>5 DEF SectionLength, EndSize
    <2>2. pos' = pos + Len(dir) * EntrySize + TrailerSize
      BY DEF WriteDirectory
    <2>3. pos \in Nat /\ base \in Nat /\ length \in Nat /\ cur \in Nat /\ Len(dir) \in Nat /\ pos = base + cur
      BY <1>4
    <2> QED
      BY <2>1, <2>2, <2>3 DEF EntrySize, TrailerSize
  <1>7. pc' = "written"
    BY <1>6 DEF WriteDirectory
  <1>8. section' = WholeSection
    BY <1>6 DEF WriteDirectory, WholeSection
  <1>9. WholeSection' = WholeSection
    BY <1>1 DEF WholeSection
  <1>10. SectionNumbers(section)'
    <2>1. Len(lists_) \in Nat /\ align \in Nat /\ width \in Nat
      BY <1>2, AlignmentIs DEF Corpora
    <2> HIDE DEF s, start
    <2>2. Len(InOrder(lists_)) \in Nat
      BY <1>2 DEF s
    <2>3. WholeSection \in Sections /\ WholeSection.dir = dir
      BY <1>4, <2>1, <2>2 DEF WholeSection, Sections
    <2> QED
      BY <1>1, <1>8, <2>3 DEF SectionNumbers
  <1>11. BodyInv'
    <2>1. SectionLength' = SectionLength
      BY <1>1 DEF SectionLength, EndSize
    <2> QED
      BY <1>0, <1>1, <1>3, <1>6, <1>7, <2>1 DEF BodyInv
  <1>12. MappedInv'
    BY <1>0, <1>1, <1>7, <1>8, <1>9, <1>10 DEF MappedInv
  <1>13. ChosenInv' /\ LoadInv'
    BY <1>0, <1>1, <1>7 DEF ChosenInv, LoadInv, Pcs
  <1> QED
    BY <1>11, <1>12, <1>13 DEF SectionInv

(* What is not the writer's leaves alone what it wrote. *)
LEMMA BodyKept ==
  ASSUME BodyInv, UNCHANGED writeVars,
         pc \notin {"sizing", "body", "threw"}, pc' \notin {"sizing", "body", "threw"}
  PROVE  BodyInv' /\ base # 0 /\ WholeSection' = WholeSection
  <1>1. UNCHANGED <<lists_, width, align, pos, base, length, todo, cur, blocks, dir>>
    BY DEF writeVars
  <1>2. SectionLength' = SectionLength /\ WholeSection' = WholeSection
    BY <1>1 DEF SectionLength, EndSize, WholeSection
  <1>3. base # 0
    BY DEF BodyInv
  <1>4. todo = <<>>
    BY <1>3 DEF BodyInv
  <1>5. BodyInv'
    BY <1>1, <1>2, <1>3, <1>4 DEF BodyInv
  <1> QED
    BY <1>2, <1>3, <1>5

(* A damaged section has as many entries, and numbers.                      *)
LEMMA DamagedIs ==
  ASSUME NEW f \in Sections, NEW h \in Damaged(f)
  PROVE  h \in Sections /\ Len(h.dir) = Len(f.dir) /\ ~h.intact
  <1> DEFINE g == [f EXCEPT !.intact = FALSE]
             Changed(n) ==
               h \in {[g EXCEPT !.present = n], [g EXCEPT !.width = n], [g EXCEPT !.page = n],
                      [g EXCEPT !.nBlocks = n], [g EXCEPT !.dirOffset = n],
                      [g EXCEPT !.nEntries = n], [g EXCEPT !.nLists = n]}
             ChangedAt(i, n) ==
               h \in {[g EXCEPT !.dir[i].pl = n], [g EXCEPT !.dir[i].block = n],
                      [g EXCEPT !.dir[i].off = n], [g EXCEPT !.dir[i].len = n],
                      [g EXCEPT !.dir[i].n = n]}
  <1>1. \E n \in Nat : Changed(n) \/ \E i \in DOMAIN f.dir : ChangedAt(i, n)
    <2>1. \A n, ds : Near(n, ds) \subseteq Nat
      BY DEF Near
    <2>2. CASE \E i \in DOMAIN f.dir : h \in DamagedEntry(g, i)
      <3> HIDE DEF g
      <3> QED
        BY <2>1, <2>2 DEF DamagedEntry
    <2>3. CASE ~\E i \in DOMAIN f.dir : h \in DamagedEntry(g, i)
      <3>1. {0, 1, 2, 4} \ {f.width} \subseteq Nat /\ {0, 4, 12, 16} \subseteq Nat
        OBVIOUS
      <3>2. \E n \in Nat : Changed(n)
        BY <2>1, <2>3, <3>1 DEF Damaged
      <3> QED
        BY <3>2
    <2> QED
      BY <2>2, <2>3
  <1>2. g \in Sections /\ ~g.intact /\ g.dir = f.dir
    BY DEF Sections
  <1> HIDE DEF g
  <1>3. PICK n \in Nat : Changed(n) \/ \E i \in DOMAIN f.dir : ChangedAt(i, n)
    BY <1>1
  <1>4. CASE Changed(n)
    BY <1>2, <1>4 DEF Sections
  <1>5. ASSUME NEW i \in DOMAIN f.dir, ChangedAt(i, n)
        PROVE  h \in Sections /\ Len(h.dir) = Len(f.dir) /\ ~h.intact
    <2> DEFINE d == g.dir
    <2>1. d \in Seq(DirEntry) /\ i \in 1 .. Len(d) /\ d[i] \in DirEntry /\ d = f.dir
      BY <1>2 DEF Sections
    <2>2. PICK e \in DirEntry : h = [g EXCEPT !.dir = [d EXCEPT ![i] = e]]
      BY <1>2, <1>5, <2>1 DEF DirEntry, Sections
    <2>3. [d EXCEPT ![i] = e] \in Seq(DirEntry) /\ Len([d EXCEPT ![i] = e]) = Len(d)
      BY <2>1
    <2> HIDE DEF d
    <2> QED
      BY <1>2, <2>1, <2>2, <2>3 DEF Sections
  <1> QED
    BY <1>3, <1>4, <1>5

(* Whatever happens to the file leaves it numbers. *)
LEMMA SettleKeeps ==
  ASSUME SectionInv, Settle
  PROVE  SectionInv'
  <1>1. /\ pc = "written" /\ pc' = "mapping" /\ UNCHANGED writeVars /\ UNCHANGED <<at, counts>>
        /\ section' \in {section} \union Damaged(section)
    BY DEF Settle
  <1>2. BodyInv' /\ WholeSection' = WholeSection /\ UNCHANGED dir
    BY <1>1, BodyKept DEF SectionInv, writeVars
  <1>3. /\ SectionNumbers(section) /\ section = WholeSection /\ at = 1 /\ counts = <<>>
        /\ at \in 1 .. Len(dir) + 1
    BY <1>1 DEF SectionInv, MappedInv
  <1>4. SectionNumbers(section)' /\ (section'.intact => section' = section)
    <2>1. CASE section' = section
      BY <1>2, <1>3, <2>1 DEF SectionNumbers
    <2>2. CASE section' \in Damaged(section)
      BY <1>2, <1>3, <2>2, DamagedIs DEF SectionNumbers
    <2> QED
      BY <1>1, <2>1, <2>2
  <1>5. MappedInv'
    BY <1>1, <1>2, <1>3, <1>4 DEF MappedInv
  <1>6. ChosenInv' /\ LoadInv'
    BY <1>1 DEF SectionInv, ChosenInv, LoadInv, writeVars, Pcs
  <1> QED
    BY <1>2, <1>5, <1>6 DEF SectionInv

(* The numbers of a section that was written are what a reader asks for.    *)
LEMMA WholeIsAccepted ==
  ASSUME ChosenInv, BodyInv, base # 0, pc # "body"
  PROVE  WithinMapping(WholeSection) /\ HeaderAccepted(WholeSection)
  <1> DEFINE n == Len(InOrder(lists_))
  <1>1. /\ lists_ \in Corpora /\ width \in {1, 2, 4} /\ align \in Alignments /\ n \in Nat
    BY ChosenIs
  <1>2. Len(dir) = n /\ length = SectionLength /\ cur = Sized(lists_, width, align)[n] /\ base % 8 = 0
    <2>1. Len(todo) = 0 /\ Len(todo) = n - Len(dir) /\ Len(dir) \in Nat
      BY DEF BodyInv
    <2>2. Len(dir) = n
      BY <1>1, <2>1
    <2> QED
      BY <2>2 DEF BodyInv
  <1>3. cur \in Nat /\ HeaderSize <= cur
    <2>1. n \in 0 .. n
      BY <1>1
    <2> QED
      BY <1>1, <1>2, <2>1, SizedIs DEF BodyInv
  <1>4. align \in Nat /\ 8 <= align /\ IsPowerOfTwo(align)
    BY <1>1, AlignmentIs
  <1>5. length = cur + n * 32 + 24
    <2>1. length = cur + (n * 32 + 24)
      BY <1>2 DEF SectionLength, EndSize, EntrySize, TrailerSize
    <2> HIDE DEF n
    <2> QED
      BY <1>1, <1>3, <2>1
  <1> DEFINE f == WholeSection
  <1>6. /\ f.length = length /\ f.present = length /\ f.width = width /\ f.page = align
        /\ f.nEntries = n /\ f.nBlocks = n /\ f.dirOffset = cur
    BY <1>2 DEF WholeSection
  <1> HIDE DEF f, n
  <1>7. length \in Nat
    BY DEF BodyInv
  <1>8. (length - 24) - cur = 32 * n
    BY <1>1, <1>3, <1>5
  <1>9. WithinMapping(f)
    BY <1>6, <1>7 DEF WithinMapping
  <1>10. (32 * n) % 32 = 0 /\ (32 * n) \div 32 = n
    BY <1>1
  <1>11. HeaderAccepted(f)
    <2>1. f.length >= HeaderSize + TrailerSize
      BY <1>1, <1>3, <1>5, <1>6 DEF HeaderSize, TrailerSize
    <2>2. /\ f.width \in {1, 2, 4} /\ f.page >= MinBlockAlign /\ IsPowerOfTwo(f.page)
          /\ f.nEntries = f.nBlocks /\ base % MinBlockAlign = 0
      BY <1>1, <1>2, <1>4, <1>6 DEF MinBlockAlign
    <2>3. HeaderSize <= f.dirOffset /\ f.dirOffset <= f.length - TrailerSize
      BY <1>1, <1>3, <1>5, <1>6 DEF TrailerSize
    <2>4. /\ ((f.length - TrailerSize) - f.dirOffset) % EntrySize = 0
          /\ ((f.length - TrailerSize) - f.dirOffset) \div EntrySize = f.nEntries
      BY <1>6, <1>8, <1>10 DEF TrailerSize, EntrySize
    <2> QED
      BY <2>1, <2>2, <2>3, <2>4 DEF HeaderAccepted
  <1> QED
    BY <1>9, <1>11 DEF f

(* A section that was not damaged is not refused by its header; of one that *)
(* is not refused no entry has been looked at.                              *)
LEMMA MapKeeps ==
  ASSUME SectionInv, Map
  PROVE  SectionInv'
  <1>1. /\ pc = "mapping" /\ UNCHANGED writeVars /\ UNCHANGED section /\ at' = 1
        /\ pc' \in {"entries", "rejected"}
    BY DEF Map
  <1>2. BodyInv' /\ WholeSection' = WholeSection /\ base # 0
        /\ UNCHANGED <<lists_, width, align, base, dir>>
    BY <1>1, BodyKept DEF SectionInv, writeVars
  <1>3. /\ SectionNumbers(section) /\ (section.intact => section = WholeSection)
        /\ at = 1 /\ counts = <<>> /\ at \in 1 .. Len(dir) + 1
    BY <1>1 DEF SectionInv, MappedInv
  <1>4. CASE WithinMapping(section) /\ HeaderAccepted(section)
    <2>1. pc' = "entries" /\ counts' = [l \in 0 .. section.nLists - 1 |-> 0]
      BY <1>4 DEF Map
    <2> DEFINE S == 0 .. section.nLists - 1
    <2>2. IsFiniteSet(S)
      <3>1. section.nLists \in Nat
        BY <1>3 DEF SectionNumbers, Sections
      <3> QED
        BY <3>1, FS_Interval
    <2>3. counts' \in [S -> Nat] /\ \A l \in S : counts'[l] = 0
      BY <2>1
    <2>4. SumOf(counts') = 0
      <3> HIDE DEF S
      <3> QED
        BY <2>2, <2>3, SumOfZeros
    <2>5. WithinMapping(section)' /\ HeaderAccepted(section)'
      BY <1>1, <1>2, <1>4 DEF WithinMapping, HeaderAccepted
    <2>6. LoadInv'
      <3>1. 1 .. at' - 1 = {} /\ at' - 1 = 0 /\ ~(at' > 1)
        BY <1>1
      <3>2. DOMAIN counts' = S /\ section' = section
        BY <1>1, <2>1
      <3> QED
        BY <1>1, <2>1, <2>3, <2>4, <2>5, <3>1, <3>2 DEF LoadInv
    <2>7. MappedInv'
      <3>1. Len(dir) \in Nat
        BY <1>2 DEF SectionInv, BodyInv
      <3>2. SectionNumbers(section)'
        BY <1>1, <1>2, <1>3 DEF SectionNumbers
      <3>3. at' \in 1 .. Len(dir') + 1 /\ \A l \in DOMAIN counts' : counts'[l] \in 0 .. Len(dir')
        BY <1>1, <1>2, <2>1, <3>1
      <3> QED
        BY <1>1, <1>2, <1>3, <2>1, <3>2, <3>3 DEF MappedInv
    <2> QED
      BY <1>1, <1>2, <2>1, <2>6, <2>7 DEF SectionInv, ChosenInv, Pcs
  <1>5. CASE ~(WithinMapping(section) /\ HeaderAccepted(section))
    <2>1. pc' = "rejected" /\ UNCHANGED counts
      BY <1>5 DEF Map
    <2>2. ~section.intact
      BY <1>1, <1>2, <1>3, <1>5, WholeIsAccepted DEF SectionInv
    <2>3. MappedInv'
      <3>1. SectionNumbers(section)'
        BY <1>1, <1>2, <1>3 DEF SectionNumbers
      <3> QED
        BY <1>1, <1>2, <1>3, <2>1, <2>2, <3>1 DEF MappedInv
    <2> QED
      BY <1>1, <1>2, <2>1, <2>3 DEF SectionInv, ChosenInv, LoadInv, Pcs
  <1> QED
    BY <1>4, <1>5

(* A load is done when it has accepted every entry. *)
LEMMA LoadDoneKeeps ==
  ASSUME SectionInv, LoadDone
  PROVE  SectionInv'
  <1>1. /\ pc = "entries" /\ pc' = "loaded" /\ UNCHANGED writeVars /\ UNCHANGED <<section, at, counts>>
        /\ at > Len(section.dir)
    BY DEF LoadDone
  <1>2. BodyInv' /\ WholeSection' = WholeSection /\ UNCHANGED <<lists_, width, align, base, dir>>
    BY <1>1, BodyKept DEF SectionInv, writeVars
  <1>3. SectionNumbers(section) /\ at \in 1 .. Len(dir) + 1
    BY <1>1 DEF SectionInv, MappedInv
  <1>4. at = Len(dir) + 1
    <2>1. Len(section.dir) = Len(dir) /\ Len(dir) \in Nat
      BY <1>3 DEF SectionNumbers, SectionInv, BodyInv
    <2> QED
      BY <1>1, <1>3, <2>1
  <1>5. MappedInv'
    <2>1. MappedInv
      BY DEF SectionInv
    <2> QED
      BY <1>1, <1>2, <2>1 DEF MappedInv, SectionNumbers
  <1>6. LoadInv'
    <2>1. /\ LoadInv
      BY DEF SectionInv
    <2>2. \A i \in 1 .. at - 1 : EntryPlaced(i)' <=> EntryPlaced(i)
      BY <1>1 DEF EntryPlaced, EntryFits
    <2> QED
      BY <1>1, <1>2, <1>4, <2>1, <2>2 DEF LoadInv, WithinMapping, HeaderAccepted
  <1> QED
    BY <1>1, <1>2, <1>5, <1>6 DEF SectionInv, ChosenInv, Pcs

(* So are its entries, one after the other. *)
LEMMA WholeEntryFits ==
  ASSUME ChosenInv, BodyInv, base # 0, pc # "body", section = WholeSection,
         NEW i \in 1 .. Len(dir)
  PROVE  /\ EntryFits(section.dir[i])
         /\ at = i => EntryFollows(section.dir[i])
  <1> DEFINE s     == InOrder(lists_)
             n     == Len(s)
             start == Sized(lists_, width, align)
             p     == s[i]
             docs  == lists_[p[1]][p[2]]
             e     == section.dir[i]
  <1>1. /\ lists_ \in Corpora /\ width \in {1, 2, 4} /\ align \in Alignments /\ n \in Nat
    BY ChosenIs
  <1>2. Len(dir) = n /\ cur = start[n]
    <2>1. Len(todo) = 0 /\ Len(todo) = n - Len(dir) /\ Len(dir) \in Nat
      BY DEF BodyInv
    <2>2. Len(dir) = n
      BY <1>1, <2>1
    <2> QED
      BY <2>2 DEF BodyInv
  <1>3. i \in 1 .. n /\ i \in 0 .. n /\ i - 1 \in 0 .. n /\ n \in 0 .. n
    <2> HIDE DEF n
    <2> QED
      BY <1>1, <1>2
  <1>4. section.dir = dir /\ section.dirOffset = cur /\ section.nLists = Len(lists_)
    BY DEF WholeSection
  <1>5. e = EntryOf(lists_, width, align, i)
    BY <1>4 DEF BodyInv
  <1>6. p \in Nat \X Nat /\ p[1] \in 1 .. Len(lists_) /\ p[2] \in 1 .. Len(lists_[p[1]])
        /\ docs \in Seq(0 .. Len(Nnz) - 1)
    BY <1>1, <1>3, BlockIs
  <1>7. /\ start \in [0 .. n -> Nat]
        /\ start[i - 1] + EndOf(docs, width) <= start[i]
        /\ \A k \in 0 .. n : HeaderSize <= start[k] /\ start[k] % align = 0
        /\ \A k, j \in 0 .. n : k < j => start[k] < start[j]
    BY <1>1, <1>3, SizedIs
  <1>8. EndOf(docs, width) \in Nat /\ 8 <= EndOf(docs, width)
    BY <1>1, <1>6, BlockEnds
  <1>9. /\ e.pl = p[1] - 1 /\ e.block = p[2] - 1 /\ e.off = start[i - 1]
        /\ e.len = EndOf(docs, width)
    BY <1>5 DEF EntryOf
  <1> DEFINE end == EndOf(docs, width)
  <1> HIDE DEF s, n, start, p, docs, e, end
  <1>10. start[i - 1] \in Nat /\ start[i] \in Nat /\ start[n] \in Nat /\ start[i] <= start[n]
    <2>1. start[i - 1] \in Nat /\ start[i] \in Nat /\ start[n] \in Nat
      BY <1>3, <1>7
    <2>2. i = n \/ i < n
      BY <1>1, <1>3
    <2> QED
      BY <1>3, <1>7, <2>1, <2>2
  <1>11. EntryFits(e)
    <2>1. e.pl < section.nLists
      <3>1. Len(lists_) \in Nat
        BY <1>1 DEF Corpora
      <3> QED
        BY <1>4, <1>6, <1>9, <3>1
    <2>2. e.len >= PrefixSize
      BY <1>8, <1>9 DEF PrefixSize, end
    <2>3. e.off % MinBlockAlign = 0
      <3>1. start[i - 1] % 8 = 0
        BY <1>1, <1>3, <1>7, <1>10, AlignmentIs
      <3> QED
        BY <1>9, <3>1 DEF MinBlockAlign
    <2>4. HeaderSize <= e.off
      BY <1>3, <1>7, <1>9
    <2>5. e.off <= section.dirOffset /\ section.dirOffset - e.off >= e.len
      <3>1. start[i - 1] + end <= start[i] /\ end \in Nat /\ e.len = end
        BY <1>7, <1>8, <1>9 DEF end
      <3>2. section.dirOffset = start[n] /\ e.off = start[i - 1]
        BY <1>2, <1>4, <1>9
      <3> QED
        BY <1>10, <3>1, <3>2
    <2> QED
      BY <2>1, <2>2, <2>3, <2>4, <2>5 DEF EntryFits
  <1>12. ASSUME at = i
         PROVE  EntryFollows(e)
    <2>1. Laid(lists_, Len(lists_), s)
      <3> DEFINE D == Seq(0 .. Len(Nnz) - 1)
      <3>1. lists_ \in Seq(Seq(D))
        BY <1>1 DEF Corpora
      <3> HIDE DEF D
      <3> QED
        BY <3>1, InOrderIs DEF s
    <2>2. p = s[i] /\ i \in 1 .. Len(s)
      BY <1>3 DEF p, n
    <2>3. CASE i = 1
      <3>1. p[2] = 1
        BY <2>1, <2>2, <2>3 DEF Laid
      <3> QED
        BY <1>9, <1>12, <2>3, <3>1 DEF EntryFollows
    <2>4. CASE i # 1
      <3> DEFINE q == s[i - 1]
                 d == section.dir[i - 1]
      <3>1. i > 1 /\ i - 1 \in 1 .. n /\ i - 1 \in 1 .. Len(dir)
        BY <1>1, <1>2, <1>3, <2>4
      <3>2. Follows(q, p)
        BY <2>1, <2>2, <3>1 DEF Laid
      <3>3. d.pl = q[1] - 1 /\ d.block = q[2] - 1
        <4>1. d = EntryOf(lists_, width, align, i - 1)
          BY <1>4, <3>1 DEF BodyInv
        <4> QED
          BY <4>1 DEF EntryOf, s
      <3>4. q \in Nat \X Nat /\ p \in Nat \X Nat
        BY <1>1, <1>6, <3>1, BlockIs DEF s, n
      <3> HIDE DEF q
      <3>5. CASE q[1] = p[1]
        <4>1. p[2] = q[2] + 1
          BY <3>2, <3>4, <3>5 DEF Follows
        <4>2. e.pl = d.pl /\ e.block = d.block + 1
          BY <1>9, <3>3, <3>4, <3>5, <4>1
        <4> QED
          BY <1>12, <2>4, <4>2 DEF EntryFollows
      <3>6. CASE q[1] # p[1]
        <4>1. q[1] < p[1] /\ p[2] = 1
          BY <3>2, <3>4, <3>6 DEF Follows
        <4>2. e.pl > d.pl /\ e.pl # d.pl /\ e.block = 0
          BY <1>9, <3>3, <3>4, <4>1
        <4> QED
          BY <1>12, <2>4, <4>2 DEF EntryFollows
      <3> QED
        BY <3>5, <3>6
    <2> QED
      BY <2>3, <2>4
  <1> QED
    BY <1>11, <1>12 DEF e

(* An entry that fits and follows is where the counts of the lists before   *)
(* its own, and what its own has already, say.                              *)
LEMMA AcceptedIsPlaced ==
  ASSUME LoadInv, pc = "entries", SectionNumbers(section), at \in 1 .. Len(dir),
         EntryFits(section.dir[at]), EntryFollows(section.dir[at]),
         counts' = [counts EXCEPT ![section.dir[at].pl] = @ + 1], at' = at + 1,
         section' = section
  PROVE  /\ counts' \in [0 .. section.nLists - 1 -> Nat] /\ SumOf(counts') = at' - 1
         /\ \A i \in 1 .. at : EntryPlaced(i)' /\ section.dir[i].pl <= section.dir[at].pl
         /\ \A l \in DOMAIN counts' : l > section.dir[at].pl => counts'[l] = 0
         /\ counts'[section.dir[at].pl] = section.dir[at].block + 1
  <1> DEFINE e == section.dir[at]
             l == e.pl
             m == section.nLists
             b == section.dir[at - 1]
  <1>1. m \in Nat /\ Len(section.dir) = Len(dir) /\ section.dir \in Seq(DirEntry) /\ at \in Nat
    BY DEF SectionNumbers, Sections
  <1>2. \A i \in 1 .. at : section.dir[i] \in DirEntry
    <2>1. \A i \in 1 .. at : i \in 1 .. Len(section.dir)
      BY <1>1
    <2> QED
      BY <1>1, <2>1
  <1>3. e \in DirEntry /\ l \in Nat /\ e.block \in Nat /\ l \in 0 .. m - 1
    <2>1. e \in DirEntry
      BY <1>1, <1>2
    <2>2. e.pl < m
      BY DEF EntryFits
    <2>3. e.pl \in Nat /\ e.block \in Nat
      BY <2>1 DEF DirEntry
    <2>4. e.pl \in 0 .. m - 1
      <3> HIDE DEF e, m
      <3> QED
        BY <1>1, <2>2, <2>3
    <2> QED
      BY <2>1, <2>3, <2>4
  <1>4. counts \in [0 .. m - 1 -> Nat] /\ SumOf(counts) = at - 1
    BY DEF LoadInv
  <1>5. at > 1 => /\ b \in DirEntry /\ b.pl \in Nat /\ b.block \in Nat /\ at - 1 \in 1 .. at - 1
                  /\ \A i \in 1 .. at - 1 : section.dir[i].pl <= b.pl
                  /\ counts[b.pl] = b.block + 1
    <2>1. at > 1 => at - 1 \in 1 .. at /\ at - 1 \in 1 .. at - 1
      BY <1>1
    <2>2. at > 1 => b \in DirEntry
      BY <1>2, <2>1
    <2> QED
      BY <2>1, <2>2 DEF LoadInv, DirEntry
  <1>6. at > 1 => b.pl <= l
    BY <1>3, <1>5 DEF EntryFollows
  <1>7. \A x \in 0 .. m - 1 : x > l => counts[x] = 0
    <2> SUFFICES ASSUME NEW x \in 0 .. m - 1, x > l PROVE counts[x] = 0
      OBVIOUS
    <2>1. x \in DOMAIN counts
      BY <1>4
    <2>2. CASE at = 1
      BY <2>1, <2>2 DEF LoadInv
    <2>3. CASE at > 1
      <3>1. x > b.pl
        BY <1>3, <1>5, <1>6, <2>3
      <3> QED
        BY <2>1, <3>1 DEF LoadInv
    <2> QED
      BY <1>1, <2>2, <2>3
  <1>8. counts[l] = e.block
    <2>1. CASE at = 1
      <3>1. e.block = 0
        BY <2>1 DEF EntryFollows
      <3>2. l \in DOMAIN counts
        BY <1>3, <1>4
      <3>3. counts[l] = 0
        BY <2>1, <3>2 DEF LoadInv
      <3> QED
        BY <3>1, <3>3
    <2>2. CASE at > 1 /\ l = b.pl
      BY <1>5, <2>2 DEF EntryFollows
    <2>3. CASE at > 1 /\ l # b.pl
      <3>1. e.block = 0 /\ l > b.pl
        BY <2>3 DEF EntryFollows
      <3>2. l \in DOMAIN counts
        BY <1>3, <1>4
      <3>3. counts[l] = 0
        BY <3>1, <3>2 DEF LoadInv
      <3> QED
        BY <3>1, <3>3
    <2> QED
      BY <1>1, <2>1, <2>2, <2>3
  <1>9. /\ counts' \in [0 .. m - 1 -> Nat]
        /\ SumOf(counts') = SumOf(counts) + 1
        /\ \A k \in 0 .. l : SumBelow(counts', k) = SumBelow(counts, k)
    <2> DEFINE d == [counts EXCEPT ![l] = @ + 1]
    <2>1. counts' = d
      OBVIOUS
    <2>2. m \in Nat /\ l \in 0 .. m - 1
      BY <1>1, <1>3
    <2>3. /\ d \in [0 .. m - 1 -> Nat] /\ SumOf(d) = SumOf(counts) + 1
          /\ \A k \in 0 .. l : SumBelow(d, k) = SumBelow(counts, k)
      <3> HIDE DEF l, m
      <3> QED
        BY ONLY <1>4, <1>7, <2>2, SumOneMore
    <2> HIDE DEF d
    <2> QED
      BY <2>1, <2>3
  <1>10. SumBelow(counts, l) + counts[l] = SumOf(counts) /\ SumBelow(counts, l) \in Nat
    <2> HIDE DEF l, m
    <2> QED
      BY <1>1, <1>3, <1>4, <1>7, SumBelowIs
  <1>11. counts'[l] = e.block + 1 /\ \A x \in 0 .. m - 1 : x # l => counts'[x] = counts[x]
    BY <1>3, <1>4, <1>8
  <1>12. ASSUME NEW i \in 1 .. at
         PROVE  EntryPlaced(i)' /\ section.dir[i].pl <= l
    <2> DEFINE d == section.dir[i]
    <2>1. d \in DirEntry /\ d.pl \in Nat /\ d.block \in Nat
      BY <1>2 DEF DirEntry
    <2>2. CASE i = at
      <3>1. d = e
        BY <2>2
      <3>2. EntryFits(d)'
        BY <3>1 DEF EntryFits
      <3>3. SumBelow(counts', l) = SumBelow(counts, l)
        <4>1. l \in 0 .. l
          BY <1>3
        <4> QED
          BY <1>9, <4>1
      <3>4. SumBelow(counts', l) + e.block + 1 = at
        BY <1>1, <1>3, <1>4, <1>8, <1>10, <3>3
      <3>5. e.block < counts'[l]
        BY <1>3, <1>11
      <3>6. EntryPlaced(i)'
        BY <2>2, <3>2, <3>4, <3>5 DEF EntryPlaced
      <3> QED
        BY <1>3, <2>2, <3>6
    <2>3. CASE i # at
      <3>1. i \in 1 .. at - 1 /\ at > 1
        BY <1>1, <2>3
      <3>2. EntryPlaced(i) /\ d.pl <= b.pl
        BY <3>1 DEF LoadInv
      <3>3. d.pl <= l /\ d.pl \in 0 .. l /\ d.pl \in 0 .. m - 1
        <4>1. d.pl \in Nat /\ b.pl \in Nat /\ d.pl <= b.pl /\ b.pl <= l /\ l \in 0 .. m - 1 /\ m \in Nat
          BY <1>1, <1>3, <1>5, <1>6, <2>1, <3>1, <3>2
        <4> HIDE DEF d, b, l, m
        <4> QED
          BY <4>1
      <3>4. SumBelow(counts', d.pl) = SumBelow(counts, d.pl)
        BY <1>9, <3>3
      <3>5. d.block < counts[d.pl] /\ SumBelow(counts, d.pl) + d.block + 1 = i /\ EntryFits(d)
        BY <3>2 DEF EntryPlaced
      <3>6. d.block < counts'[d.pl]
        <4>1. CASE d.pl = l
          BY <1>3, <1>8, <1>11, <2>1, <3>5, <4>1
        <4>2. CASE d.pl # l
          BY <1>11, <3>3, <3>5, <4>2
        <4> QED
          BY <4>1, <4>2
      <3>7. EntryFits(d)'
        BY <3>5 DEF EntryFits
      <3> QED
        BY <3>3, <3>4, <3>5, <3>6, <3>7 DEF EntryPlaced
    <2> QED
      BY <2>2, <2>3
  <1>13. \A x \in DOMAIN counts' : x > l => counts'[x] = 0
    <2> SUFFICES ASSUME NEW x \in DOMAIN counts', x > l PROVE counts'[x] = 0
      OBVIOUS
    <2>1. x \in 0 .. m - 1
      BY <1>9
    <2>2. x # l
      BY <1>3, <2>1
    <2> QED
      BY <1>7, <1>11, <2>1, <2>2
  <1>14. SumOf(counts') = at' - 1
    BY <1>1, <1>4, <1>9
  <1> QED
    BY <1>9, <1>11, <1>12, <1>13, <1>14

(* An entry is accepted with its place, or the section was damaged.         *)
LEMMA CheckEntryKeeps ==
  ASSUME SectionInv, CheckEntry
  PROVE  SectionInv'
  <1> DEFINE e == section.dir[at]
  <1>1. /\ pc = "entries" /\ at' = at + 1 /\ UNCHANGED writeVars /\ UNCHANGED section
        /\ at <= Len(section.dir) /\ pc' \in {"entries", "rejected"}
    BY DEF CheckEntry
  <1>2. ChosenInv /\ BodyInv /\ MappedInv /\ LoadInv
    BY DEF SectionInv
  <1>3. BodyInv' /\ WholeSection' = WholeSection /\ base # 0
        /\ UNCHANGED <<lists_, width, align, base, dir>>
    BY <1>1, <1>2, BodyKept DEF writeVars
  <1>4. /\ SectionNumbers(section) /\ (section.intact => section = WholeSection)
        /\ at \in 1 .. Len(dir) + 1 /\ \A l \in DOMAIN counts : counts[l] \in 0 .. Len(dir)
    BY <1>1, <1>2 DEF MappedInv
  <1>5. at \in 1 .. Len(dir) /\ at' \in 1 .. Len(dir') + 1 /\ Len(dir) \in Nat
    <2>1. Len(section.dir) = Len(dir) /\ Len(dir) \in Nat
      BY <1>2, <1>4 DEF SectionNumbers, BodyInv
    <2> QED
      BY <1>1, <1>3, <1>4, <2>1
  <1>6. SectionNumbers(section)'
    BY <1>1, <1>3, <1>4 DEF SectionNumbers
  <1>7. CASE EntryFits(e) /\ EntryFollows(e)
    <2>1. counts' = [counts EXCEPT ![e.pl] = @ + 1] /\ pc' = "entries"
      BY <1>1, <1>7 DEF CheckEntry
    <2>2. /\ counts' \in [0 .. section.nLists - 1 -> Nat] /\ SumOf(counts') = at' - 1
          /\ \A i \in 1 .. at : EntryPlaced(i)' /\ section.dir[i].pl <= e.pl
          /\ \A l \in DOMAIN counts' : l > e.pl => counts'[l] = 0
          /\ counts'[e.pl] = e.block + 1
      BY <1>1, <1>2, <1>4, <1>5, <1>7, <2>1, AcceptedIsPlaced
    <2>3. LoadInv'
      <3>1. at' - 1 = at /\ at' # 1 /\ section'.dir[at' - 1] = e
        BY <1>1, <1>5
      <3>2. WithinMapping(section)' /\ HeaderAccepted(section)'
        BY <1>1, <1>2, <1>3 DEF LoadInv, WithinMapping, HeaderAccepted
      <3> HIDE DEF e
      <3> QED
        BY <1>1, <2>1, <2>2, <3>1, <3>2 DEF LoadInv
    <2>4. \A l \in DOMAIN counts' : counts'[l] \in 0 .. Len(dir')
      <3> DEFINE S == 0 .. section.nLists - 1
      <3>1. IsFiniteSet(S)
        <4>1. section.nLists \in Nat
          BY <1>4 DEF SectionNumbers, Sections
        <4> QED
          BY <4>1, FS_Interval
      <3>2. counts' \in [S -> Nat] /\ DOMAIN counts' = S
        BY <2>2
      <3> HIDE DEF S
      <3>3. \A l \in S : counts'[l] <= SumOf(counts') /\ counts'[l] \in Nat
        BY <3>1, <3>2, SumHasEach
      <3>4. SumOf(counts') = at
        BY <1>1, <1>5, <2>2
      <3>5. ASSUME NEW l \in S
            PROVE  counts'[l] \in 0 .. Len(dir')
        BY <1>3, <1>5, <3>3, <3>4
      <3> QED
        BY <3>2, <3>5
    <2>5. MappedInv'
      BY <1>1, <1>3, <1>4, <1>5, <1>6, <2>1, <2>4 DEF MappedInv
    <2> QED
      BY <1>2, <1>3, <2>1, <2>3, <2>5 DEF SectionInv, ChosenInv, Pcs
  <1>8. CASE ~(EntryFits(e) /\ EntryFollows(e))
    <2>1. UNCHANGED counts /\ pc' = "rejected"
      BY <1>1, <1>8 DEF CheckEntry
    <2>2. ~section.intact
      <3> SUFFICES ASSUME section.intact PROVE FALSE
        OBVIOUS
      <3>1. section = WholeSection
        BY <1>4
      <3>2. EntryFits(section.dir[at]) /\ EntryFollows(section.dir[at])
        BY <1>1, <1>2, <1>3, <1>5, <3>1, WholeEntryFits
      <3> QED
        BY <1>8, <3>2
    <2>3. MappedInv'
      BY <1>1, <1>3, <1>4, <1>5, <1>6, <2>1, <2>2 DEF MappedInv
    <2>4. LoadInv'
      BY <2>1 DEF LoadInv
    <2> QED
      BY <1>2, <1>3, <2>1, <2>3, <2>4 DEF SectionInv, ChosenInv, Pcs
  <1> QED
    BY <1>7, <1>8

(* Nothing changes without a step. *)
LEMMA StutterKeepsSection ==
  ASSUME SectionInv, UNCHANGED sectionVars
  PROVE  SectionInv'
  <1>1. /\ UNCHANGED <<lists_, width, align, pos, base, length, todo, cur, blocks, dir>>
        /\ UNCHANGED <<pc, section, at, counts>>
    BY DEF sectionVars, writeVars
  <1>2. SectionLength' = SectionLength /\ WholeSection' = WholeSection
    BY <1>1 DEF SectionLength, EndSize, WholeSection
  <1>3. ChosenInv' /\ BodyInv'
    BY <1>1, <1>2 DEF SectionInv, ChosenInv, BodyInv
  <1>4. MappedInv'
    BY <1>1, <1>2 DEF SectionInv, MappedInv, SectionNumbers
  <1>5. LoadInv'
    <2>1. \A i \in 1 .. at - 1 : EntryPlaced(i)' <=> EntryPlaced(i)
      BY <1>1 DEF EntryPlaced, EntryFits
    <2> QED
      BY <1>1, <2>1 DEF SectionInv, LoadInv, WithinMapping, HeaderAccepted
  <1> QED
    BY <1>3, <1>4, <1>5 DEF SectionInv

(* The invariant of a section: what is written is where the sizing pass has *)
(* it, and of the entries a load has accepted each is where the counts of   *)
(* the lists say (InlineForwardIndex::write_body, load_directory).          *)
THEOREM SectionInvHolds == SectionSpec => []SectionInv
<1>1. SectionInit => SectionInv
  BY InitKeeps
<1>2. SectionInv /\ [SectionNext]_sectionVars => SectionInv'
  <2> SUFFICES ASSUME SectionInv, [SectionNext]_sectionVars PROVE SectionInv'
    OBVIOUS
  <2>1. CASE Serialize
    BY <2>1, SerializeKeeps
  <2>2. CASE WriteBlock
    BY <2>2, WriteBlockKeeps
  <2>3. CASE WriteDirectory
    BY <2>3, WriteDirectoryKeeps
  <2>4. CASE Settle
    BY <2>4, SettleKeeps
  <2>5. CASE Map
    BY <2>5, MapKeeps
  <2>6. CASE CheckEntry
    BY <2>6, CheckEntryKeeps
  <2>7. CASE LoadDone
    BY <2>7, LoadDoneKeeps
  <2>8. CASE UNCHANGED sectionVars
    BY <2>8, StutterKeepsSection
  <2> QED
    BY <2>1, <2>2, <2>3, <2>4, <2>5, <2>6, <2>7, <2>8 DEF SectionNext
<1>3. QED
  BY <1>1, <1>2, PTL DEF SectionSpec

(* A section and the cursors over it keep their types, and no list has more *)
(* blocks than the directory has entries (load_directory's counts).         *)
THEOREM SectionIsWellTyped == SectionSpec => []SectionTypeOK
<1>1. SectionInv => SectionTypeOK
  <2> SUFFICES ASSUME SectionInv PROVE SectionTypeOK
    OBVIOUS
  <2> DEFINE s == InOrder(lists_)
  <2>1. ChosenInv /\ BodyInv /\ MappedInv
    BY DEF SectionInv
  <2>2. s \in Seq(Nat \X Nat) /\ Len(s) \in Nat
    BY <2>1, ChosenIs
  <2>3. Range(todo) \subseteq Range(s)
    <3>1. CASE base = 0
      <4>1. todo = <<>>
        BY <2>1, <3>1 DEF BodyInv
      <4> QED
        BY <4>1 DEF Range
    <3>2. CASE base # 0
      <4>1. /\ Len(todo) = Len(s) - Len(dir) /\ \A j \in 1 .. Len(todo) : todo[j] = s[Len(dir) + j]
            /\ todo \in Seq(Nat \X Nat) /\ Len(dir) \in Nat
        BY <2>1, <3>2 DEF BodyInv
      <4> HIDE DEF s
      <4>2. ASSUME NEW j \in 1 .. Len(todo)
            PROVE  todo[j] \in Range(s)
        <5>1. todo[j] = s[Len(dir) + j]
          BY <4>1
        <5>2. Len(dir) + j \in 1 .. Len(s)
          <6>1. Len(todo) = Len(s) - Len(dir) /\ Len(dir) \in Nat
            BY <4>1
          <6> QED
            BY <2>2, <6>1
        <5> QED
          BY <2>2, <5>1, <5>2 DEF Range
      <4> QED
        BY <4>1, <4>2 DEF Range
    <3> QED
      BY <3>1, <3>2
  <2>4. DOMAIN blocks \subseteq Nat
    <3>1. Sized(lists_, width, align) \in [0 .. Len(s) -> Nat]
      BY <2>1, ChosenIs, SizedIs
    <3>2. DOMAIN blocks = {Sized(lists_, width, align)[i - 1] : i \in 1 .. Len(dir)}
      BY <2>1 DEF BodyInv
    <3>3. Len(dir) <= Len(s) /\ Len(dir) \in Nat
      BY <2>1 DEF BodyInv
    <3>4. \A i \in 1 .. Len(dir) : i - 1 \in 0 .. Len(s)
      BY <2>2, <3>3
    <3> QED
      BY <3>1, <3>2, <3>4
  <2>5. \A i \in DOMAIN dir : dir[i] \in DirEntry
    BY <2>1 DEF BodyInv
  <2> QED
    BY <2>1, <2>3, <2>4, <2>5 DEF SectionTypeOK, ChosenInv, BodyInv, MappedInv, DirEntry
<1>2. QED
  BY <1>1, SectionInvHolds, PTL

(* A written section can be read in place, wherever it starts in the file   *)
(* (inline_forward_index.h:20-22, write_body).                              *)
THEOREM SectionIsReadInPlace == SectionSpec => []BlocksInPlace
<1>1. SectionInv => BlocksInPlace
  <2> SUFFICES ASSUME SectionInv, NEW i \in DOMAIN dir
               PROVE  /\ dir[i].off % align = 0
                      /\ dir[i].off >= HeaderSize
                      /\ dir[i].off + dir[i].len <= IF i < Len(dir) THEN dir[i + 1].off ELSE cur
                      /\ Aligned(dir[i].off, Layout(dir[i].n, Last(blocks[dir[i].off].offsets), width), width)
    BY DEF BlocksInPlace
  <2> DEFINE s     == InOrder(lists_)
             n     == Len(s)
             start == Sized(lists_, width, align)
             docs  == lists_[s[i][1]][s[i][2]]
             e     == dir[i]
  <2>1. ChosenInv /\ BodyInv
    BY DEF SectionInv
  <2>2. /\ lists_ \in Corpora /\ width \in {1, 2, 4} /\ align \in Alignments /\ n \in Nat
    BY <2>1, ChosenIs
  <2>3. dir \in Seq(DirEntry) /\ Len(dir) \in Nat /\ Len(dir) <= n /\ i \in 1 .. Len(dir)
    BY <2>1 DEF BodyInv
  <2>4. base # 0
    BY <2>1, <2>3 DEF BodyInv
  <2>5. cur = start[Len(dir)] /\ base \in Nat /\ base % 8 = 0
    BY <2>1, <2>4 DEF BodyInv
  <2>6. /\ e = EntryOf(lists_, width, align, i)
        /\ blocks[start[i - 1]] = ContentOf(lists_, i)
    BY <2>1, <2>3 DEF BodyInv
  <2>7. e.off = start[i - 1] /\ e.len = EndOf(docs, width) /\ e.n = Len(docs)
    BY <2>6 DEF EntryOf
  <2>8. i < Len(dir) => dir[i + 1].off = start[i]
    <3> SUFFICES ASSUME i < Len(dir) PROVE dir[i + 1].off = start[i]
      OBVIOUS
    <3>1. i + 1 \in 1 .. Len(dir) /\ (i + 1) - 1 = i
      BY <2>3
    <3>2. dir[i + 1] = EntryOf(lists_, width, align, i + 1)
      BY <2>1, <3>1 DEF BodyInv
    <3> QED
      BY <3>1, <3>2 DEF EntryOf
  <2>9. i \in 1 .. n /\ i - 1 \in 0 .. n
    <3> HIDE DEF n
    <3> QED
      BY <2>2, <2>3
  <2>10. docs \in Seq(0 .. Len(Nnz) - 1)
    BY <2>2, <2>9, BlockIs
  <2>11. /\ start \in [0 .. n -> Nat]
         /\ start[i - 1] + EndOf(docs, width) <= start[i]
         /\ HeaderSize <= start[i - 1] /\ start[i - 1] % align = 0
    BY <2>2, <2>9, SizedIs
  <2>12. blocks[e.off].offsets = OffsetsOf(docs)
    BY <2>6, <2>7 DEF ContentOf
  <2>13. Last(OffsetsOf(docs)) \in Nat /\ Len(docs) \in Nat
    BY <2>10, OffsetsAre
  <2>14. start[i - 1] \in Nat
    BY <2>9, <2>11
  <2>15. start[i - 1] % 8 = 0
    BY <2>2, <2>11, <2>14, AlignmentIs
  <2>16. Aligned(e.off, Layout(e.n, Last(OffsetsOf(docs)), width), width)
    <3> HIDE DEF start, docs, e
    <3> QED
      BY <2>2, <2>5, <2>7, <2>13, <2>14, <2>15, BlockAligned
  <2>17. e.off + e.len <= IF i < Len(dir) THEN dir[i + 1].off ELSE cur
    <3>1. i < Len(dir) \/ i = Len(dir)
      BY <2>3
    <3> HIDE DEF start, docs, e
    <3> QED
      BY <2>5, <2>7, <2>8, <2>11, <3>1
  <2> QED
    BY <2>7, <2>11, <2>12, <2>16, <2>17 DEF HeaderSize
<1>2. QED
  BY <1>1, SectionInvHolds, PTL

(* An entry a loaded index finds is one it has accepted. *)
LEMMA EntryFound ==
  ASSUME SectionInv, pc = "loaded", NEW l, NEW b \in Nat, NEW e \in EntriesOf(l, b)
  PROVE  \E k \in 1 .. Len(dir) : e = section.dir[k] /\ EntryPlaced(k) /\ e.pl = l /\ e.block = b
  <1> DEFINE m == section.nLists
  <1>1. /\ m \in Nat /\ counts \in [0 .. m - 1 -> Nat] /\ SumOf(counts) = Len(dir)
        /\ \A i \in 1 .. Len(dir) : EntryPlaced(i)
    <2>1. SectionNumbers(section)
      BY DEF SectionInv, MappedInv
    <2>2. m \in Nat /\ Len(dir) \in Nat
      BY <2>1 DEF SectionNumbers, Sections, SectionInv, BodyInv
    <2>3. at - 1 = Len(dir)
      BY <2>2 DEF SectionInv, LoadInv
    <2> QED
      BY <2>2, <2>3 DEF SectionInv, LoadInv
  <1>2. /\ l \in DOMAIN counts /\ b < counts[l]
        /\ e = section.dir[ListOffset(l) + b + 1] /\ e.pl = l /\ e.block = b
    BY DEF EntriesOf
  <1>3. ListOffset(l) = SumBelow(counts, l)
    BY DEF ListOffset, SumBelow
  <1> DEFINE k == SumBelow(counts, l) + b + 1
  <1>4. k \in 1 .. Len(dir)
    <2>1. l \in 0 .. m - 1 /\ counts[l] \in Nat
      BY <1>1, <1>2
    <2> HIDE DEF m
    <2>2. SumBelow(counts, l) \in Nat /\ SumBelow(counts, l) + counts[l] <= SumOf(counts)
          /\ SumOf(counts) \in Nat
      BY <1>1, <2>1, SumBelowIs
    <2> QED
      BY <1>1, <1>2, <2>1, <2>2
  <1> QED
    BY <1>1, <1>2, <1>3, <1>4

(* What stands where an entry says has ids, and numbers for offsets.        *)
LEMMA ContentIs ==
  ASSUME SectionInv, NEW o, NEW c \in ContentAt(o)
  PROVE  Len(c.ids) \in Nat /\ c.offsets \in Seq(Nat)
  <1>1. CASE o \in DOMAIN blocks
    <2>1. ChosenInv /\ BodyInv
      BY DEF SectionInv
    <2>2. PICK i \in 1 .. Len(dir) : o = Sized(lists_, width, align)[i - 1]
      BY <1>1, <2>1 DEF BodyInv
    <2>3. c = ContentOf(lists_, i)
      BY <1>1, <2>1, <2>2 DEF BodyInv, ContentAt
    <2> DEFINE docs == lists_[InOrder(lists_)[i][1]][InOrder(lists_)[i][2]]
    <2>4. docs \in Seq(0 .. Len(Nnz) - 1)
      <3>1. Len(dir) <= Len(InOrder(lists_)) /\ Len(dir) \in Nat
        BY <2>1 DEF BodyInv
      <3>2. lists_ \in Corpora /\ Len(InOrder(lists_)) \in Nat
        BY <2>1, ChosenIs
      <3>3. i \in 1 .. Len(InOrder(lists_))
        BY <3>1, <3>2
      <3> QED
        BY <3>2, <3>3, BlockIs
    <2>5. c.ids = docs /\ c.offsets = OffsetsOf(docs)
      BY <2>3 DEF ContentOf
    <2> HIDE DEF docs
    <2> QED
      BY <2>4, <2>5, OffsetsAre
  <1>2. CASE o \notin DOMAIN blocks
    <2>1. PICK ids \in {<<>>, <<0>>, <<1, 0>>}, offsets \in {<<0>>, <<0, 2>>, <<0, 3, 1>>, <<1, 1, 2>>} :
            c = [ids |-> ids, offsets |-> offsets]
      BY <1>2 DEF ContentAt, Anything
    <2>2. Len(ids) \in Nat
      OBVIOUS
    <2>3. offsets \in Seq(Nat)
      <3>1. <<0>> \in Seq(Nat) /\ <<0, 2>> \in Seq(Nat) /\ <<0, 3, 1>> \in Seq(Nat) /\ <<1, 1, 2>> \in Seq(Nat)
        OBVIOUS
      <3> QED
        BY <3>1
    <2> QED
      BY <2>1, <2>2, <2>3
  <1> QED
    BY <1>1, <1>2

(* Of a section cut short, or with a number that is wrong, nothing is read  *)
(* outside the mapped bytes before the directory                            *)
(* (inline_forward_index_io.h:67-69; load_directory, view_block).           *)
THEOREM LoadFailsClosed == SectionSpec => []FailClosed
<1>1. SectionInv => FailClosed
  <2> SUFFICES ASSUME SectionInv, pc = "loaded" PROVE
                 /\ section.length <= section.present
                 /\ \A l \in DOMAIN counts : \A b \in 0 .. counts[l] : \A v \in Views(l, b) :
                      /\ HeaderSize <= v.off
                      /\ v.off + v.layout.end <= section.dirOffset
                      /\ \A i \in DOMAIN v.offsets : v.offsets[i] <= Last(v.offsets)
                      /\ Aligned(v.off, v.layout, section.width)
    BY DEF FailClosed
  <2>1. WithinMapping(section) /\ HeaderAccepted(section) /\ SectionNumbers(section)
    BY DEF SectionInv, LoadInv, MappedInv
  <2>2. section.width \in {1, 2, 4} /\ base % 8 = 0 /\ base \in Nat /\ section.dirOffset \in Nat
    BY <2>1 DEF HeaderAccepted, MinBlockAlign, SectionNumbers, Sections, SectionInv, BodyInv
  <2>3. ASSUME NEW l \in DOMAIN counts, NEW b \in 0 .. counts[l], NEW v \in Views(l, b)
        PROVE  /\ HeaderSize <= v.off
               /\ v.off + v.layout.end <= section.dirOffset
               /\ \A i \in DOMAIN v.offsets : v.offsets[i] <= Last(v.offsets)
               /\ Aligned(v.off, v.layout, section.width)
    <3>1. PICK e \in EntriesOf(l, b) : \E c \in ContentAt(e.off) :
            /\ ViewAccepted(e, c)
            /\ v = [ids |-> c.ids, offsets |-> SubSeq(c.offsets, 1, Len(c.ids) + 1), off |-> e.off,
                    layout |-> Layout(Len(c.ids), c.offsets[Len(c.ids) + 1], section.width)]
      BY DEF Views
    <3>2. PICK c \in ContentAt(e.off) :
            /\ ViewAccepted(e, c)
            /\ v = [ids |-> c.ids, offsets |-> SubSeq(c.offsets, 1, Len(c.ids) + 1), off |-> e.off,
                    layout |-> Layout(Len(c.ids), c.offsets[Len(c.ids) + 1], section.width)]
      BY <3>1
    <3> DEFINE n   == Len(c.ids)
               nnz == c.offsets[n + 1]
               os  == SubSeq(c.offsets, 1, n + 1)
    <3>3. b \in Nat
      OBVIOUS
    <3>4. PICK k \in 1 .. Len(dir) : e = section.dir[k] /\ EntryPlaced(k)
      BY <3>3, EntryFound
    <3>5. /\ e.off % 8 = 0 /\ HeaderSize <= e.off /\ e.off <= section.dirOffset
          /\ section.dirOffset - e.off >= e.len
      BY <3>4 DEF EntryPlaced, EntryFits, MinBlockAlign
    <3>6. e.off \in Nat /\ e.len \in Nat
      <4>1. Len(section.dir) = Len(dir) /\ section.dir \in Seq(DirEntry)
        BY <2>1 DEF SectionNumbers, Sections
      <4>2. e \in DirEntry
        BY <3>4, <4>1
      <4> QED
        BY <4>2 DEF DirEntry
    <3>7. n \in Nat /\ c.offsets \in Seq(Nat)
      BY ContentIs
    <3>8. /\ Len(c.offsets) > n /\ \A i \in 1 .. n : c.offsets[i] <= c.offsets[i + 1]
          /\ Layout(n, nnz, section.width).end = e.len
      BY <3>2 DEF ViewAccepted
    <3>9. v.off = e.off /\ v.offsets = os /\ v.layout = Layout(n, nnz, section.width)
      BY <3>2
    <3>10. nnz \in Nat
      BY <3>7, <3>8
    <3>11. /\ os \in [1 .. n + 1 -> Nat] /\ Len(os) = n + 1 /\ DOMAIN os = 1 .. n + 1
           /\ \A i \in 1 .. n + 1 : os[i] = c.offsets[i]
      <4> DEFINE o == c.offsets
      <4>1. o \in Seq(Nat) /\ n \in Nat /\ n + 1 <= Len(o) /\ Len(o) \in Nat
        BY <3>7, <3>8
      <4> HIDE DEF o, n
      <4>2. SubSeq(o, 1, n + 1) \in Seq(Nat) /\ Len(SubSeq(o, 1, n + 1)) = n + 1
        BY <4>1
      <4>3. \A i \in 1 .. n + 1 : SubSeq(o, 1, n + 1)[i] = o[i]
        BY <4>1
      <4>4. os = SubSeq(o, 1, n + 1)
        BY DEF o, n
      <4> HIDE DEF os
      <4>5. os \in [1 .. n + 1 -> Nat] /\ DOMAIN os = 1 .. n + 1
        <5>1. os \in Seq(Nat) /\ Len(os) = n + 1
          BY <4>2, <4>4
        <5> QED
          BY <5>1
      <4> QED
        BY <4>2, <4>3, <4>4, <4>5 DEF o
    <3> HIDE DEF n, nnz, os
    <3>12. \A i \in DOMAIN os : os[i] <= Last(os)
      <4>1. \A i \in 1 .. n : os[i] <= os[i + 1]
        <5> SUFFICES ASSUME NEW i \in 1 .. n PROVE os[i] <= os[i + 1]
          OBVIOUS
        <5>1. i \in 1 .. n + 1 /\ i + 1 \in 1 .. n + 1
          BY <3>7
        <5> QED
          BY <3>8, <3>11, <5>1
      <4>2. \A i \in 1 .. n + 1 : os[i] <= os[n + 1]
        BY <3>7, <3>11, <4>1, NoOffsetBeyond
      <4> QED
        BY <3>11, <4>2 DEF Last
    <3>13. Aligned(e.off, Layout(n, nnz, section.width), section.width)
      BY <2>2, <3>5, <3>6, <3>7, <3>10, BlockAligned
    <3>14. e.off + e.len <= section.dirOffset
      BY <2>2, <3>5, <3>6
    <3> QED
      BY <3>5, <3>8, <3>9, <3>12, <3>13, <3>14
  <2> QED
    BY <2>1, <2>3 DEF WithinMapping
<1>2. QED
  BY <1>1, SectionInvHolds, PTL

(* The two passes agree, and of a section that was not damaged each block   *)
(* of each list is found, and no other                                      *)
(* (inline_forward_index_io.cpp:182-188, 493-520).                          *)
THEOREM SectionRoundTrips == SectionSpec => []RoundTrip
<1>1. SectionInv => RoundTrip
  <2> SUFFICES ASSUME SectionInv PROVE RoundTrip
    OBVIOUS
  <2> DEFINE s == InOrder(lists_)
             n == Len(s)
             There(l, b) == l < Len(lists_) /\ b < Len(lists_[l + 1])
             Found(l, b) == \E v \in Views(l, b) :
                              /\ Views(l, b) = {v}
                              /\ v.ids = lists_[l + 1][b + 1]
                              /\ v.offsets = OffsetsOf(v.ids)
  <2>1. ChosenInv /\ BodyInv /\ MappedInv /\ LoadInv
    BY DEF SectionInv
  <2>2. base # 0 => pc # "threw"
    BY <2>1 DEF BodyInv
  <2>3. section # NoFile /\ section.intact => pc # "rejected"
    BY <2>1 DEF MappedInv
  <2>4. ASSUME section # NoFile, section.intact, pc = "loaded",
               NEW l \in 0 .. Len(lists_), NEW b \in 0 .. n
        PROVE  IF There(l, b) THEN Found(l, b) ELSE Views(l, b) = {}
    <3>1. section = WholeSection /\ base # 0
      BY <2>1, <2>4 DEF MappedInv, BodyInv
    <3>2. /\ lists_ \in Corpora /\ width \in {1, 2, 4} /\ align \in Alignments /\ n \in Nat
          /\ Len(lists_) \in Nat /\ l \in Nat /\ b \in Nat
      BY <2>1, ChosenIs DEF Corpora
    <3>3. Laid(lists_, Len(lists_), s)
      <4> DEFINE D == Seq(0 .. Len(Nnz) - 1)
      <4>1. lists_ \in Seq(Seq(D))
        BY <3>2 DEF Corpora
      <4> HIDE DEF D
      <4> QED
        BY <4>1, InOrderIs
    <3>4. Len(dir) = n /\ dir = section.dir /\ section.width = width
      <4>1. Len(todo) = 0 /\ Len(todo) = n - Len(dir) /\ Len(dir) \in Nat
        BY <2>1, <2>4, <3>1 DEF BodyInv
      <4> HIDE DEF n
      <4> QED
        BY <3>1, <3>2, <4>1 DEF WholeSection
    <3>5. \A k \in 1 .. n : /\ section.dir[k] = EntryOf(lists_, width, align, k)
                            /\ section.dir[k].pl = s[k][1] - 1 /\ section.dir[k].block = s[k][2] - 1
      BY <2>1, <3>4 DEF BodyInv, EntryOf
    <3>6. CASE There(l, b)
      <4>1. l + 1 \in 1 .. Len(lists_) /\ b + 1 \in 1 .. Len(lists_[l + 1])
        <5>1. l + 1 \in 1 .. Len(lists_)
          BY <3>2, <3>6
        <5>2. lists_[l + 1] \in Seq(Seq(0 .. Len(Nnz) - 1))
          BY <3>2, <5>1 DEF Corpora
        <5>3. Len(lists_[l + 1]) \in Nat
          BY <5>2
        <5> QED
          BY <3>2, <3>6, <5>1, <5>3
      <4>2. PICK k \in 1 .. n : s[k] = <<l + 1, b + 1>>
        BY <3>3, <4>1 DEF Laid
      <4> DEFINE e    == section.dir[k]
                 docs == lists_[l + 1][b + 1]
                 c    == ContentOf(lists_, k)
                 view == [ids |-> c.ids, offsets |-> SubSeq(c.offsets, 1, Len(c.ids) + 1), off |-> e.off,
                          layout |-> Layout(Len(c.ids), c.offsets[Len(c.ids) + 1], section.width)]
      <4>3. e.pl = l /\ e.block = b
        <5>1. s[k][1] = l + 1 /\ s[k][2] = b + 1
          BY <4>2
        <5>2. e.pl = s[k][1] - 1 /\ e.block = s[k][2] - 1
          BY <3>5
        <5>3. (l + 1) - 1 = l /\ (b + 1) - 1 = b
          BY <3>2
        <5> HIDE DEF e, s
        <5> QED
          BY <5>1, <5>2, <5>3
      <4>4. EntryPlaced(k)
        <5>1. at - 1 = n
          BY <2>1, <2>4, <3>2, <3>4 DEF LoadInv
        <5> QED
          BY <2>1, <2>4, <5>1 DEF LoadInv
      <4>5. EntriesOf(l, b) = {e}
        <5>1. l \in DOMAIN counts
          <6>1. section.nLists = Len(lists_)
            BY <3>1 DEF WholeSection
          <6>2. counts \in [0 .. section.nLists - 1 -> Nat]
            BY <2>1, <2>4 DEF LoadInv
          <6>3. l \in 0 .. section.nLists - 1
            BY <3>2, <3>6, <6>1
          <6> QED
            BY <6>2, <6>3
        <5>2. b < counts[l] /\ ListOffset(l) + b + 1 = k
          BY <4>3, <4>4 DEF EntryPlaced, ListOffset, SumBelow
        <5> QED
          BY <4>3, <5>1, <5>2 DEF EntriesOf
      <4>6. e = EntryOf(lists_, width, align, k)
        BY <3>5
      <4>7. e.off = Sized(lists_, width, align)[k - 1]
        <5> HIDE DEF e
        <5> QED
          BY <4>6 DEF EntryOf
      <4>8. ContentAt(e.off) = {c}
        <5>1. e.off \in DOMAIN blocks /\ blocks[e.off] = c
          BY <2>1, <3>4, <4>7 DEF BodyInv
        <5> QED
          BY <5>1 DEF ContentAt
      <4>9. c.ids = docs /\ c.offsets = OffsetsOf(docs) /\ e.n = Len(docs) /\ e.len = EndOf(docs, width)
        <5>1. InOrder(lists_)[k][1] = l + 1 /\ InOrder(lists_)[k][2] = b + 1
          BY <4>2
        <5> HIDE DEF e
        <5> QED
          BY <4>6, <5>1 DEF ContentOf, EntryOf
      <4>10. docs \in Seq(0 .. Len(Nnz) - 1)
        <5>1. lists_[s[k][1]][s[k][2]] \in Seq(0 .. Len(Nnz) - 1)
          BY <3>2, BlockIs
        <5> QED
          BY <4>2, <5>1
      <4> DEFINE os == OffsetsOf(docs)
      <4>11. /\ os \in Seq(Nat) /\ Len(os) = Len(docs) + 1 /\ os[1] = 0 /\ Len(docs) \in Nat
             /\ \A i \in 1 .. Len(docs) : os[i] <= os[i + 1]
             /\ Last(os) = os[Len(docs) + 1]
        <5> HIDE DEF docs
        <5> QED
          BY <4>10, OffsetsAre
      <4>12. ViewAccepted(e, c)
        <5>1. Layout(Len(docs), 0, width).comps <= e.len
          BY <3>2, <4>9, <4>10, BlockEnds
        <5>2. Layout(Len(docs), os[Len(docs) + 1], width).end = e.len
          BY <4>9, <4>11 DEF EndOf
        <5> HIDE DEF e, c, os, docs
        <5> QED
          BY <3>4, <4>9, <4>11, <5>1, <5>2 DEF ViewAccepted, os
      <4>13. Views(l, b) = {view}
        <5> HIDE DEF e, c
        <5> QED
          BY <4>5, <4>8, <4>12 DEF Views
      <4>14. view.ids = docs /\ view.offsets = OffsetsOf(docs)
        <5>1. SubSeq(os, 1, Len(docs) + 1) = os
          <6> HIDE DEF os, docs
          <6> QED
            BY <4>11
        <5> HIDE DEF e, c, docs
        <5> QED
          BY <4>9, <5>1
      <4> HIDE DEF view, docs
      <4> QED
        BY <3>6, <4>13, <4>14 DEF docs
    <3>7. CASE ~There(l, b)
      <4>1. EntriesOf(l, b) = {}
        <5> SUFFICES ASSUME NEW e \in EntriesOf(l, b) PROVE FALSE
          OBVIOUS
        <5>1. PICK k \in 1 .. n : e = section.dir[k] /\ e.pl = l /\ e.block = b
          BY <2>4, <3>2, <3>4, EntryFound
        <5>2. /\ s[k][1] \in 1 .. Len(lists_) /\ s[k][2] \in 1 .. Len(lists_[s[k][1]])
              /\ l = s[k][1] - 1 /\ b = s[k][2] - 1
          BY <3>3, <3>5, <5>1 DEF Laid
        <5>3. s[k][1] = l + 1 /\ s[k][2] = b + 1
          BY <5>2
        <5>4. l + 1 \in 1 .. Len(lists_) /\ b + 1 \in 1 .. Len(lists_[l + 1])
          BY <5>2, <5>3
        <5>5. Len(lists_[l + 1]) \in Nat
          <6>1. lists_[l + 1] \in Seq(Seq(0 .. Len(Nnz) - 1))
            BY <3>2, <5>4 DEF Corpora
          <6> QED
            BY <6>1
        <5>6. l < Len(lists_) /\ b < Len(lists_[l + 1])
          BY <3>2, <5>4, <5>5
        <5> QED
          BY <3>7, <5>6
      <4>2. Views(l, b) = {}
        BY <4>1 DEF Views
      <4> QED
        BY <3>7, <4>2
    <3> QED
      BY <3>6, <3>7
  <2> QED
    BY <2>2, <2>3, <2>4 DEF RoundTrip
<1>2. QED
  BY <1>1, SectionInvHolds, PTL
=============================================================================
