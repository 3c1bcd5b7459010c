----------------------------- MODULE IdMapIndex -----------------------------
(***************************************************************************)
(* The life of an IDMapIndex (nsparse/id_map_index.cpp) over the index it  *)
(* owns: an InvertedIndex, which drops its rows once it has built lists    *)
(* from them and counts them on its own, or a SeismicIndex, which keeps    *)
(* them.  A row is the number of the document the caller added; what the   *)
(* caller named it is remembered beside the index, to compare.             *)
(***************************************************************************)
EXTENDS Integers, Sequences, FiniteSets, Functions

CONSTANTS
  Ids,      \* external ids
  MaxDocs,  \* bound: documents added to one index
  NoId,     \* stands for the name of a document added without one
  Nothing   \* stands for no lists, and for no file

ASSUME IdsAssumption     == Ids \subseteq Nat
ASSUME MaxDocsAssumption == MaxDocs \in Nat
ASSUME NoIdAssumption    == NoId \notin Nat

VARIABLES
  keeps,     \* does the delegate keep its rows when it builds?
  rows,      \* its vectors_
  borrowed,  \* do they borrow from a mapped file?
  built,     \* the rows its lists were built from; internal ids index them
  num,       \* InvertedIndex::num_vectors_
  i2e, e2i,  \* internal_to_external_, external_to_internal_
  discard,   \* has read_csr_and_ids thrown half-way?
  given,     \* the name the caller gave each document
  late,      \* were rows added to a delegate that had dropped some?
  file       \* the saved index

delegateVars == <<keeps, rows, borrowed, built, num>>
mapVars == <<i2e, e2i>>
vars == <<delegateVars, mapVars, discard, given, late, file>>

(* num_vectors() *)
NumVectors == IF keeps THEN Len(rows) ELSE num
-----------------------------------------------------------------------------
(* The delegate.                                                            *)

NewDocs(n) == [i \in 1 .. n |-> Len(given) + i]

(* add() copies; rows that borrow from a mapping refuse to grow.            *)
DelegateAdd(n) ==
  /\ ~borrowed
  /\ rows' = rows \o NewDocs(n)
  /\ num' = num + n
  /\ UNCHANGED <<keeps, borrowed, built>>

(* Mutated: a mapped corpus is not counted before build(). *)
DelegateReadUncounted(n) ==
  \/ DelegateAdd(n)
  \/ /\ rows = <<>>
     /\ rows' = NewDocs(n)
     /\ borrowed' = TRUE
     /\ UNCHANGED <<keeps, built, num>>

(* read_csr: through add(), or borrowing from a mapped file where there are *)
(* no rows yet; either way the rows are counted at once.                    *)
DelegateRead(n) ==
  /\ \/ ~borrowed /\ rows' = rows \o NewDocs(n) /\ UNCHANGED borrowed
     \/ rows = <<>> /\ rows' = NewDocs(n) /\ borrowed' = TRUE
  /\ num' = Len(rows')
  /\ UNCHANGED <<keeps, built>>

DelegateBuild ==
  IF keeps
    THEN built' = rows /\ UNCHANGED <<rows, borrowed, num>>
    ELSE IF rows = <<>>
           THEN UNCHANGED <<rows, borrowed, built, num>>
           ELSE /\ built' = rows
                /\ num' = Len(rows)
                /\ rows' = <<>>
                /\ borrowed' = FALSE

(* Rows that joined a delegate which no longer has those before them.       *)
JoinsLate == ~keeps /\ num # Len(rows)
-----------------------------------------------------------------------------
Init ==
  /\ keeps \in BOOLEAN
  /\ rows = <<>> /\ borrowed = FALSE /\ built = Nothing /\ num = 0
  /\ i2e = <<>> /\ e2i = <<>>
  /\ discard = FALSE
  /\ given = <<>> /\ late = FALSE
  /\ file = Nothing

(* add(): the delegate's alone, the map does not hear of it.                *)
Add(n) ==
  /\ ~discard
  /\ DelegateAdd(n)
  /\ given' = given \o [i \in 1 .. n |-> NoId]
  /\ late' = (late \/ JoinsLate)
  /\ UNCHANGED <<mapVars, discard, file>>

(* m, resized to n entries: zeros where there were none.                    *)
Resized(m, n) == [i \in 1 .. n |-> IF i <= Len(m) THEN m[i] ELSE 0]

(* Mutated: rows are numbered from one. *)
ReversedFromOne(m) == [x \in Range(m) |-> CHOOSE i \in 1 .. Len(m) :
                         m[i] = x /\ \A j \in i + 1 .. Len(m) : m[j] # x]

(* The reverse of m; of two equal names the later row's counts.             *)
Reversed(m) == [x \in Range(m) |-> CHOOSE i \in 0 .. Len(m) - 1 :
                  m[i + 1] = x /\ \A j \in i + 1 .. Len(m) - 1 : m[j + 1] # x]

(* Mutated: the names go where the rows start, not where the new ones do. *)
AddWithIdsFromZero(ids) ==
  LET n == Len(ids)
  IN  /\ ~discard
      /\ DelegateAdd(n)
      /\ i2e' = [i \in 1 .. NumVectors + n |->
                   IF i <= n THEN ids[i] ELSE Resized(i2e, NumVectors + n)[i]]
      /\ e2i' = [x \in DOMAIN e2i \union Range(ids) |->
                   IF x \in Range(ids) THEN Reversed(ids)[x] ELSE e2i[x]]
      /\ given' = given \o ids
      /\ late' = (late \/ JoinsLate)
      /\ UNCHANGED <<discard, file>>

AddWithIds(ids) ==
  LET old == NumVectors
      n   == Len(ids)
  IN  /\ ~discard
      /\ DelegateAdd(n)
      /\ i2e' = [i \in 1 .. old + n |->
                   IF i > old THEN ids[i - old] ELSE Resized(i2e, old + n)[i]]
      /\ e2i' = [x \in DOMAIN e2i \union Range(ids) |->
                   IF x \in Range(ids) THEN old + Reversed(ids)[x] ELSE e2i[x]]
      /\ given' = given \o ids
      /\ late' = (late \/ JoinsLate)
      /\ UNCHANGED <<discard, file>>

(* Mutated: external_to_internal_ is not cleared first. *)
SetIdMapKeepsOld(m) ==
  /\ i2e' = m
  /\ e2i' = [x \in DOMAIN e2i \union Range(m) |->
               IF x \in Range(m) THEN Reversed(m)[x] ELSE e2i[x]]

SetIdMap(m) == i2e' = m /\ e2i' = Reversed(m)

(* read_csr_and_ids: the names of the file are for every row the delegate   *)
(* has once it has read the corpus; another number of them throws, with     *)
(* the rows already there.                                                  *)
ReadCsrAndIds(n, names) ==
  /\ ~discard
  /\ DelegateRead(n)
  /\ late' = (late \/ JoinsLate)
  /\ IF Len(names) = NumVectors'
       THEN /\ SetIdMap(names)
            /\ given' = [d \in 1 .. Len(given) + n |->
                 IF \E i \in 1 .. Len(rows') : i <= Len(names) /\ rows'[i] = d
                   THEN names[CHOOSE i \in 1 .. Len(rows') : rows'[i] = d]
                   ELSE given[d]]
            /\ UNCHANGED discard
       ELSE /\ discard' = TRUE
            /\ given' = given \o [i \in 1 .. n |-> NoId]
            /\ UNCHANGED mapVars
  /\ UNCHANGED file

Build ==
  /\ ~discard
  /\ DelegateBuild
  /\ UNCHANGED <<keeps, mapVars, discard, given, late, file>>

(* write_index: the map, then the delegate -- which, if it drops its rows   *)
(* when built, does not write those it has not built from either.           *)
Save ==
  /\ ~discard
  /\ file' = [i2e |-> i2e, built |-> built, given |-> given, late |-> late,
              rows |-> IF keeps THEN rows ELSE <<>>, num |-> num]
  /\ UNCHANGED <<delegateVars, mapVars, discard, given, late>>

(* read_index: another index in this one's place, whose rows are copied or  *)
(* borrow from the mapped file.                                             *)
Load ==
  /\ file # Nothing
  /\ rows' = file.rows
  /\ built' = file.built
  /\ num' = file.num
  /\ borrowed' \in {FALSE, file.rows # <<>>}
  /\ SetIdMap(file.i2e)
  /\ discard' = FALSE
  /\ given' = file.given
  /\ late' = file.late
  /\ UNCHANGED <<keeps, file>>

Room(n)   == Len(given) + n <= MaxDocs
SeqsOf(n) == [1 .. n -> Ids]

Next ==
  \/ \E n \in 1 .. MaxDocs : Room(n) /\ Add(n)
  \/ \E n \in 1 .. MaxDocs : Room(n) /\ \E ids \in SeqsOf(n) : AddWithIds(ids)
  \/ \E n \in 1 .. MaxDocs : Room(n) /\
       \E m \in n .. MaxDocs : \E names \in SeqsOf(m) : ReadCsrAndIds(n, names)
  \/ Build
  \/ Save
  \/ Load

Spec == Init /\ [][Next]_vars
-----------------------------------------------------------------------------
TypeOK ==
  /\ keeps \in BOOLEAN /\ borrowed \in BOOLEAN /\ discard \in BOOLEAN /\ late \in BOOLEAN
  /\ rows \in Seq(1 .. MaxDocs)
  /\ built \in Seq(1 .. MaxDocs) \union {Nothing}
  /\ num \in 0 .. MaxDocs
  /\ i2e \in Seq(Ids \union {0})
  /\ Range(e2i) \subseteq 0 .. MaxDocs - 1
  /\ given \in Seq(Ids \union {NoId})

(* Every row was named, and none joined a delegate that had dropped others. *)
Disciplined == ~late /\ \A d \in 1 .. Len(given) : given[d] # NoId

(* A label search returns is the name the caller gave that row, through any *)
(* sequence of adds, reads, builds, saves and loads, also while rows wait   *)
(* to be built (id_map_index.cpp:61-67): whatever internal id the lists     *)
(* hold is within the map, which names its row.                             *)
LabelsAreTheCallers ==
  Disciplined /\ ~discard /\ built # Nothing =>
    \A i \in 1 .. Len(built) : i <= Len(i2e) /\ i2e[i] = given[built[i]]

(* A selector is asked about rows in two ways: through internal_to_external_*)
(* when it is consulted, through external_to_internal_ when it is           *)
(* enumerated.  With distinct names both select the same rows.              *)
SelectorsAgree ==
  Disciplined /\ ~discard /\ IsInjective(i2e) =>
    \A x \in Ids :
      {i \in 0 .. Len(i2e) - 1 : i2e[i + 1] = x}
        = IF x \in DOMAIN e2i THEN {e2i[x]} ELSE {}

(* num_vectors() -- what the next batch's ids are placed by, and what an id *)
(* file is checked against -- counts every document added, built or not,    *)
(* copied or mapped (inverted_index.h:38-45).                               *)
CountsEveryRow == ~late => NumVectors = Len(given)
=============================================================================
