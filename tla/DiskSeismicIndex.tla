-------------------------- MODULE DiskSeismicIndex --------------------------
(***************************************************************************)
(* The life of a disk-resident seismic index                               *)
(* (nsparse/disk_seismic_index_base.cpp): it is filled and built like any  *)
(* other, but what it saves are its summaries, the documents of each block *)
(* next to one another (the inline forward index), and a directory that    *)
(* says where each document is; a file is only ever loaded mapped.         *)
(*                                                                         *)
(* A document is a number, in the order the caller adds them; its id is    *)
(* its position in the corpus.  Which documents a list keeps, and how they *)
(* are dealt to its blocks, is free: module Clustering is about that.  A   *)
(* block's summary is stood for by what it was made from.                  *)
(***************************************************************************)
EXTENDS Numbers, Sequences

CONSTANTS
  Dim,        \* posting lists
  MaxDocs,    \* bound: documents added, over all indexes
  MaxBlocks,  \* bound: blocks of a list
  Nothing     \* stands for no corpus, no directory, no file

ASSUME DimAssumption    == Dim \in Nat
ASSUME BoundsAssumption == MaxDocs \in Nat /\ MaxBlocks \in Nat

(* Where the directory has a document: a list, a block and a slot, or a row *)
(* of remainder_.                                                           *)
Locator == [row : Nat] \union [place : Nat \X Nat \X Nat]

ASSUME NothingAssumption == Nothing \notin Seq(Nat) \union Seq(Locator)

VARIABLES
  vectors,   \* vectors_: the documents; Nothing until there are any
  borrowed,  \* do they borrow from a mapped CSR file?
  num,       \* num_vectors_
  lists,     \* clustered_inverted_lists: [docs, of] for each block of each;
             \* docs are the ids it holds, of what its summary was made from
  fwd,       \* fwd_: the [id, doc] of each block of each list; empty if not loaded
  locators,  \* doc_locators_
  remainder, \* remainder_
  file,      \* the saved index
  added,     \* documents added so far
  corpus,    \* what the caller takes the ids of this index for
  fresh,     \* were the lists built by this index, of all its documents?
  mixed      \* has it got a corpus after it was loaded?

corpusVars == <<vectors, borrowed, num>>
mappedVars == <<fwd, locators, remainder>>
vars == <<corpusVars, lists, mappedVars, file, added, corpus, fresh, mixed>>

Ids(vs) == 0 .. Len(vs) - 1

(* What blocks hold of each of the documents with these ids. *)
Held(ids, vs) == [i \in DOMAIN ids |-> [id |-> ids[i], doc |-> vs[ids[i] + 1]]]

(* The lists a build may make of the corpus vs: each keeps some of the      *)
(* documents, each of these in one block.                                   *)
ListsOf(vs) ==
  LET blockings == {b \in UNION {[1 .. n -> (SUBSET Ids(vs)) \ {{}}] : n \in 0 .. MaxBlocks} :
                      \A i, j \in DOMAIN b : i # j => b[i] \intersect b[j] = {}}
      block(S)  == LET ids == Ascending(S) IN [docs |-> ids, of |-> Held(ids, vs)]
  IN  [1 .. Dim -> {[i \in DOMAIN b |-> block(b[i])] : b \in blockings}]

(* fwd_.num_blocks() > 0 *)
HasBlocks(f) == \E l \in DOMAIN f : f[l] # <<>>
-----------------------------------------------------------------------------
Init ==
  /\ vectors = Nothing /\ borrowed = FALSE /\ num = 0
  /\ lists = <<>>
  /\ fwd = <<>> /\ locators = Nothing /\ remainder = <<>>
  /\ file = Nothing
  /\ added = 0 /\ corpus = <<>> /\ fresh = FALSE /\ mixed = FALSE

NewDocs(n) == [i \in 1 .. n |-> added + i]

(* The index has more documents; they are its own from the first on.        *)
Grown ==
  /\ added' = added + Len(vectors') - (IF vectors = Nothing THEN 0 ELSE Len(vectors))
  /\ corpus' = vectors'
  /\ mixed' = (mixed \/ locators # Nothing)
  /\ fresh' = FALSE

(* Mutated: the count goes on from what a load left in it. *)
AddKeepsCount(n) ==
  /\ ~borrowed
  /\ vectors' = IF vectors = Nothing THEN NewDocs(n) ELSE vectors \o NewDocs(n)
  /\ num' = num + n
  /\ Grown
  /\ UNCHANGED <<borrowed, lists, mappedVars, file>>

(* Mutated: the documents there were are counted again. *)
AddRecounts(n) ==
  /\ ~borrowed
  /\ vectors' = IF vectors = Nothing THEN NewDocs(n) ELSE vectors \o NewDocs(n)
  /\ num' = IF vectors = Nothing THEN n ELSE num + Len(vectors')
  /\ Grown
  /\ UNCHANGED <<borrowed, lists, mappedVars, file>>

(* add(), and read_csr in memory: a fresh container starts the count.       *)
Add(n) ==
  /\ ~borrowed
  /\ vectors' = IF vectors = Nothing THEN NewDocs(n) ELSE vectors \o NewDocs(n)
  /\ num' = IF vectors = Nothing THEN n ELSE num + n
  /\ Grown
  /\ UNCHANGED <<borrowed, lists, mappedVars, file>>

(* read_csr mapped: only where there is no corpus yet. *)
MapCsr(n) ==
  /\ vectors = Nothing
  /\ vectors' = NewDocs(n)
  /\ borrowed' = TRUE
  /\ num' = n
  /\ Grown
  /\ UNCHANGED <<lists, mappedVars, file>>

(* build(); of no corpus, lists without blocks.  What was loaded stays.     *)
(* Bound: an index is built again once it has more documents; until then    *)
(* another build is another choice of the same lists.                       *)
Build ==
  /\ ~fresh
  /\ lists' \in IF vectors = Nothing THEN {[t \in 1 .. Dim |-> <<>>]} ELSE ListsOf(vectors)
  /\ fresh' = TRUE
  /\ UNCHANGED <<corpusVars, mappedVars, file, added, corpus, mixed>>

(* Mutated: a list's first block is left out of the file. *)
ForwardSkipsFirst(ls, vs) ==
  [l \in DOMAIN ls |-> [b \in 1 .. Len(ls[l]) - 1 |-> Held(ls[l][b + 1].docs, vs)]]

(* InlineForwardIndex::write_body: the documents of each block. *)
Forward(ls, vs) == [l \in DOMAIN ls |-> [b \in DOMAIN ls[l] |-> Held(ls[l][b].docs, vs)]]

(* Where the blocks ls have the document of an id: a list, a block, a slot. *)
Places(ls, id) ==
  {p \in (DOMAIN ls) \X (1 .. MaxBlocks) \X (1 .. MaxDocs) :
     /\ p[2] \in DOMAIN ls[p[1]]
     /\ p[3] \in DOMAIN ls[p[1]][p[2]].docs
     /\ ls[p[1]][p[2]].docs[p[3]] = id}

Before(p, q) ==
  \/ p[1] < q[1]
  \/ p[1] = q[1] /\ p[2] < q[2]
  \/ p[1] = q[1] /\ p[2] = q[2] /\ p[3] < q[3]

First(places) == CHOOSE p \in places : \A q \in places \ {p} : Before(p, q)

(* The ids of no block, in order. *)
Uncovered(ls, vs) == Ascending({id \in Ids(vs) : Places(ls, id) = {}})

(* Mutated: a document of no block is found by its id, not by its row. *)
LocatorsById(ls, vs) ==
  [i \in 1 .. Len(vs) |->
     IF Places(ls, i - 1) = {}
       THEN [row |-> i]
       ELSE [place |-> First(Places(ls, i - 1))]]

(* write_doc_directory: the first place of each document, or its row among  *)
(* those of no block.                                                       *)
Locators(ls, vs) ==
  [i \in 1 .. Len(vs) |->
     IF Places(ls, i - 1) = {}
       THEN [row |-> CHOOSE r \in DOMAIN Uncovered(ls, vs) : Uncovered(ls, vs)[r] = i - 1]
       ELSE [place |-> First(Places(ls, i - 1))]]

Bare(ls) == [l \in DOMAIN ls |-> [b \in DOMAIN ls[l] |-> [docs |-> <<>>, of |-> ls[l][b].of]]]

(* write_index: the count, the summaries, the blocks, the directory -- all  *)
(* but the count and the summaries from a corpus that may be Nothing.       *)
Save ==
  LET vs == IF vectors = Nothing THEN <<>> ELSE vectors
  IN  /\ file' = [num |-> num, lists |-> Bare(lists), fwd |-> Forward(lists, vs),
                  locators |-> Locators(lists, vs),
                  remainder |-> LET ids == Uncovered(lists, vs)
                                IN  [r \in DOMAIN ids |-> vs[ids[r] + 1]],
                  corpus |-> corpus, mixed |-> mixed,
                  hollow |-> vectors = Nothing /\ num > 0]
      /\ UNCHANGED <<corpusVars, lists, mappedVars, added, corpus, fresh, mixed>>

(* A file whose directory does not cover its count is rejected, and the     *)
(* index half loaded from it with it.                                       *)
Loadable(f) == Len(f.locators) = f.num

(* load_mapped_payload, into a new index in this one's place. *)
Load ==
  /\ file # Nothing
  /\ Loadable(file)
  /\ vectors' = Nothing /\ borrowed' = FALSE
  /\ num' = file.num
  /\ lists' = file.lists
  /\ fwd' = file.fwd
  /\ locators' = file.locators /\ remainder' = file.remainder
  /\ corpus' = file.corpus /\ mixed' = file.mixed /\ fresh' = FALSE
  /\ UNCHANGED <<file, added>>

Next ==
  \/ \E n \in 1 .. MaxDocs - added : Add(n) \/ MapCsr(n)
  \/ Build
  \/ Save
  \/ Load

Spec == Init /\ [][Next]_vars
-----------------------------------------------------------------------------
(* What search reads. *)

(* The early return of search(). *)
HasNothing == num = 0 \/ (~HasBlocks(fwd) /\ vectors = Nothing)

(* score_block: the documents scored for block b of list l. *)
Scored(l, b) ==
  IF HasNothing
    THEN <<>>
    ELSE IF HasBlocks(fwd)
      THEN IF l \in DOMAIN fwd /\ b \in DOMAIN fwd[l] THEN fwd[l][b] ELSE <<>>
      ELSE Held(lists[l][b].docs, vectors)

(* get_doc; Nothing where it throws. *)
GetDoc(id) ==
  LET loc == locators[id + 1]
  IN  IF "row" \in DOMAIN loc
        THEN IF loc.row \in DOMAIN remainder THEN remainder[loc.row] ELSE Nothing
        ELSE LET l == loc.place[1]
                 b == loc.place[2]
                 s == loc.place[3]
             IN  IF /\ l \in DOMAIN fwd /\ b \in DOMAIN fwd[l] /\ s \in DOMAIN fwd[l][b]
                    /\ fwd[l][b][s].id = id
                   THEN fwd[l][b][s].doc
                   ELSE Nothing

-----------------------------------------------------------------------------
Docs == 1 .. MaxDocs
Blocks == [docs : Seq(0 .. MaxDocs - 1), of : Seq([id : 0 .. MaxDocs - 1, doc : Docs])]

TypeOK ==
  /\ vectors \in Seq(Docs) \union {Nothing}
  /\ borrowed \in BOOLEAN /\ fresh \in BOOLEAN /\ mixed \in BOOLEAN
  /\ num \in 0 .. MaxDocs /\ added \in 0 .. MaxDocs
  /\ \A l \in DOMAIN lists : lists[l] \in Seq(Blocks)
  /\ \A l \in DOMAIN fwd : fwd[l] \in Seq(Seq([id : 0 .. MaxDocs - 1, doc : Docs]))
  /\ remainder \in Seq(Docs)
  /\ corpus \in Seq(Docs)

(* "reading them from the in-RAM CSR of a fresh build" and from the mapped  *)
(* blocks is the same (disk_seismic_index_test.cpp:29-32): a block that is  *)
(* chosen by its summary is scored on the very documents the summary was    *)
(* made from, built or loaded, and also once more documents wait.           *)
ScoresWhatItRanks ==
  ~mixed => \A l \in DOMAIN lists : \A b \in DOMAIN lists[l] : Scored(l, b) = lists[l][b].of

(* The directory resolves every id of a loaded index to the caller's        *)
(* document, one that is in several blocks or in none included; it never    *)
(* throws (disk_seismic_index_base.cpp:329-352).                            *)
DirectoryResolves ==
  ~mixed /\ locators # Nothing =>
    /\ Len(locators) = Len(corpus)
    /\ \A id \in Ids(corpus) : GetDoc(id) = corpus[id + 1]

(* A file loads, unless it was saved from a loaded index, which has no      *)
(* corpus to make a directory from (disk_seismic_index_base.cpp:310).       *)
SavedFilesLoad == file # Nothing /\ ~file.hollow => Loadable(file)

(* "Vectors come from the inline forward index (fwd) when loaded, else from *)
(* the in-RAM CSR of a fresh build" (disk_seismic_search.cpp:62-63): after  *)
(* build() the index scores what it was built from.                         *)
FreshBuildIsScored ==
  fresh => \A l \in DOMAIN lists : \A b \in DOMAIN lists[l] : Scored(l, b) = lists[l][b].of
=============================================================================
