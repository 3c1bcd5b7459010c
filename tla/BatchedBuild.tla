---------------------------- MODULE BatchedBuild ----------------------------
(***************************************************************************)
(* The build every seismic index runs (nsparse/seismic_batched_build.cpp,  *)
(* for_each_clustered_window in nsparse/seismic_common.cpp) and the life   *)
(* of the index that holds its lists and its spill (nsparse/mmap_index.h). *)
(*                                                                         *)
(* One thread calls add(), build() and the destructor.  Inside a build,    *)
(* OpenMP threads cluster the posting lists of a window in any order; each *)
(* step that touches the spill file may fail, and an exception ends the    *)
(* build.  A spill file is named by a number; 0 names none.                *)
(***************************************************************************)
EXTENDS ClusteredLists, FiniteSetsExt

CONSTANTS
  BatchSizes, \* the values effective_batch_size() may have
  MaxDocs,    \* bound: rows added
  MaxBuilds,  \* bound: builds begun
  Heap        \* where the arrays of a whole-corpus build live

ASSUME BatchSizesAssumption == BatchSizes \subseteq Nat \ {0}
ASSUME BoundsAssumption     == MaxDocs \in Nat /\ MaxBuilds \in Nat
ASSUME HeapAssumption       == Heap \notin Nat

VARIABLES
  batchSize,  \* effective_batch_size(), fixed by the constructor
  unlinks,    \* can the platform unlink a file that is mapped?
  corpus,     \* vectors_: the set of terms of each row
  lists,      \* clustered_inverted_lists
  home,       \* what their arrays live in: Heap, or the spill they borrow from
  path,       \* path_: the spill whose removal is owed
  mapping,    \* mapping_: the spill that is mapped
  files,      \* the spills that exist in the scratch directory
  builds,     \* builds begun; the spill of the n-th is n
  outcome,    \* of the last build that got to its corpus: "ok" | "threw"
  pc,         \* what the build does next; "idle" between calls
  seed,       \* base_seed
  counts,     \* term_counts
  ends,       \* where the windows still to build end
  begin,      \* first term of the window being built
  doc,        \* the row fill_from_corpus reads next
  ids,        \* the ids staged for each term of the window
  clustered,  \* the lists of the window that a thread has clustered
  section     \* the lists retained (whole-corpus) or written (spilling)

indexVars  == <<batchSize, unlinks, corpus, lists, home>>
spillVars  == <<path, mapping, files>>
windowVars == <<ends, begin, doc, ids, clustered>>
buildVars  == <<seed, counts, windowVars, section>>
vars == <<indexVars, spillVars, builds, outcome, pc, buildVars>>

None == 0

Spilling == batchSize > 1

(* The window being built is begin .. End-1.  make_windows returns some cut *)
(* of the terms into `Windows` non-empty runs (TermWindows!Partition): here *)
(* it is the set of their ends, in PlannedBuild the cut it returns.         *)
Windows == IF batchSize < Dim THEN batchSize ELSE Dim
Cuts == {e \in SUBSET (1 .. Dim) : Dim \in e /\ Cardinality(e) = Windows}
End == Min(ends)

(* Mutated: the end is one of the window's terms. *)
WindowInclusive == begin .. End

Window == begin .. End - 1

(* Mutated: the file is removed only if it got as far as being mapped. *)
ReleaseIfMapped ==
  IF path = None
    THEN UNCHANGED spillVars
    ELSE /\ path' = None
         /\ mapping' = None
         /\ files' = IF mapping = path THEN files \ {path} ELSE files

(* ClusteredListsSpill::release.  Nothing owed, nothing done: a mapping     *)
(* whose file is already unlinked stays.                                    *)
Release ==
  IF path = None
    THEN UNCHANGED spillVars
    ELSE path' = None /\ mapping' = None /\ files' = files \ {path}
-----------------------------------------------------------------------------
Init ==
  /\ batchSize \in BatchSizes
  /\ unlinks \in BOOLEAN
  /\ corpus = <<>>
  /\ lists = Unbuilt /\ home = Heap
  /\ path = None /\ mapping = None /\ files = {}
  /\ builds = 0 /\ outcome = "ok"
  /\ pc = "idle"
  /\ seed = 0 /\ counts = <<>> /\ section = <<>>
  /\ ends = {} /\ begin = 0 /\ doc = 1 /\ ids = <<>> /\ clustered = <<>>

Add ==
  /\ pc = "idle"
  /\ Len(corpus) < MaxDocs
  /\ \E row \in Rows : corpus' = Append(corpus, row)
  /\ UNCHANGED <<batchSize, unlinks, lists, home, spillVars, builds, outcome,
                 pc, buildVars>>

(* build_clustered_lists without batching: every list retained, and an      *)
(* empty corpus still has one list per term.                                *)
BuildWhole ==
  /\ pc = "idle"
  /\ builds < MaxBuilds
  /\ ~Spilling
  /\ builds' = builds + 1
  /\ section' = [i \in 1 .. Dim |-> EmptyList]
  /\ pc' = IF corpus = <<>> THEN "assign" ELSE "count"
  /\ UNCHANGED <<indexVars, spillVars, outcome, seed, counts, windowVars>>

(* Mutated: the previous spill is given up before the arguments are checked.*)
BuildRefusedAfterRelease ==
  /\ pc = "idle"
  /\ builds < MaxBuilds
  /\ Spilling
  /\ Release
  /\ builds' = builds + 1
  /\ UNCHANGED <<indexVars, outcome, pc, buildVars>>

(* spill_clustered_lists' two early throws, both before the spill in place  *)
(* is touched: the directory is gone, or there is nothing to spill.         *)
BuildRefused ==
  /\ pc = "idle"
  /\ builds < MaxBuilds
  /\ Spilling
  /\ builds' = builds + 1
  /\ UNCHANGED <<indexVars, spillVars, outcome, pc, buildVars>>

(* write_and_map: give up the previous spill, own the next before it exists.*)
BuildSpilling ==
  /\ pc = "idle"
  /\ builds < MaxBuilds
  /\ Spilling
  /\ corpus # <<>>
  /\ builds' = builds + 1
  /\ IF path = None
       THEN UNCHANGED <<mapping, files>>
       ELSE mapping' = None /\ files' = files \ {path}
  /\ path' = builds'
  /\ pc' = "create"
  /\ UNCHANGED <<indexVars, outcome, buildVars>>

(* An exception leaves the build.  Once a spill is owned, it and its        *)
(* mapping go with it.                                                      *)
Throw ==
  /\ Release
  /\ outcome' = "threw"
  /\ pc' = "idle"
  /\ UNCHANGED <<indexVars, builds, buildVars>>

(* A step on the spill file fails: it cannot be created, written, flushed   *)
(* and closed, or mapped.                                                   *)
SpillFails ==
  /\ Spilling
  /\ pc \in {"create", "sink", "map"}
  /\ Throw

CreateSpill ==
  /\ pc = "create"
  /\ files' = files \union {path}
  /\ section' = <<>>
  /\ pc' = "count"
  /\ UNCHANGED <<indexVars, path, mapping, builds, outcome, seed, counts, windowVars>>

PostingCounts == [t \in Terms |-> Len(Postings(corpus, t))]

(* for_each_clustered_window up to its loop: the seed is resolved once, the *)
(* counting pass meets every term, and the term space is cut in one of the  *)
(* given ways.                                                              *)
CountAndCut(given) ==
  /\ pc = "count"
  /\ IF Covered(corpus)
       THEN /\ \E s \in Seeds : seed' = s
            /\ counts' = PostingCounts
            /\ ends' \in given
            /\ begin' = 0
            /\ pc' = "stage"
            /\ UNCHANGED <<indexVars, spillVars, builds, outcome, doc, ids,
                           clustered, section>>
       ELSE Throw

CountPostings == CountAndCut(Cuts)

(* WindowLists' constructor. *)
OpenWindow ==
  /\ pc = "stage"
  /\ ids' = [t \in Window |-> <<>>]
  /\ doc' = 1
  /\ pc' = "fill"
  /\ UNCHANGED <<indexVars, spillVars, builds, outcome, seed, counts, ends,
                 begin, clustered, section>>

(* One row of fill_from_corpus; add() refuses more ids than were counted.   *)
FillRow ==
  /\ pc = "fill"
  /\ doc <= Len(corpus)
  /\ IF \E t \in Window \cap corpus[doc] : Len(ids[t]) >= counts[t]
       THEN Throw
       ELSE /\ ids' = [t \in Window |-> IF t \in corpus[doc]
                                        THEN Append(ids[t], doc) ELSE ids[t]]
            /\ doc' = doc + 1
            /\ UNCHANGED <<indexVars, spillVars, builds, outcome, pc, seed, counts,
                           ends, begin, clustered, section>>

SealWindow ==
  /\ pc = "fill"
  /\ doc > Len(corpus)
  /\ clustered' = <<>>
  /\ pc' = "cluster"
  /\ UNCHANGED <<indexVars, spillVars, builds, outcome, seed, counts, ends, begin,
                 doc, ids, section>>

(* Mutated: the list's seed is offset by its place in the window. *)
SeedOfLocal(t) == seed + (t - begin)

SeedOf(t) == seed + t

(* One iteration of cluster_window's parallel loop, by whichever thread     *)
(* took it: reads its own postings, writes its own slot.                    *)
ClusterList(t) ==
  /\ pc = "cluster"
  /\ t \in Window \ DOMAIN clustered
  /\ clustered' = [u \in DOMAIN clustered \union {t} |->
                     IF u = t THEN ListOf(ids[t], SeedOf(t), Len(corpus)) ELSE clustered[u]]
  /\ UNCHANGED <<indexVars, spillVars, builds, outcome, pc, seed, counts, ends,
                 begin, doc, ids, section>>

LoopDone ==
  /\ pc = "cluster"
  /\ DOMAIN clustered = Window
  /\ pc' = "sink"
  /\ UNCHANGED <<indexVars, spillVars, builds, outcome, buildVars>>

(* The window's lists in term order. *)
WindowSection == [i \in 1 .. End - begin |-> clustered[begin + i - 1]]

(* The sink: moves the window's lists to their terms' places, or appends    *)
(* them to the file, whose lists are found by position alone.               *)
Sink ==
  /\ pc = "sink"
  /\ IF Spilling /\ begin # Len(section)
       THEN Throw
       ELSE /\ section' = IF Spilling
                           THEN section \o WindowSection
                           ELSE [i \in 1 .. Dim |-> IF i - 1 \in Window
                                                     THEN clustered[i - 1]
                                                     ELSE section[i]]
            /\ begin' = End
            /\ ends' = ends \ {End}
            /\ pc' = IF ends' # {} THEN "stage" ELSE IF Spilling THEN "map" ELSE "assign"
            /\ UNCHANGED <<indexVars, spillVars, builds, outcome, seed, counts, doc,
                           ids, clustered>>

(* The section is complete, closed and mapped; what was mapped before no    *)
(* longer is, though the lists of the last build still borrow from it.      *)
MapSpill ==
  /\ pc = "map"
  /\ IF Len(section) # Dim
       THEN Throw
       ELSE /\ mapping' = path
            /\ pc' = "unlink"
            /\ UNCHANGED <<indexVars, path, files, builds, outcome, buildVars>>

(* Removed while mapped where the platform allows it, else still owed.      *)
Unlink ==
  /\ pc = "unlink"
  /\ IF unlinks
       THEN path' = None /\ files' = files \ {path}
       ELSE UNCHANGED <<path, files>>
  /\ pc' = "assign"
  /\ UNCHANGED <<indexVars, mapping, builds, outcome, buildVars>>

(* build() returns: the lists retained, or parsed back in place from the    *)
(* mapping, replace the index's.                                            *)
Assign ==
  /\ pc = "assign"
  /\ lists' = section
  /\ home' = IF Spilling THEN mapping ELSE Heap
  /\ outcome' = "ok"
  /\ pc' = "idle"
  /\ UNCHANGED <<batchSize, unlinks, corpus, spillVars, builds, buildVars>>

(* The destructor: the derived class's lists, then the base's spill with    *)
(* the mapping in it.                                                       *)
DestroyLists ==
  /\ pc = "idle"
  /\ lists' = Unbuilt
  /\ pc' = "destroy"
  /\ UNCHANGED <<batchSize, unlinks, corpus, home, spillVars, builds, outcome,
                 buildVars>>

DestroySpill ==
  /\ pc = "destroy"
  /\ path' = None /\ mapping' = None /\ files' = files \ {path}
  /\ pc' = "gone"
  /\ UNCHANGED <<indexVars, builds, outcome, buildVars>>

Gone == pc = "gone" /\ UNCHANGED vars

Next ==
  \/ Add \/ BuildWhole \/ BuildRefused \/ BuildSpilling
  \/ SpillFails \/ CreateSpill
  \/ CountPostings \/ OpenWindow \/ FillRow \/ SealWindow
  \/ \E t \in Terms : ClusterList(t)
  \/ LoopDone \/ Sink \/ MapSpill \/ Unlink \/ Assign
  \/ DestroyLists \/ DestroySpill \/ Gone

Spec == Init /\ [][Next]_vars
-----------------------------------------------------------------------------
List == [docs : Seq(Nat), seed : Nat, size : Nat]

(* Lists an index of c may have built: those of c, or of what c was before  *)
(* its last rows were added.                                                *)
BuiltFrom(c, built) ==
  \E n \in 0 .. Len(c), s \in Seeds : built = WholeBuild(SubSeq(c, 1, n), s)

(* The types of an index, its spill and its build: places and terms are in  *)
(* range, and the lists in place are those of rows the index has, each with *)
(* the seed of its term (seismic_batched_build.cpp:60-132,                  *)
(* seismic_common.cpp:166-228).                                             *)
TypeOK ==
  /\ batchSize \in BatchSizes
  /\ unlinks \in BOOLEAN
  /\ corpus \in Seq(Rows)
  /\ lists = Unbuilt \/ BuiltFrom(corpus, lists)
  /\ home \in {Heap} \union 1 .. builds
  /\ path \in 0 .. builds
  /\ mapping \in 0 .. builds
  /\ files \subseteq 1 .. builds
  /\ builds \in Nat
  /\ outcome \in {"ok", "threw"}
  /\ pc \in {"idle", "create", "count", "stage", "fill", "cluster", "sink", "map",
             "unlink", "assign", "destroy", "gone"}
  /\ seed \in Nat
  /\ counts \in {<<>>} \union [Terms -> Nat]
  /\ ends \subseteq 1 .. Dim
  /\ begin \in 0 .. Dim
  /\ doc \in Nat \ {0}
  /\ DOMAIN ids \subseteq Terms
  /\ DOMAIN clustered \subseteq Terms
  /\ section \in Seq(List)

(* "The file is owned from the moment it is created, so a throw anywhere    *)
(* ... takes the partial spill with it" (seismic_batched_build.h:56-58):    *)
(* at every step, throws and destruction included, the only spill in the    *)
(* scratch directory is the one path_ still owes the removal of, and an     *)
(* index that is gone leaves none.                                          *)
NothingStranded ==
  /\ files \subseteq {path}
  /\ pc = "gone" => files = {}

(* "Once mapped it is unlinked where the platform allows that while mapped, *)
(* which also covers a crash" (seismic_batched_build.h:58-59): where it     *)
(* does, a process that dies outside build() leaves nothing behind.         *)
CrashLeavesNothing ==
  unlinks /\ pc \in {"idle", "assign", "destroy", "gone"} => files = {}

Readable == home = Heap \/ home = mapping

(* What search reads between calls: lists whose memory is still there,      *)
(* unless the last build that reached the corpus threw.                     *)
ReadableUnlessThrew ==
  pc = "idle" /\ lists # Unbuilt /\ outcome = "ok" => Readable

(* "Owns both, so an index that holds one keeps its lists valid"            *)
(* (seismic_batched_build.h:28-29): whatever calls were made, the lists an  *)
(* index has can be read.                                                   *)
KeepsListsValid ==
  pc = "idle" /\ lists # Unbuilt => Readable

(* The checks that guard against a corpus that changed, a window out of     *)
(* order and a short section never fire.                                    *)
ChecksNeverFire ==
  /\ pc = "fill" /\ doc <= Len(corpus) =>
       \A t \in Window \cap corpus[doc] : Len(ids[t]) < counts[t]
  /\ pc = "sink" /\ Spilling => begin = Len(section)
  /\ pc = "map" => Len(section) = Dim

(* The windows, the spill, the threads and the failures are invisible: the  *)
(* build is the whole-corpus build of SeismicBuild, in one step.            *)
Whole == INSTANCE SeismicBuild WITH corpus <- corpus, lists <- lists
ImplementsWholeBuild == Whole!Spec
=============================================================================
