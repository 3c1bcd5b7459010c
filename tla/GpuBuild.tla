------------------------------ MODULE GpuBuild ------------------------------
(***************************************************************************)
(* Clustering posting lists with a GPU (nsparse/gpu/): the threads of a    *)
(* build share one copy of the corpus on the device, keep scratch buffers  *)
(* of their own from list to list and build to build, and fall back to the *)
(* CPU whenever the device declines or fails.                              *)
(*                                                                         *)
(* One build runs at a time, as ensure_resident assumes.  What a kernel    *)
(* does is private to its thread's stream, so that a call is cut at what   *)
(* it shares with others (the resident corpus), at what it keeps (its      *)
(* buffers) and, in the max-pool, at every posting.  Device calls may fail *)
(* wherever Mishaps says, MaxMishaps times in a behaviour.                 *)
(***************************************************************************)
EXTENDS Clustering

CONSTANTS
  Threads,
  Addresses,    \* where a SparseVectors may lie
  Corpora,      \* a set of [rows, element_size]
  Dim,          \* terms are 0 .. Dim - 1
  IndexMax,     \* INT32_MAX, for the CSR offsets on the device
  Param,        \* [lambda, beta, alpha] of every build
  Mishaps,      \* what may fail, of PossibleMishaps
  MaxMishaps,
  MaxBuilds     \* bounds the number of builds

PossibleMishaps ==
  {"upload",    \* ensure_resident
   "context",   \* the first use of a thread's context
   "alloc",     \* cudaMalloc of a buffer that is still empty
   "regrow",    \* cudaMalloc of one that was freed to grow, or of seen after acc
                \* grew, or clearing the two
   "launch",    \* a kernel, a copy or a synchronization
   "reuse"}     \* a corpus of the shape of the resident one, at its address

ASSUME DimAssumption == Dim \in Nat \ {0}
ASSUME AddressesAssumption == "nobody" \notin Addresses
ASSUME MishapsAssumption == Mishaps \subseteq PossibleMishaps
ASSUME BoundsAssumption == MaxMishaps \in Nat /\ MaxBuilds \in Nat /\ IndexMax \in Nat

U8  == 1
U16 == 2
U32 == 4

ASSUME CorporaAssumption ==
  \A c \in Corpora :
    /\ c.element_size \in {U8, U16, U32}
    /\ Len(c.rows) \in Nat /\ DOMAIN c.rows = 1 .. Len(c.rows)
    /\ \A i \in DOMAIN c.rows :
         DOMAIN c.rows[i] \subseteq 0 .. Dim - 1 /\ c.rows[i] \in [DOMAIN c.rows[i] -> Nat]
(* A beta of 0, which asks for the square root, is left out: Slots has the  *)
(* clusters of the longest list there may be.                               *)
ASSUME ParamAssumption == Param.lambda \in Nat /\ Param.beta \in Nat \ {0}

VARIABLES
  vectors,   \* the corpus being built from: [at, rows, element_size]
  resident,  \* GpuCorpus: what is on the device, and its owner
  device,    \* a thread's buffers: [cap, dangling, acc, seen]
  job,       \* what a thread does
  todo,      \* the terms whose lists no thread has taken
  lists,     \* the clusters of each list, <<>> at first
  opted_in,  \* NSPARSE_GPU_SUMMARIZE
  mishaps, builds

vars == <<vectors, resident, device, job, todo, lists, opted_in, mishaps, builds>>

Terms     == 0 .. Dim - 1
Offloaded == {U32, U8}

Nnz(rows) == SumOf([i \in DOMAIN rows |-> Cardinality(DOMAIN rows[i])])
NnzOf(rows, docs) == SumOf([i \in DOMAIN docs |-> Cardinality(DOMAIN Row(rows, docs[i]))])

(* The bytes a list of n documents and k clusters asks of each buffer of    *)
(* the assigner; cuSPARSE names the size of its own, taken to be 1.         *)
AssignBuffers(es) ==
  IF es = U32
    THEN <<"docs", "centroids", "best", "a_row_ptr", "a_col", "b", "a_val", "c", "spmm">>
    ELSE <<"docs", "centroids", "best", "a_row_ptr", "a_col", "b", "c">>

AssignNeed(rows, es, docs, k) ==
  LET n == Len(docs)
  IN  [docs |-> 4 * n, centroids |-> 4 * k, best |-> 4 * n, a_row_ptr |-> 4 * (n + 1),
       a_col |-> 4 * NnzOf(rows, docs), b |-> Dim * k * es,
       a_val |-> 4 * NnzOf(rows, docs),
       c |-> n * k * (IF es = U32 THEN 4 ELSE 8), spmm |-> 1]

(* And of the summarizer: those it takes to be zero, and the others. *)
ScratchBuffers == <<"acc", "seen">>

ListBuffers == <<"s_docs", "offsets", "out_base", "out_term", "out_val", "out_count", "out_sum">>

SumBuffers == Range(ScratchBuffers) \union Range(ListBuffers)

SumNeed(rows, docs, k) ==
  LET n == Len(docs)
  IN  [acc |-> 4 * k * Dim, seen |-> 4 * k * Dim, s_docs |-> 4 * n, offsets |-> 4 * (k + 1),
       out_base |-> 4 * (k + 1), out_term |-> 4 * NnzOf(rows, docs),
       out_val |-> 4 * NnzOf(rows, docs), out_count |-> 4 * k, out_sum |-> 4 * k]

Buffers == Range(AssignBuffers(U32)) \union SumBuffers
Slots   == (1 .. Param.beta) \X Terms

NoCorpus == [owner |-> "nobody", rows |-> <<>>, element_size |-> 0]
Untouched == [cap |-> [b \in Buffers |-> 0], dangling |-> {},
              acc |-> [s \in Slots |-> 0], seen |-> [s \in Slots |-> 0]]
Idle == [pc |-> "idle"]

NonEmpty(v) == {t \in Terms : PostingsOf(v.rows, t) # <<>>}

Init ==
  /\ vectors \in {[at |-> a, rows |-> c.rows, element_size |-> c.element_size] :
                    a \in Addresses, c \in Corpora}
  /\ resident = NoCorpus
  /\ device = [th \in Threads |-> Untouched]
  /\ job = [th \in Threads |-> Idle]
  /\ todo = NonEmpty(vectors)
  /\ lists = [t \in Terms |-> <<>>]
  /\ opted_in \in BOOLEAN
  /\ mishaps = 0
  /\ builds = 1

May(m) == m \in Mishaps /\ mishaps < MaxMishaps

-----------------------------------------------------------------------------
(* The resident corpus. *)

Shape(r) == <<Len(r.rows), Nnz(r.rows), r.element_size>>

(* Mutated: the width of the codes is not part of the key. *)
MatchesAnyWidth(r, v) == r.owner = v.at /\ SubSeq(Shape(r), 1, 2) = SubSeq(Shape(v), 1, 2)

(* Mutated: the address alone is compared. *)
MatchesAddress(r, v) == r.owner = v.at

(* DeviceCorpus::matches; the dimension is that of every corpus here. *)
Matches(r, v) == r.owner = v.at /\ Shape(r) = Shape(v)

Upload(v) == [owner |-> v.at, rows |-> v.rows, element_size |-> v.element_size]

(* ensure_resident, under its mutex: what it may leave on the device, and   *)
(* whether it returns.  One that throws half-way has no owner.              *)
EnsureResident ==
  IF Nnz(vectors.rows) > IndexMax
    THEN {[ok |-> FALSE, resident |-> resident, mishap |-> 0]}
  ELSE IF Matches(resident, vectors)
    THEN {[ok |-> TRUE, resident |-> resident, mishap |-> 0]}
  ELSE {[ok |-> TRUE, resident |-> Upload(vectors), mishap |-> 0]}
         \union {[ok |-> FALSE, resident |-> NoCorpus, mishap |-> 1] : m \in {m \in {"upload"} : May(m)}}

-----------------------------------------------------------------------------
(* Buffers that only grow. *)

Short(d, need, b) == d.cap[b] < need[b]

(* ensure_capacity of the buffers S. *)
EnsureCapacity(d, need, S) ==
  [d EXCEPT !.cap = [b \in Buffers |-> IF b \in S /\ Short(d, need, b) THEN need[b] ELSE @[b]],
            !.dangling = {b \in @ : ~(b \in S /\ Short(d, need, b))}]

(* Mutated: a buffer that never was is lost, too. *)
CapacityFailedAnyway(d, b) == [d EXCEPT !.dangling = @ \union {b}]

(* One that throws has freed the buffer and kept its pointer and capacity. *)
CapacityFailed(d, b) ==
  IF d.cap[b] = 0 THEN d ELSE [d EXCEPT !.dangling = @ \union {b}]

(* ensure_capacity of the buffers of order, one after the other. *)
Growths(d, need, order) ==
  {[ok |-> TRUE, device |-> EnsureCapacity(d, need, Range(order))]}
    \union {[ok |-> FALSE, device |-> d] : m \in {m \in {"context"} : May(m)}}
    \union {[ok |-> FALSE,
             device |-> CapacityFailed(EnsureCapacity(d, need, {order[n] : n \in 1 .. i - 1}),
                                       order[i])] :
              i \in {i \in DOMAIN order :
                       /\ Short(d, need, order[i])
                       /\ May(IF d.cap[order[i]] = 0 /\ order[i] # "seen" THEN "alloc"
                                                                          ELSE "regrow")}}

-----------------------------------------------------------------------------
(* A list is taken, dealt out to its centroids, and summarized. *)

(* summarize_: the max-pool is on the device where it is asked for. *)
Pooling(j, clusters) ==
  [j EXCEPT !.clusters = clusters,
            !.pc = IF opted_in /\ vectors.element_size \in Offloaded THEN "pool_resident"
                                                                    ELSE "pool_cpu"]

AssignOnCpu(j) == Pooling(j, Assigned(vectors.rows, j.docs, j.heads))

NewJob(t, kept, heads) ==
  [pc |-> "assign_resident", term |-> t, docs |-> kept, heads |-> heads,
   clusters |-> <<>>, read |-> <<>>, out |-> <<>>]

(* RandomKMeans::train, map_docs_to_clusters: 16-bit codes and single       *)
(* clusters stay on the CPU.                                                *)
TakeList(th, t) ==
  /\ job[th] = Idle
  /\ t \in todo
  /\ \E kept \in Kept(vectors.rows, t, Param.lambda) :
       \E heads \in Arrangements(Range(kept), NClusters(Param.beta, Len(kept))) :
         LET j == NewJob(t, kept, heads)
         IN  job' = [job EXCEPT ![th] =
                       IF vectors.element_size \in Offloaded /\ Len(heads) >= 2
                         THEN j ELSE AssignOnCpu(j)]
  /\ todo' = todo \ {t}
  /\ UNCHANGED <<vectors, resident, device, lists, opted_in, mishaps, builds>>

AssignResident(th) ==
  /\ job[th].pc = "assign_resident"
  /\ \E o \in EnsureResident :
       /\ resident' = o.resident
       /\ job' = [job EXCEPT ![th] = IF o.ok THEN [@ EXCEPT !.pc = "assign_grow"]
                                             ELSE AssignOnCpu(@)]
       /\ mishaps' = mishaps + o.mishap
  /\ UNCHANGED <<vectors, device, lists, todo, opted_in, builds>>

AssignGrow(th) ==
  LET j == job[th]
  IN  /\ j.pc = "assign_grow"
      /\ \E o \in Growths(device[th], AssignNeed(vectors.rows, resident.element_size, j.docs, Len(j.heads)),
                           AssignBuffers(resident.element_size)) :
           /\ device' = [device EXCEPT ![th] = o.device]
           /\ job' = [job EXCEPT ![th] = IF o.ok THEN [j EXCEPT !.pc = "assign_run"]
                                                 ELSE AssignOnCpu(j)]
           /\ mishaps' = IF o.ok THEN mishaps ELSE mishaps + 1
      /\ UNCHANGED <<vectors, resident, lists, todo, opted_in, builds>>

(* scatter_dense_kernel, over zeroes: the centroids as columns. *)
scatter_dense(rows, heads) ==
  [x \in Terms \X DOMAIN heads |->
     IF x[1] \in DOMAIN Row(rows, heads[x[2]]) THEN Row(rows, heads[x[2]])[x[1]] ELSE 0]

(* gather_csr_kernel and cuSPARSE, or assign_u8_spmm_kernel: a document's   *)
(* row of scores.                                                           *)
spmm(rows, d, b, k) ==
  [i \in 1 .. k |-> SumOf([t \in DOMAIN Row(rows, d) |-> Row(rows, d)[t] * b[<<t, i>>]])]

Greatest(scores) == {i \in DOMAIN scores : \A j \in DOMAIN scores : scores[j] <= scores[i]}

(* Mutated: the last of equal scores. *)
row_argmax_last(scores) == Max(Greatest(scores))

row_argmax(scores) == Min(Greatest(scores))

(* What is copied back: anything, when a buffer is no longer the thread's. *)
BestClusters(j, d) ==
  LET k == Len(j.heads)
      b == scatter_dense(resident.rows, j.heads)
  IN  IF d.dangling \intersect Range(AssignBuffers(resident.element_size)) # {}
        THEN [DOMAIN j.docs -> 1 .. k]
        ELSE {[i \in DOMAIN j.docs |-> row_argmax(spmm(resident.rows, j.docs[i], b, k))]}

(* Mutated: the centroids are dealt out like any document. *)
AppendedAll(j, best) ==
  [c \in DOMAIN j.heads |->
     <<j.heads[c]>> \o Picked(j.docs, {i \in DOMAIN j.docs : best[i] = c})]

(* The end of assign: nothing is appended before everything is known. *)
Appended(j, best) ==
  [c \in DOMAIN j.heads |->
     <<j.heads[c]>> \o
     Picked(j.docs, {i \in DOMAIN j.docs : best[i] = c /\ j.docs[i] \notin Range(j.heads)})]

AssignRun(th) ==
  LET j == job[th]
  IN  /\ j.pc = "assign_run"
      /\ \/ /\ \E best \in BestClusters(j, device[th]) :
                job' = [job EXCEPT ![th] = Pooling(j, Appended(j, best))]
            /\ mishaps' = mishaps
         \/ /\ May("launch")
            /\ job' = [job EXCEPT ![th] = AssignOnCpu(j)]
            /\ mishaps' = mishaps + 1
      /\ UNCHANGED <<vectors, resident, device, lists, todo, opted_in, builds>>

-----------------------------------------------------------------------------
(* The max-pool. *)

Filled(x) == [s \in Slots |-> x]

Holding(o, a, s) == [o EXCEPT !.device.acc = a, !.device.seen = s]

(* Memory just allocated holds what it held before. *)
Unset(d, o) ==
  LET kept(b, old) == IF o.device.cap[b] # d.cap[b] THEN {Filled(0), Filled(1)} ELSE {old}
  IN  {Holding(o, a, s) : a \in kept("acc", d.acc), s \in kept("seen", d.seen)}

(* acc and seen are cleared when acc grew, and only then; that may fail.    *)
Cleared(d, need, o) ==
  IF o.ok /\ Short(d, need, "acc")
    THEN {Holding(o, Filled(0), Filled(0))}
           \union {[u EXCEPT !.ok = FALSE] : u \in {u \in Unset(d, o) : May("regrow")}}
    ELSE Unset(d, o)

ScratchGrowths(d, need) == UNION {Cleared(d, need, o) : o \in Growths(d, need, ScratchBuffers)}

SumGrowths(d, need) ==
  UNION {IF o.ok THEN Growths(o.device, need, ListBuffers) ELSE {o} :
           o \in ScratchGrowths(d, need)}

PoolResident(th) ==
  /\ job[th].pc = "pool_resident"
  /\ \E o \in EnsureResident :
       /\ resident' = o.resident
       /\ job' = [job EXCEPT ![th].pc = IF o.ok THEN "pool_grow" ELSE "pool_cpu"]
       /\ mishaps' = mishaps + o.mishap
  /\ UNCHANGED <<vectors, device, lists, todo, opted_in, builds>>

Torn(d) == d.dangling \intersect SumBuffers # {}

(* summarize_list_impl declines to grow acc and seen when memory is short,  *)
(* which may be at any time: the device is shared.  A kernel with a buffer  *)
(* that is gone is taken to fault.                                          *)
PoolGrow(th) ==
  LET j    == job[th]
      need == SumNeed(vectors.rows, j.docs, Len(j.clusters))
      run  == [j EXCEPT !.pc = "pool_run",
                        !.read = [c \in DOMAIN j.clusters |-> [i \in DOMAIN j.clusters[c] |-> 0]],
                        !.out = [c \in DOMAIN j.clusters |-> <<>>]]
  IN  /\ j.pc = "pool_grow"
      /\ \/ /\ Short(device[th], need, "acc")
            /\ job' = [job EXCEPT ![th].pc = "pool_cpu"]
            /\ UNCHANGED <<device, mishaps>>
         \/ \E o \in SumGrowths(device[th], need) :
              /\ device' = [device EXCEPT ![th] = o.device]
              /\ job' = [job EXCEPT ![th] = IF o.ok /\ ~Torn(o.device) THEN run
                                                 ELSE [j EXCEPT !.pc = "pool_cpu"]]
              /\ mishaps' = IF o.ok THEN mishaps ELSE mishaps + 1
      /\ UNCHANGED <<vectors, resident, lists, todo, opted_in, builds>>

TermsOf(rows, d) == Ascending(DOMAIN Row(rows, d))

AllRead(j) == \A c \in DOMAIN j.clusters : \A i \in DOMAIN j.clusters[c] :
                j.read[c][i] = Len(TermsOf(resident.rows, j.clusters[c][i]))

(* Mutated: a term is appended whenever it raises the maximum. *)
NewTermIfGreater(d, slot, w) == w > d.acc[slot]

(* atomicCAS of seen. *)
NewTerm(d, slot, w) == d.seen[slot] = 0

(* summarize_list_kernel: the threads of a block each take documents of its *)
(* cluster, and their postings in order.                                    *)
PoolPosting(th, c, i) ==
  LET j == job[th]
      d == device[th]
  IN  /\ j.pc = "pool_run"
      /\ c \in DOMAIN j.clusters /\ i \in DOMAIN j.clusters[c]
      /\ LET doc  == j.clusters[c][i]
             ts   == TermsOf(resident.rows, doc)
             t    == ts[j.read[c][i] + 1]
             slot == <<c, t>>
             w    == Row(resident.rows, doc)[t]
         IN  /\ j.read[c][i] < Len(ts)
             /\ device' = [device EXCEPT ![th].acc[slot] = Max({@, w}), ![th].seen[slot] = 1]
             /\ job' = [job EXCEPT ![th].read[c][i] = @ + 1,
                                   ![th].out[c] = IF NewTerm(d, slot, w) THEN Append(@, t) ELSE @]
      /\ UNCHANGED <<vectors, resident, lists, todo, opted_in, mishaps, builds>>

(* Mutated: seen is not reset with acc. *)
ResetAccOnly(d, touched) ==
  [d EXCEPT !.acc = [s \in Slots |-> IF s \in touched THEN 0 ELSE @[s]]]

(* The slots of the terms appended. *)
Reset(d, touched) ==
  [d EXCEPT !.acc = [s \in Slots |-> IF s \in touched THEN 0 ELSE @[s]],
            !.seen = [s \in Slots |-> IF s \in touched THEN 0 ELSE @[s]]]

Done(th, summaries) ==
  /\ job' = [job EXCEPT ![th] = Idle]
  /\ \E s \in Summarized(job[th].clusters, summaries) : lists' = [lists EXCEPT ![job[th].term] = s]

(* The second half of the kernel, the copy back, and the cut on the CPU. *)
PoolCollect(th) ==
  LET j       == job[th]
      d       == device[th]
      touched == {s \in Slots : s[1] \in DOMAIN j.out /\ s[2] \in Range(j.out[s[1]])}
      pool(c) == [t \in Range(j.out[c]) |-> d.acc[<<c, t>>]]
      sum(c)  == SumOf([n \in DOMAIN j.out[c] |-> d.acc[<<c, j.out[c][n]>>]])
  IN  /\ j.pc = "pool_run" /\ AllRead(j)
      /\ device' = [device EXCEPT ![th] = Reset(d, touched)]
      /\ \/ /\ Done(th, [c \in DOMAIN j.clusters |-> Emitted(pool(c), sum(c), Param.alpha)])
            /\ mishaps' = mishaps
         \/ /\ May("launch")
            /\ job' = [job EXCEPT ![th].pc = "pool_cpu"]
            /\ mishaps' = mishaps + 1
            /\ UNCHANGED lists
      /\ UNCHANGED <<vectors, resident, todo, opted_in, builds>>

(* Nothing has run. *)
PoolFails(th) ==
  /\ job[th].pc = "pool_run"
  /\ \A c \in DOMAIN job[th].read : \A i \in DOMAIN job[th].read[c] : job[th].read[c][i] = 0
  /\ May("launch")
  /\ mishaps' = mishaps + 1
  /\ job' = [job EXCEPT ![th].pc = "pool_cpu"]
  /\ UNCHANGED <<vectors, resident, device, lists, todo, opted_in, builds>>

PoolCpu(th) ==
  LET j == job[th]
  IN  /\ j.pc = "pool_cpu"
      /\ Done(th, [c \in DOMAIN j.clusters |-> Summaries(vectors.rows, j.clusters[c], Param.alpha)])
      /\ UNCHANGED <<vectors, resident, device, todo, opted_in, mishaps, builds>>

(* The next build of the process; its worker threads are the same ones. *)
NextBuild ==
  /\ builds < MaxBuilds
  /\ todo = {} /\ \A th \in Threads : job[th] = Idle
  /\ vectors' \in {[at |-> a, rows |-> c.rows, element_size |-> c.element_size] :
                     a \in Addresses, c \in Corpora}
  /\ \/ resident.owner # vectors'.at \/ Shape(resident) # Shape(vectors')
     \/ resident.rows = vectors'.rows \/ "reuse" \in Mishaps
  /\ todo' = NonEmpty(vectors')
  /\ lists' = [t \in Terms |-> <<>>]
  /\ builds' = builds + 1
  /\ UNCHANGED <<resident, device, job, opted_in, mishaps>>

Work(th) ==
  \/ \E t \in Terms : TakeList(th, t)
  \/ AssignResident(th) \/ AssignGrow(th) \/ AssignRun(th)
  \/ PoolResident(th) \/ PoolGrow(th) \/ PoolCollect(th) \/ PoolFails(th) \/ PoolCpu(th)
  \/ \E c \in 1 .. Param.beta : \E i \in 1 .. Len(vectors.rows) : PoolPosting(th, c, i)

Next == NextBuild \/ \E th \in Threads : Work(th)

Spec == Init /\ [][Next]_vars

-----------------------------------------------------------------------------

Built(t) == lists[t] # <<>>

(* Every document that pruning keeps of a list is in one of its clusters,   *)
(* once, and no other is, whatever failed after how much was done: nothing  *)
(* is appended before everything is known (gpu_cluster_assigner.cu:333-411, *)
(* kmeans_utils.cpp:162-199).                                               *)
DealtOnce ==
  \A t \in Terms : Built(t) =>
    LET docs(c) == lists[t][c].docs
    IN  /\ \A c \in DOMAIN lists[t] : IsInjective(docs(c))
        /\ \A b, c \in DOMAIN lists[t] : b # c => Range(docs(b)) \intersect Range(docs(c)) = {}
        /\ \E kept \in Kept(vectors.rows, t, Param.lambda) :
             UNION {Range(docs(c)) : c \in DOMAIN lists[t]} = Range(kept)

(* What is on the device is somebody's or nobody's; a buffer that is lost   *)
(* had a capacity, and says that it still has (gpu_common.cuh:47-57); and   *)
(* no list is left with a document lost or doubled by a fallback.           *)
TypeOK ==
  /\ resident = NoCorpus \/ resident.owner \in Addresses
  /\ DOMAIN job = Threads /\ DOMAIN lists = Terms
  /\ \A th \in Threads :
       /\ device[th].cap \in [Buffers -> Nat]
       /\ \A b \in device[th].dangling : device[th].cap[b] > 0
       /\ DOMAIN device[th].acc = Slots /\ DOMAIN device[th].seen = Slots
  /\ DealtOnce

(* Where a list was clustered, what its thread did before, what was on the  *)
(* device and what failed cannot be told from the result: it is a           *)
(* clustering the CPU alone may produce of the corpus being built from.     *)
MatchesTheCpu ==
  \A t \in Terms : Built(t) => lists[t] \in Clusterings(vectors.rows, t, Param)

(* The scratch of the max-pool is clean whenever no kernel is using it. *)
ScratchClean ==
  \A th \in Threads : job[th].pc # "pool_run" =>
    \A s \in Slots : device[th].acc[s] = 0 /\ device[th].seen[s] = 0
=============================================================================
