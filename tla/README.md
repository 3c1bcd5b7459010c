# A verification project for neural-sparse-cpp

This directory holds TLA+ models of neural-sparse-cpp, the configurations that
check them with TLC, and theorems about them proved with TLAPS. `PROJECT.json`
says, definition by definition, which lines of `src/` each one stands for, which
configuration checks which property, and which hazard of the code each property
is there to catch.

## The system

neural-sparse-cpp is a library of indexes for sparse vectors: a document is a
row of (term, weight) pairs, a query another, and search returns the `k`
documents of greatest inner product. All of `src/nsparse` is one process's
library; its concurrency is the OpenMP loops inside a call, and its failures are
exceptions, files that cannot be read or written, and the process dying.

| Component | Where | State it keeps | Operations |
|---|---|---|---|
| Index façade | `index.cpp` | dimension | `search` packs the result rows into the caller's `n*k` buffers; `read_csr` parses a CSR file and calls `add` |
| Ids | `id_map_index.cpp`, `id_selector.h` | the ids of the rows, both ways, over a delegate index | `add`, `add_with_ids`, `read_csr_and_ids`, `build`, `search`, save and load |
| Corpus | `sparse_vectors.cpp`, `utils/buf.h`, `utils/mmap_file.h`, `mmap_index.h` | CSR arrays, owned or borrowed from a mapping | `add_vectors`, `map_vectors`, copying and mapped load |
| Inverted index | `inverted_index.cpp`, `invlists/` | rows to add, posting lists, the greatest weight of each list | `add`, `build`, windowed MaxScore `search`, save and load |
| Brute force | `brutal_index.cpp`, `exact_matcher.h` | the corpus | exact scores of all, or of an enumerated selection |
| Top-k holders | `utils/ranker.h` | a bounded heap (one variant with the set of ids in it) | `add`, `full`, `peek`, drain |
| Seismic build | `seismic_common.cpp`, `seismic_batched_build.cpp` | clustered lists; the spill of a batched build | cut the terms into windows, fill, cluster in parallel, retain or spill, map back |
| Clustering | `cluster/` | clusters of a posting list, their summaries, the transpose of these | k-means, summarize, serialize |
| Seismic search | `seismic_index.cpp` | per-thread dense query and visited set | cluster-skipping `search` |
| Scalar quantized seismic | `seismic_scalar_quantized_index.cpp`, `utils/scalar_quantizer.h` | quantizer ranges, codes | encode, search on codes |
| Disk seismic | `disk_seismic_*.cpp` | summaries in memory, blocks and a document directory in the mapped file | build, write, mapped load, block `search` |
| Inline forward index | `inline_forward_index.h`, `io/inline_forward_index_io.cpp` | a section of blocks with a directory, in a file | `serialize`, `mmap_deserialize`, `block` |
| Index files | `io/index_io.cpp`, `io/file_io.cpp`, `io/buffered_io.cpp` | header, version, payload | save, copying load, mapped load |
| CSR conversion | `utils/csr_layout.cpp` | - | converts a CSR file to the native layout |
| GPU clustering | `gpu/`, `cluster/kmeans_utils.cpp` | the corpus on the device, shared by the threads; buffers of each thread | assign and summarize, with fallback to the CPU |
| Distance kernels | `utils/distance*.h` | none | dot products |
| Factory, bindings, demos, benchmarks | `index_factory.cpp`, `python/`, `demos/`, `benchmarks/` | none | construct and call the above |

How they interact: `IDMapIndex` owns a delegate and rewrites ids on both sides
of each of its calls. Every mapped index owns up to three mappings (the corpus,
the index file, the spill) that its corpus and lists *borrow* from: the pointers
are not counted, so an array is valid as long as nobody replaces the mapping.
Searches of a batch of queries run on OpenMP threads that share the index and
each keep scratch that outlives a query.

What is hard here, and what makes each part correct:

- **build**: the batch options must not be observable: any number of windows,
  threads and spills gives the lists of a whole-corpus build. A build that
  throws must leave neither a file behind nor the index with lists it cannot
  read.
- **exact search** (inverted, brute force): pruning and windowing never lose a
  result; no score is computed from another query's scratch.
- **ids**: a label returned is the id the caller gave to that row, through every
  sequence of adds, builds, saves and loads.
- **mappings**: nothing is read through a mapping that was replaced.
- **files**: a load yields what was saved, or an error.
- **codes**: a decoded score is the score of the caller's weights give or take
  their rounding, whatever ranges and instruction sets are in use.
- **device**: a list clustered with a GPU, however its calls fail, is one the CPU
  may have made.

## Modules

| Module | Models | Kind |
|---|---|---|
| `TermWindows` | `make_windows`, one action per loop iteration | component |
| `ClusteredLists` | the clustered lists as values | shared operators |
| `SeismicBuild` | what `build()` promises | abstract specification |
| `BatchedBuild` | `build()` with its windows, threads, spill and failures, and the index's destructor | component, refines `SeismicBuild` |
| `PlannedBuild` | `BatchedBuild` with `TermWindows` inside | composition |
| `PlannedBuildProofs` | theorems about `TermWindows`, `BatchedBuild` and `PlannedBuild` | proofs |
| `TopKHolder` | the bounded heap, as a bag: which item a full one gives up is any of the least | shared operators |
| `InvertedSearch` | `InvertedIndex::single_query`: MaxScore over windows of documents | component |
| `ExactSearch` | the inverted index and `BrutalIndex`, asked the same | composition |
| `InvertedSearchProofs` | theorems about `InvertedSearch` and `ExactSearch` | proofs |
| `Clustering` | pruning, k-means and summaries: the set of clusterings a list may get | shared operators |
| `TransposedSummaries` | the summaries as they are kept and scored: term by term | shared operators |
| `SeismicQuery` | the terms a query visits, and the scores it gives summaries | shared operators |
| `DistanceKernels` | the inner products of `utils/distance*.h`: lanes, gathers, tails | shared operators |
| `SeismicSearch` | `SeismicIndex::single_query`, with the exact fallback | component |
| `QuantizedSearch` | `SeismicScalarQuantizedIndex`: codes in, codes searched, scores decoded | component, refines `SeismicSearch` |
| `DiskSeismicSearch` | the block-budget search of the disk indexes, over floats or codes | component, extends `QuantizedSearch` |
| `SeismicSearchProofs` | theorems about these three | proofs |
| `GpuBuild` | `gpu/`: lists clustered by threads that share a device | component |
| `GpuBuildProofs` | theorems about `GpuBuild` | proofs |
| `IdMapIndex` | `IDMapIndex` over an inverted or a seismic index | component |
| `DiskSeismicIndex` | the life of a disk index: fill, build, save, load | component |
| `DiskSeismicIndexProofs` | theorems about `DiskSeismicIndex` and `InlineForward`, the index and the section it has its blocks in | proofs |
| `InlineForward` | the section of blocks on disk: offsets, lengths, validation | component |
| `IndexFile` | the file of each index type: written, cut short, read copying or mapped | component |
| `IndexFileProofs` | theorems about `IdMapIndex` and `IndexFile`, the ids and the file an index and its ids are saved in | proofs |
| `NativeCorpus` | a corpus copied, or converted and mapped: `csr_layout.cpp`, `read_csr`, `read_mcsr`, the arrays of `SparseVectors` | component |
| `NativeCorpusProofs` | theorems about `NativeCorpus` | proofs |
| `Numbers` | numbers in order, sums | shared operators |
| `DataTheorems` | what recursion, numbers in order, sums and a `TopKHolder` yield | lemmas |
| `MC...` | constants of the runs | model checking |

`BatchedBuild` takes the cut of the term space as any partition into the
requested number of windows; `TermWindows` proves that `make_windows` returns
one, and `PlannedBuild` runs the two as they run in the code. The searches share
`Clustering`, `TransposedSummaries`, `SeismicQuery`, `DistanceKernels` and
`TopKHolder`; `GpuBuild` is compared with `Clustering`. `DiskSeismicSearch` reads
a block's documents from the lists, and `DiskSeismicIndex` (`ScoresWhatItRanks`)
says that the mapped file holds the same. `IdMapIndex` holds as much of a
delegate as ids depend on.

### TermWindows

State: the locals of `make_windows` (`prefix`, `remaining`, `windows`, `begin`,
`end`, `load`, `target`) and its arguments. Actions: `Tally`/`TallyDone` (the
loop over the posting counts), `AimWindow` (the head of the outer loop: how
many windows are left, the target, the last term this window may reach),
`TakeTerm`, `CloseWindow` (push and subtract), `TakeRest` (the last window) and
`LoopExit`. The `size_t` variables are integers, so that a value below zero
shows (`NoUnderflow`). Inputs: every dimension up to 5, four posting counts per
term on both sides of `lambda`, two values of `lambda`, batch sizes 0 to 6; and
the counts of every corpus `PlannedBuild` builds from.

- `Partition`: what is returned is a partition of the terms into exactly the
  requested number of non-empty runs. The spilled section carries no term
  numbers, so a run lost or doubled would shift every list after it.
- `NoUnderflow`: no unsigned subtraction wraps.
- `Balanced`: a window of several terms was below the even share before its last
  term; the overshoot of one window is not passed on to the last.

### BatchedBuild, SeismicBuild, ClusteredLists

State: the corpus and the lists, what the lists' arrays live in (`home`), the
three things the spill consists of (`path_`, `mapping_` and the files of the
directory), and the locals of a build. Actions: `Add`; `BuildWhole`,
`BuildRefused`, `BuildSpilling` (the ways to enter a build); `CreateSpill`,
`CountPostings`, `OpenWindow`, `FillRow`, `SealWindow`, `ClusterList` (any list
of the window next: an OpenMP thread finished it), `Sink`, `MapSpill`, `Unlink`,
`Assign`; `SpillFails` at each step on the file, `Throw` for an exception of the
corpus; `DestroyLists` and `DestroySpill`, in the order the members are
destroyed. A clustering is a value `[docs, seed]`: equal if made from the same
documents with the same seed.

- `ImplementsWholeBuild`: mapped to `SeismicBuild` (`add`, `build` in one step,
  destroy), every step is a step or a stutter. Windows, threads, spill and
  failures cannot be seen.
- `NothingStranded`: what the scratch directory holds at each step, also where
  the platform cannot unlink a mapped file. (`CrashLeavesNothing`, where it can:
  proved, see *Proofs*.)
- `ReadableUnlessThrew`: the lists of an index are in memory it still owns,
  unless the last build threw. (`KeepsListsValid`, without the exception, is
  refuted where a mapped file can be unlinked, `UnlinkingSpec`; see *Findings*.)
- `TypeOK`: among the rest, the lists of an index are those of the build of the
  first so many of its rows, each term with its own seed (`BuiltFrom`).
- `ChecksNeverFire`: the three internal checks of the build never throw.

Bounds: three terms in one to three windows, two or three rows, three builds: a
failed build between two that succeed is the longest story the spill has.

### PlannedBuild

`BatchedBuild` and `TermWindows` in one: when a build has counted its postings it
calls `make_windows` with those counts (`CallMakeWindows`), waits while its loop
runs (`PlanStep`), and builds the windows it returned (`UsePlan`). All properties
of both are checked of the composition; `ChecksNeverFire`, in particular, that no
list is written to another term's place, then rests on nothing assumed. Beside
the builds, `make_windows` is called by itself (`alone`) over all its inputs.

### InvertedSearch

State: the thread-local score buffer and its bit set (`scores`, `bits`), the
scorers of the query sorted by bound with their positions, how many of them are
non-essential (`first`), the window, the heap. Actions: `StartQuery`,
`OpenWindow` (choose the partition and the window's base; or end),
`ScoreEssential`, `Evaluate` (the lowest bit set; with the pruning by the bound
of the terms before it), `WindowDone`, `Drain`. Equal bounds may be sorted in
any order, and a full heap may give up any of its least items. The buffer lives
on from one query to the next.

- `ExactTopK`: after a query the heap is a top k of the documents, with exact
  scores.
- `AgreesWithBruteForce` (of `ExactSearch`, see below).
- `ScratchClean`: the buffer is zero wherever no document waits.
- `MonotoneSearch` (action property): windows ascend, the threshold never falls,
  the partition never goes back.
- `QueryEnds` (liveness): under weak fairness of the steps of a running query -- a
  thread that runs a query is not suspended for ever; nobody waits for another --
  a query ends.

Bounds: every corpus of five rows over four kinds of rows, windows of two
documents (the code's 4096), k of 1 and 2, a query of nothing, of all terms, and
of a term outside the dimension, and one that names a term twice.

### ExactSearch

Once the inverted index has answered, `BrutalSearch` puts the same query to a
`BrutalIndex` of the same rows: a dense query, a scan of every document, the
deduplicating heap. `AgreesWithBruteForce`: both return the same scores, each as
often (documents of equal score may differ, and the inverted index leaves out
those that do not match). This is asked of queries that name each of their terms
once (`NamesTermsOnce`): of a term named twice the dense query keeps the last
weight and the inverted index adds up both (see *Findings*). `BrutalIndex` ignores the selector of a search and its
dense vector has no room for terms outside the dimension, so it is asked only
where neither comes up.

### SeismicSearch, Clustering, TransposedSummaries, SeismicQuery

`Clustering` gives the set of clusterings `build()` may make of a list: any
documents of equal weight at the pruning boundary, any centroids, any of equally
close clusters, any of equally heavy summary terms. `TransposedSummaries` turns
these summaries term by term, as `build_transpose` does, and scores them so. State of the search: the
thread's dense query and visited set, the lists still to visit, the clusters of
the list, the documents of the cluster, the heap. Actions: `BuildList`,
`StartQuery` (or the exact match, in one step: it touches nothing that is
shared), `OpenList`, `NextCluster` (with the two ways to pass over one:
`break` in the sorted first list, `continue` later), `ScanDoc`, `ListDone`,
`Finish`.

- `SoundResult`: distinct selected documents with exact scores, always; a part of
  `SoundAnswer`, below.
- `WithinFactor`: fewer than k results only if there are no more; with whole
  summaries, what is missed is what the heap factor allows.
- `LosslessIsExact`: with nothing pruned, an exact top k, whatever the clusters; a
  part of `LosslessIsNearlyExact`.
- `DenseClean`, that nothing of one query is left for the next, is proved.

### DistanceKernels

A score is what the kernel of the index's instruction set makes of a row and the
dense query: whole blocks of lanes, added up lane by lane, then the tail
(`Blocked`); the AVX-512 and SVE kernels gather 32-bit words from a vector of
narrower codes, and mask off what came with each (`LowElement`), which for the
last element is whatever lies past the vector (`Stray`). The run has one to three lanes
where the code has up to sixteen -- so that rows of three terms have a block and
a tail -- and an index for each of the five sets of kernels. Sums are exact. In
the code the vector kernels add codes up as floats, exact below 2^24, and the
scalar kernel of 8-bit codes as `int`.

### QuantizedSearch

State: the caller's weights (`weights`), the quantizer (`sq`), the question as it
was asked (`asked`); and all of `SeismicSearch`, whose corpus and calls are the
encoded ones. `EncodedCorpus` is `add`, `CallOf` the encoding of a query over the
index's range or the call's own; `decode_dot_product` is applied to what is
returned. The search between them is repeated in the code line by line over
codes, and repeats `SeismicSearch`'s actions here: that it *is* that search is a
theorem (`QuantizedImplementsSeismic`).

- `SoundAnswer`: `SoundResult` for the codes, and a decoded score is the score of
  the caller's weights, as far as their ranges reach, give or take the rounding
  of each weight of both sides (`RoundingError`).
- `LosslessIsNearlyExact`: with nothing pruned, the search is exact by codes; and
  no document is left out for one that is worse by more than both were rounded.

Both speak of ranges that start at 0: for another `vmin`, `decode_dot_product`
leaves out the terms the offset contributes ("approximate original scale"), and
a score says nothing of the weights. Four quantizers: none, two of 8 bits, one of
16 (whose greatest code is 1023, for TLC's integers); ranges that clamp weights,
and queries with a range of their own.

### DiskSeismicSearch

State: that of `QuantizedSearch`, the blocks collected, those within the budget,
those taken. Actions: `AskBudget`, `CollectList`, `SelectBlocks` (`nth_element`:
any of the blocks tied at the budget, in any order), `NextBlock`, `ScoreDoc`,
`FinishBudget`; building and the exact match are those of the index in memory
(`InMemory`). Whether an index is disk-resident is `param.disk`: one run checks
both kinds.

- `ExactWithinBudget`: the search takes as many blocks as the budget allows, and
  is an exact top k of the documents in them; a budget of all candidates makes it
  exact; a better document is missed only if each of its blocks ranks no higher
  than every block taken.
- `SoundAnswer` holds of it too; `DenseRestored` is proved.

Bounds of the run `seismic_search`: four documents over three terms in three
corpora, chosen so that documents are in several lists, lists have several
clusters, one document and one list are empty; five sets of parameters (in memory
and on disk, each with its own kernels and cluster parameters), of which every
weight type has one in memory that prunes nothing, one that cuts summaries and one
on disk; factors 1/2, 1, 2;
budgets below, at and above the candidates.

### GpuBuild

State: the corpus being built from, the corpus on the device with its owner
(`resident`), each thread's device buffers (`device`: the capacity of each,
those whose memory was freed, the contents of the two that are used again), what
each thread does (`job`), the lists still to cluster. Actions, per thread:
`TakeList` (pruned, centroids drawn; 16-bit codes and single clusters stay on
the CPU), `AssignResident`, `AssignGrow`, `AssignRun` (both assigners: scatter,
product, argmax, and the appending at the end), `PoolResident`, `PoolGrow`,
`PoolPosting` (one posting of one document: the threads of a block take their
documents in any interleaving, and `atomicCAS` decides who appends a term),
`PoolCollect` (sums, reset, copy back), `PoolFails`, `PoolCpu`; and `NextBuild`,
of another corpus, by the same threads with the buffers they have. `Mishaps`
says which device calls may fail: uploads, contexts, allocations, launches and
copies; the pool also declines when memory is short.

- `MatchesTheCpu`: every list is in `Clusterings`, the set of what the CPU may make
  of the corpus being built from ("produces identical output",
  `DEVELOPER_GUIDE.md`).
- `ScratchClean`: `acc` and `seen` are zero whenever no kernel uses them.
- `TypeOK`: among the rest, a buffer that is gone kept its capacity; and
  (`DealtOnce`) a list that was clustered has each of the documents that pruning
  keeps in one of its clusters, once, and no others, so that a fallback neither
  loses nor doubles any. (The run's lambda is 0, where pruning keeps all; proved
  for every lambda.)

What the passing run leaves out, each by name: `"regrow"`, an allocation that
fails after the buffer it replaces is gone (one of the *Findings*; also,
`ensure_capacity` keeps the capacity and the pointer of the buffer it freed);
`"reuse"`, a corpus of the very shape of the resident one at its reused address,
which `ensure_resident` takes for it; two builds at a time, of which one may swap
the corpus between the other's `ensure_resident` and its launch; and a dimension
of 0. The kernels' float sums are exact here.

Bounds: two builds of five corpora, two of them of one shape and two of one
content in two widths, at two addresses; three documents, two terms, two
clusters; one mishap. Symmetry of the threads and of the addresses: neither is
ever compared but for equality.

### IdMapIndex

State: the delegate's rows, whether they are borrowed, what its lists were built
from and its count; the two maps; and, for comparison, the name the caller gave
each document. Actions: `Add`, `AddWithIds`, `SetIdMap`, `ReadCsrAndIds` (also
with an id file that does not fit: it throws after the corpus was read),
`Build`, `Save`, `Load`. A delegate is one that drops its rows when it builds
(`InvertedIndex`) or keeps them (`SeismicIndex`).

- `LabelsAreTheCallers`, `SelectorsAgree`, `CountsEveryRow`.
- Excluded: histories in which rows join a delegate that dropped others
  (`late`): the next build of an `InvertedIndex` then covers only the new rows,
  numbered from 0, and no doc promises anything of it. Also rows added without a
  name, and equal names for two rows (only the last can be selected).

Three documents and three names, 0 -- what `resize` fills with -- among them.
The run lets the system stop: with all documents added and no file there may be
nothing left to do.

### DiskSeismicIndex

State: the corpus (`vectors_`, or none), the count kept by hand, the lists (each
block with the ids it holds and what its summary was made from), what was
mapped (`fwd_`, `doc_locators_`, `remainder_`), the saved file. Actions: `Add`
(and `read_csr` in memory), `MapCsr`, `Build`, `Save`, `Load`. Which documents a
list keeps and how they are dealt to blocks is free. What a search would read
from this state -- `Scored`, `GetDoc` -- are operators.

- `ScoresWhatItRanks`: a block is scored on the documents its summary was made
  from, before a save and after a load.
- `DirectoryResolves`: the locator of each id leads to its document, never to an
  exception, for every spread of documents over blocks.
- `SavedFilesLoad`: a file that is saved loads: the count kept by hand on four
  paths agrees with the directory.
- Excluded from these (`mixed`): an index that was loaded and then filled; one of
  the *Findings* is about what the docs say of it.

Two lists, two blocks, three documents: a document in both lists, in one, in
none; an index is built again only once it has more documents (till then another
build is another choice of the same lists).

### NativeCorpus

State: the conversion (its input, the array it is at, the elements done), the
native file (what its stream was handed, cell by cell, and how many bytes of it
are on disk), the index's rows -- none, owned or borrowed -- and the mapping it
keeps. Actions of `convert`: `Open` (header and size are checked, the target is
emptied, the header copied), `WriteIndptr`, `WriteIndices` (a chunk),
`WritePadding`, `WriteValues`, `Finish`; `Drain` (the stream writes some of its
buffer) and `Abandon` (a check fails, a write fails, the process dies).
`WriteCodes` is the program that writes corpora of codes, and `OfferInterchange`
the caller who gives the index a whole interchange file to map instead of
converting it, one whose terms fit: nobody has looked at those of another, and
a reader that takes it for a native file does not either. Of the index: `Copy`
(`Index::read_csr` with `add_vectors`), `Map` (`read_mcsr` with `map_vectors`),
`BuildInverted` (which gives up the rows and the mapping). A conversion runs
beside the index: it may be mapped while it is written.

- `TypeOK`: among the rest, the stream stays within the size the layout calls for,
  and no two elements of a native or an interchange file share a place.
- `RowsAreTheCallers`: the index holds the rows of the files it took, in order. An
  index of floats maps no partial file; a whole one of another layout or another
  width it turns away by its size, unless it has so few entries that its bytes
  are the same (an interchange file of one entry or none, codes of none).
- `SafeToSearch`: rows lie within their arrays, every term is a dimension of the
  index, borrowed arrays have their mapping (`MappingIsHeld`, proved).
- Excepted: a file of floats cut where its codes would end has the size of a file
  of codes, and a quantizing index takes it; a file whose offsets fall is refused
  by `map_vectors` but not by the copying `read_csr` (`Ordered`).

Fourteen matrices: even and odd numbers of entries (only the odd ones are
padded), empty rows, and one for each check there is, terms the column count
allows and the native width does not among them; chunks of two. Two copies go
into one index. A mapped file is not converted onto: that truncates the file
under the mapping, which no code prevents; nor is a file converted onto itself,
which empties it.

### InlineForward

State: the lists and the layout's parameters; the stream position and `cur_off`
of the writer; the section's numbers (header, directory, trailer) and what block
starts at which offset; the reader's place in the directory. Actions:
`Serialize` (padding, sizing pass, header), `WriteBlock`, `WriteDirectory` (with
the check of the length), `Settle`, `Map` (header and trailer), `CheckEntry`,
`LoadDone`. `Settle` is the file's: it stays whole, is cut short, or has one of
its numbers changed. `Views(l, b)` are the views `block(l, b)` may return; where
an offset leads to no block, what stands there is anything.

- `BlocksInPlace`: every array can be read in place, wherever the section lands.
- `RoundTrip`: the sizing pass and the writing pass agree; a whole section loads, and each block is found -- or none is,
  where there is none.
- `FailClosed`: of a damaged one nothing outside the section is read.

`Sized` is the sizing pass, block by block: where the block after the first k is
to start. A power of two is defined as a number that only 1 and even numbers
divide; the code asks whether `n & (n - 1)` is 0.

The length prefix is not damaged: the trailer would be read from another place,
and the numbers there are as free as those of `Settle` but for their number.
The cap on `n_lists` (an allocation's bound) is left out.

### IndexFile

State: the index that is saved, as the counts its layout depends on; the items
still to be written; the file, an item with its place at a time; how much of it
is there; the reader's position, the items it expects, the scalars it has read.
An item is a scalar or an array with its length, its boundary and, if the reader
depends on it, its value. `Items` is `write_index` of each type, of any index
`IndexesAssumption` admits; the reader is
given no layout: it starts from `HeaderItems`, and what it expects next follows
from the scalars it has read (`Then`; `got` has those of `Kept`), with its checks
in between. Actions:
`Open`, `WriteItem`, `Stop` (a write fails or the process dies: a prefix is left,
which may end within an item), `Close`; `ReadIndex`, `ReadItem`, `ReadNothing`
(an empty array: its padding only), `ReadShort`, `ChooseReader` (type, version,
copying or mapped), `Check`, `ReadDone`. Copying and mapped reads walk the same
layout; they differ in what they do about the end of the file.

- `RoundTrip`: a whole file loads as what was saved, item by item; the reader
  never takes the middle of one item for another.
- `WholeOrRejected`: of a cut file or another version nothing loads, mapped, or
  copied into an inverted index; a seismic one is excepted for copying reads
  (see *Findings*).

Bounds: lists with nothing, a few documents, odd numbers of terms, one, two and four
bytes a value, quantizers of both types with a range that is not the default, an id map of odd length: every alignment follows every
misalignment. A cut leaves 0, 1 or 4 bytes of an item. The run stops where a
file is loaded or rejected.

The checks of a load are those the code makes of the quantizer
(`QuantizerFits`), of the widths of the corpus, the blocks and the summaries
(`ElementSizeFits`, `WidthsFit`), of scores and locators. The in-memory readers
and writers, and saving onto the file an index is mapped from are not modelled.

## Runs

| Run | Configuration | Shows |
|---|---|---|
| `batched_build` | `MCPlannedBuild.cfg` | the build, its windows and its spill; refinement |
| `failed_rebuild` | `MCFailedRebuild.cfg` | counterexample: a failed rebuild |
| `inverted_search` | `MCInvertedSearch.cfg` | the exact searches; the loop of one ends |
| `seismic_search` | `MCSeismicSearch.cfg` | the approximate searches: in memory and on disk, of floats and of codes |
| `id_map_index` | `MCIdMapIndex.cfg` | the ids |
| `disk_index` | `MCDiskSeismicIndex.cfg` | the disk index through its life |
| `fresh_build` | `MCFreshBuild.cfg` | counterexample: stale blocks |
| `inline_forward` | `MCInlineForward.cfg` | the section of blocks on disk |
| `index_file` | `MCIndexFile.cfg` | files saved, cut and loaded |
| `native_corpus` | `MCNativeCorpus.cfg` | corpora converted, copied, mapped |
| `gpu_build` | `MCGpuBuild.cfg` | lists clustered with a device that may fail |
| `gpu_regrow` | `MCGpuRegrow.cfg` | counterexample: scratch that was never zeroed |

Every property of a passing run has a mutant: a definition with a plausible bug
(named `...` after what is wrong with it, preceding the definition, its comment
starting with "Mutated:") under which TLC refutes the property.

## Proofs

`tlapm` proves, for every value of the constants:

| Theorem | States |
|---|---|
| `PlannedBuildProofs!TypeCorrect`, `WindowsPartitionTheTerms`, `ArithmeticStaysUnsigned`, `WindowsAreBalanced` | `PlanTypeOK`, `Partition`, `NoUnderflow` and `Balanced` of `TermWindows` |
| `PlannedBuildProofs!TypesHold`, `SpillsAreOwned`, `CrashIsClean`, `ListsStayReadable`, `NoCheckFires` | `TypeOK`, `NothingStranded`, `CrashLeavesNothing`, `ReadableUnlessThrew` and `ChecksNeverFire` of `BatchedBuild` |
| `PlannedBuildProofs!BuildIsWhole` | `BatchedBuild` implements `SeismicBuild` (`ImplementsWholeBuild`) |
| `PlannedBuildProofs!PlannedIsBatched` | `PlannedBuild` implements `BatchedBuild`: `make_windows` returns a cut |
| `PlannedBuildProofs!PlannedBuildHolds`, `PlannedBuildIsWhole`, `PlannedWindowsHold` | the properties above of `PlannedBuild`, which assumes no cut |
| `InvertedSearchProofs!TypesHold`, `ExactTopKHolds`, `SearchIsMonotone`, `ScratchStaysClean` | `TypeOK`, `ExactTopK`, `MonotoneSearch` and `ScratchClean` of `InvertedSearch` |
| `InvertedSearchProofs!ExactImplementsInverted`, `ExactSearchHolds` | `ExactSearch` implements `InvertedSearch`, and has these four |
| `InvertedSearchProofs!IndexesAgree` | `AgreesWithBruteForce` of `ExactSearch`, which speaks of queries that name each term once |
| `SeismicSearchProofs!QuantizedImplementsSeismic` | `QuantizedSearch` implements `SeismicSearch` |
| `SeismicSearchProofs!DenseStaysClean`, `QuantizedDenseStaysClean`, `DenseIsRestored` | `DenseClean` of `SeismicSearch` and of `QuantizedSearch`, `DenseRestored` of `DiskSeismicSearch` |
| `SeismicSearchProofs!TypesHold`, `AnswersHold`, `BudgetsHold` | `TypeOK`, `SoundAnswer` and `ExactWithinBudget` of `DiskSeismicSearch`, whose index is in memory or not, of floats or of codes |
| `SeismicSearchProofs!SkipHolds`, `WithinFactorHolds`, `LosslessHolds` | what the search in memory passes over (`SkipInv`), and from it `WithinFactor` of `SeismicSearch` and `LosslessIsNearlyExact` of `QuantizedSearch` |
| `SeismicSearchProofs!KernelsAgree` | every kernel of `DistanceKernels` computes the inner product |
| `GpuBuildProofs!ScratchStaysClean` | `ScratchClean` of `GpuBuild`, unless `"regrow"` may happen |
| `GpuBuildProofs!NoKernelReadsAnotherCorpus` | `KernelsReadTheCorpus` of `GpuBuild`, unless `"reuse"` may happen |
| `GpuBuildProofs!DocumentsAreDealtOnce` | `TypeOK` of `GpuBuild`, with `DealtOnce` in it, whatever may happen |
| `GpuBuildProofs!DeviceMatchesTheCpu` | `MatchesTheCpu` of `GpuBuild`, unless `"regrow"` or `"reuse"` may happen |
| `IndexFileProofs!TypesHold`, `LabelsHold`, `SelectorsHold`, `EveryRowIsCounted` | `TypeOK`, `LabelsAreTheCallers`, `SelectorsAgree` and `CountsEveryRow` of `IdMapIndex` |
| `DiskSeismicIndexProofs!TypesHold`, `RankingIsScored`, `DirectoryLeads`, `SavesLoad` | `TypeOK`, `ScoresWhatItRanks`, `DirectoryResolves` and `SavedFilesLoad` of `DiskSeismicIndex` |
| `DiskSeismicIndexProofs!SectionIsWellTyped`, `SectionIsReadInPlace`, `LoadFailsClosed`, `SectionRoundTrips` | `SectionTypeOK`, `BlocksInPlace`, `FailClosed` and `RoundTrip` of `InlineForward` |
| `IndexFileProofs!FileIsWellTyped`, `FileRoundTrips`, `LoadedIsWhole` | `FileTypeOK`, `RoundTrip` and `WholeOrRejected` of `IndexFile`, for every index of every type, wherever a save stops |
| `NativeCorpusProofs!TypesHold`, `SearchStaysSafe`, `RowsStayTheCallers`, `MappingStaysHeld` | `TypeOK`, `SafeToSearch`, `RowsAreTheCallers` and `MappingIsHeld` of `NativeCorpus` |

They rest on the named assumptions on the constants, and three of `GpuBuild` on
the exclusions they name, without which they are false. Those of `GpuBuild` say
that rows map terms below the dimension to naturals, that weights are in one of
the three widths (`CorporaAssumption`), and that lambda is a natural and beta at
least 1 (`ParamAssumption`: 0 asks for a number of clusters by the length of the
list, and is left out). Those of `InvertedSearch`
say that a row maps terms below the dimension to naturals (`CorporaAssumption`: a
term past it makes `build()` throw), that a query is a sequence of terms and
weights, that `k` and the window's size are at least 1; corpora, queries and
selectors are otherwise any. Those of the seismic searches say the same, and that
no query has a term twice (the dense vector would keep one of its weights), that
the ids a selector lists are finitely many, that lanes and greatest codes are
positive, that a quantizer's range is one, that alpha's denominator is not 0, and
that no list gets more than 65536 clusters (`ClustersAssumption`): a cluster's
number is kept in 16 bits, which the code asserts is enough
(`cluster/inverted_list_clusters.cpp:249-250`). `Stray`, what a gather finds past
the last code, is any number. Those of `InlineForward` say that blocks list
documents of the corpus (`InputsAssumption`), that an element has 1, 2 or 4 bytes
-- `serialize` throws otherwise -- and that a page size is at least 1 or none is
given; whether it is a power of two the model decides as the constructor does.
Those of `IndexFile` say that an index that can be written is of one of the five
types, or an `IDMapIndex` around one (`IndexesAssumption`): its counts are
naturals, floats have 4 bytes and codes 1 or 2, a quantizer's range is one, a
section of blocks has a header at least; lists may be as many and as long as one
likes, and the versions any. A stopped save leaves a natural number of bytes of
its last item (`CutsAssumption`).

`DataTheorems` has what several of them need. Induction is stated over sets
instead of predicates, so that no operator is a parameter; from it come least and
greatest members, functions defined by recursion, the order of a finite set, and
sums. A sum is defined by a fold, of which nothing can be proved by unfolding it
a number of times that is not known; `SumIsUnits` proves it to be the
cardinality of a set, and the others (of two parts, of one, of parts that are at
most so much) follow from facts about cardinalities. On these rest the lemmas
about a holder: adding an item to a top k of some documents gives a top k of
those and the item's (`AddedIsTop`), and passing over a document that scores at
most the threshold of a full one leaves a top k (`SkippedIsTop`). Of scores in a
row there is a first greatest (`FirstGreatest`), which is what a closest centroid
is; and numbers taken in order by where they stand are each taken once
(`TakenInOrder`).

*TermWindows* (`PlanInv`, `EvenInv`). `Partition` speaks of the end and is not
inductive. What holds at each step: the windows pushed are a contiguous run from
term 0 to `begin`; `dim - begin` is at least the number of windows still to
come, so that each gets a term (this is what `MaxEnd` reserves); `remaining` is
the prefix sum's difference from `begin` to the end, and `load` that from `begin`
to `end`, so that the subtraction of a load cannot pass zero. For `Balanced`: the
load left is at most the even share times the windows left, or else every window
left gets a single term; since the target is the load left over the windows left,
rounded up, it never exceeds the even share in the first case.

*BatchedBuild* (`SpillInv`, `BInv`). For `TypeOK` rows that are added come after
those the lists were built from (`SamePrefix`, `BuildsKept`). `NothingStranded` alone is not inductive: a
step would remove the file `path_` names while another is on disk. `SpillInv`
says, for each step of a build, which of `path_`, `mapping_` and the directory
agree: a path is owed from before its file exists until it is unlinked, and while
a build is under way nothing else is. `ReadableUnlessThrew` needs that `home` is
assigned in the same step as the lists, and that what `release` gives up is never
the mapping of lists in place unless a build then throws. `ChecksNeverFire` and
the refinement need of the window under way that each list being filled has the
first so many of the documents that were counted for it, that a clustered list is
the one a whole build makes (`StagedInv`), and that the section is those of all
terms before the window (`SectionInv`). They hold jointly: no conjunct is
preserved without the others.

*PlannedBuild* (`PlannedInv`). A `make_windows` that was called has the
dimension, the counts and the batch size of the build that waits for it, which
does nothing meanwhile; so what it returns -- a partition, with ends that ascend
-- is a cut `BatchedBuild` may take, and each other step is one of `BatchedBuild`
or leaves its variables alone.

*InvertedSearch* (`IInv`). `ExactTopK` speaks of the end of a query; on the way the
heap is a top k of the documents *dealt with*: those before the window while a
partition is chosen (`PartitionInv`) or essential lists wait to be summed (`ScoreInv`),
and those of the window that wait no more while it is evaluated (`EvaluateInv`).
A step then needs three things. That the sum is the document's score: the scorers
of a query add up to it (`QueryInv`), the slot of a document that waits holds what
the essential ones add, and an essential list is read exactly to the window's end
(`Reached`, by `Behind` and `Ahead`). That what is passed over may be: the bounds
of the non-essential terms together are below the threshold of a full heap
(`BoundInv`), a document that only they match scores no more than that, and so
neither does one whose sum and bounds before a term are no more than the
threshold (`TopSkips`). And that the buffer starts from zero (`CleanInv`):
marking a slot sets its bit, evaluating one clears both, and no other step
touches either. `MonotoneSearch` follows as adding to a holder never lowers its
threshold, and bounds once below it stay below.

*ExactSearch* (`FoundInv`). For a query that names each term once the dense vector
has, under a term, the weight of its only entry (`GreatestOfOne`), and the dense
inner product adds up term by term what `Score` adds up by the query's entries
(`DotIsScore`, by `SumGrouped`); the scan is then a top k of all documents, by
induction over the documents scanned. Two top k of the same documents have each
score as often: what one has and the other has not scores what the other has
instead (`BestAgree`); and documents that do not match are in one only if there
are too few that do (`TopsAgree`).

*SeismicSearch, DiskSeismicSearch.* While a query runs the vector is zero outside
the query's own terms -- all of them, not only those the cut kept -- and the query
does not change until `Finish` or `FinishBudget` clears them.
`QuantizedImplementsSeismic` needs, of the quantizer, only that it stays what it
was: the encoded corpus and the encoded call are among those `SeismicSearch` may
have, by the module's assumptions, and no step between them reads a weight.

The other theorems rest on one invariant, `SearchInv` (`SearchHolds`). The lists are
clusterings of the corpus (`IndexInv`): `ClusteringsCluster` proves of build's
pruning, centroids and assignment that no cluster is empty, that its documents
have the term, and that with nothing pruned every document that has it is in a
cluster, whatever was drawn. The dense vector is the query, scattered
(`CallInv`); so what a kernel computes is the document's score, by
`KernelsAgree`: the places of a row split into lanes and tail (`WholeBlocks`,
`BlockedIsWhole`, by `SumGrouped`), and of a word gathered from codes the
low part is the code, the rest being a multiple of what is masked off
(`LowIsElement`, `GatheredElement`). The heap is a top k of what was visited and
is selected (`HeapInv`), by `AddedIsTop`, which asks that no document is offered
twice: this is what `visited` is for. That suffices for `TypeOK` and the first
half of `SoundAnswer`; the second half is `DecodedIsNear`, that each code is
within half a step of its weight (`EncodesNear`, of the code's rounding and
clamping) and so, term by term, products and their sums are near. For
`ExactWithinBudget`, what was visited is what is in the blocks begun (`BlocksInv`),
those still to score are the last of those within the budget, and those ranked are
all clusters of the terms collected so far.

What the search in memory passes over needs a second invariant, `SkipInv`
(`SkipHolds`). `WithinFactor` speaks of the end; on the way every document of the
lists begun has been visited, or is still to come, or was passed over and is
*worth nothing* (`PassedInv`): the holder is full, and where summaries are whole
the document's score times the factor is below the holder's worst. The last only
grows, so what was once worth nothing stays so. That a cluster passed over has
nothing better rests on `SummaryCovers`: a whole summary scores no less than any
document of its cluster. Its proof follows a summary through the code. The pool
has, term by term, the greatest weight of the cluster (`PoolIsGreatest`); with
alpha 1 nothing of it is left out (`EmittedIsKept`), and this is where it matters
that the emitted mass is a sum of naturals; the transpose lays a term's entries in
a run that no other term's reaches (`RunsAreLaid`, `TransposeHasEach`), so that
each weight is found under its term and, with at most 65536 clusters, its cluster;
and what a query's terms find there is no less than what they find in the
document. Passing over *one* cluster of the sorted first list ends the list: the
clusters left are hopeless because their summaries rank no higher
(`RankedInv`). And what was visited is of the lists begun (`OriginInv`), so that
a search that returns fewer than k returns exactly what they have. With nothing
pruned they have what matches (`AllIsReached`); for `LosslessIsNearlyExact` it
remains that decoding keeps the order of scores (`DecodingIsMonotone`) and that
each decoded score is near the weights' own (`DecodedScoreIsNear`).

*IdMapIndex.* What a label depends on is spread over delegate and map. Unless
rows joined a delegate that had dropped others, the delegate counts every
document, has all of them or none, and built from rows that are numbered as the
documents are (`InOrder`); a document that was named has its name at its number
in the map, and the reverse map takes each name to a place where the map has it.
The same holds of the file, as a load puts the one in the place of the other.

*DiskSeismicIndex.* `ScoresWhatItRanks` speaks of an index that may have been
loaded, so the invariant must say of the file what a load will ask of it: its
blocks are what its summaries were made from, and its directory leads to every
document of its corpus (`FileInv`). An index that was not filled after a load has
its blocks over its own corpus or in the file, never in both (`RankInv`); an index
saved from neither is loadable only if it has nothing. A longer corpus has the
same documents at the ids the blocks hold, which are within it (`CountInv`). Of
several places of a document there is a first, and the documents of no block can
be put in order, so that each has its row.

*InlineForward* (`SectionInv`). `BlocksInPlace`, `FailClosed` and `RoundTrip` speak of
directory, section and views; what holds at each step is in terms of the sizing
pass. The blocks written are the first of all blocks in order, each where
`Sized` has it, and the cursor is where it has the next (`BodyInv`); starts
ascend, with room for a block between two of them (`SizedIs`), so that no block is
written over another, and once none is left the cursor is the length the prefix
promised. Every alignment is a power of two of at least 8, and so a multiple of 8
(`PowerOfEight`, `AlignmentIs`), as is the base; the arrays of a block are aligned
relative to its start (`LayoutIs`, `BlockAligned`). Of a load, the entries accepted
lie where the counts say (`LoadInv`): the i-th is preceded by as many as the counts
of the lists before its own and the blocks before it in its own together. This is
inductive as entries are grouped by list: every count past the list of the last
entry is still 0, and the next entry adds one to the last count or starts a
later one. It holds of a damaged section too; of a whole one no entry fails the
checks (`WholeEntryFits`), and as the counts are those of the lists, the entry
found for a block is the block's, at whose start its content is found
(`EntryFound`, `ContentIs`). `FailClosed` needs of a view only what `view_block`
checks: the layout computed from the offsets found ends where the entry does,
which was checked against the directory.

*NativeCorpus.* A native file is, at each step of a conversion, the part that ends
by the stream's position of what the layout of its input puts there, and no two
cells of a layout end in one place (`FileInv`); so what is read back is what was
written, and a whole file is the input. No term is in it that was not checked. An
interchange file of at most one entry is such a file (`AsNative`: the padding makes
up for the wider term); of a larger one it is enough that its header reads back and
that its size is not what the header calls for in a native file of any width
(`InterchangeInv`, `TurnedAway`). `TypeOK` adds that in either layout each kind of
cell has a part of the file to itself, and that cells of one kind are as far apart
as they are wide (`Regions`, `Stride`, `Separate`).
`MappingIsHeld` is inductive: only owned rows grow, a file that is mapped has at
least a header, and a build gives up both.

*GpuBuild.* `ScratchClean` says nothing of a kernel that runs, and so is not
inductive. While one does, a slot that is not zero is under a term that was
appended, by the posting that set `seen`, and nothing is appended that was not
read; so the reset of what was appended leaves nothing, and a launch that fails
before anything was read has nothing to reset. Between kernels a grown buffer is
clean because `acc` and `seen` always have one capacity: both grow, and are then
cleared, or neither does. `KernelsReadTheCorpus` -- between `ensure_resident` and
the end of its kernels a thread finds the corpus being built from on the device --
needs that whatever passes for that corpus is that corpus; then `ensure_resident`
never replaces what another thread relies on.

That each document a list keeps is in one of its clusters, once (`DealInv`), holds
whatever fails: what a kernel copies back from buffers that are gone, or from
another corpus of the same shape, is at least a number of a cluster for each
document; no centroid is dealt out as a document; and nothing is appended before
all of it is known, so that the CPU starts from an empty list. `MatchesTheCpu`
needs more (`BuildInv`, the four invariants at once): no buffer of a thread is gone,
as no allocation fails after the buffer it replaces was freed; the corpus a kernel
reads is the one being built from, so that its scores are the inner products and
the first of the greatest is the centroid the CPU finds (`DeviceIsClosest`); and
a running max-pool is the pool of the postings it has read (`Pooled`): in a slot
is the greatest of the weights that were read, and its term was appended once,
by the posting that found `seen` at 0 -- not by the first that raised `acc`, for a
weight may be 0. The threads of a block read in any order; when all is read the
slots of the terms appended are the pool the CPU makes (`ReadIsPool`), and their
sum, taken in the order of appending, is its sum.

*IndexFile* (`FileInv`). Of the writer (`WriteInv`): what is written is the first of
the index's items, each after the one before, on its boundary (`LaidOut`); what is
still to be written is the rest; a file that was closed is `Complete`, and one
that was left is that or `Broken`: it ends within its last item.

A reader has no layout, so the invariant must say that what it expects, with the
scalars it has read, leads through the rest of the file (`Follows`). That is
recursive; it is stated by a set of places -- what is expected, what is left, what
was read -- that contains this one, and with each the one it leads to (`Meets`).
The next item is then what the reader expects, and the next check passes: a
mapped load of an inverted index asks whether n terms fit in the bytes left, and
they do, as n items of 8 bytes are to come (`Spans`); the widths that
`validate_mapped_payload` asks for are those of the index (`Narrows`). That the
reader's first expectation follows all of the file (`ItemsFollow`) is proved type by
type, from the end: an item is put before what follows already, and lists of lists,
whose sizes are any, are added one after the other (`LeavesFlatten`, which says
what `FlattenSeq` returns without unfolding it).

Of the reader (`ReadInv`): it is `Synced` -- it has read the first k items as they
were written, stands where the next one is, and `Follows` the rest -- or `Astray`. A
reader goes astray only at the end of a file that is not whole; from then on
each scalar is a default or what some of its bytes made it. It is `Lost` then: either
it copies a seismic index, which may miss its payload (`Legit`; see *Findings*), or
what it still expects cannot all be read (`Fruitless`): a header that names no type
or another version, a size of a map with nothing after, a mapped read with
bytes to come, an inverted index whose terms, widths and scores will be found
not to fit. Each of these persists until the reader is refused; so what is loaded
was read in step to its end, and whole.

Model-checked only: liveness (`QueryEnds`), which is out of the prover's reach, as
it needs `ENABLED`; and the three counterexamples. Every safety property, action
property and refinement a passing run checks is a theorem.

## Findings

- **A rebuild that fails unmaps the lists in place** (`failed_rebuild`). With
  batching, where files are unlinked once mapped: build; build again, and let
  any step on the new spill throw. The `release()` at the top of `write_and_map`
  keeps the mapping, as the path was cleared by the unlink; the one in the catch
  resets `mapping_`, which is still the first build's, whose lists the index
  keeps. (Where a mapped file cannot be unlinked the path is still set, and the
  first `release()` already unmaps the lists of a build that then throws.)
- **A loaded disk index that is filled and built scores the old file's blocks**
  (`fresh_build`): nothing clears `fwd_`.
- **A max-pool whose scratch grew half-way runs on memory that was never zeroed**
  (`gpu_regrow`). `acc` grows, the allocation of `seen` (or a `memset`) fails, the
  list goes to the CPU; for the next list that is no larger `acc_grew` is false,
  so that neither is cleared. `gpu_summarizer.cu:206-208` says that they must
  start zeroed.

Smaller disagreements are not runs. A seismic file cut short may load: arrays
that come short throw, scalars do not (`sparse_vectors.cpp:235`), so that a count
that is gone is 0, and a copying load returns an index without its documents, or
without the last lists; `DEVELOPER_GUIDE.md:224-225` says truncated files raise.
A matrix of empty rows can be mapped and not copied: `add` refuses the null
address of an empty vector. The comment at
`disk_seismic_search.cpp:174-176` says that the order of the blocks does not
affect the result; with documents of equal score it decides which of them the
heap keeps. For a query that names a term twice the exact indexes disagree:
`BrutalIndex` scores by a dense vector that keeps the last weight
(`sparse_vectors.cpp:168-178`), and the inverted index adds a scorer for each
entry. `csr_layout.h:36-37` says that file size cannot tell the two layouts apart
and gives one row and four entries as an example, 64 bytes either way: an
interchange file of these has 72, and both readers tell the layouts apart by size
alone (`index.cpp:109-114`, `mmap_index.h:134-140`). They then reject a file of the
other kind rather than guess (`index.cpp:108`) only if it has two entries or more;
one with a single entry, or a mapped one with none, is taken, and rightly, as its
bytes are the same. And the early return at `disk_seismic_index_base.cpp:80` precedes
the exact match: an index that was saved without a block and loaded answers an
enumerable selector with padding, although its directory has every document.

## Abstractions

- Weights are natural numbers: a float's rounding, and so what the kernels'
  order of summing makes of it, is not modelled; codes are rounded as the code
  rounds them, but by exact arithmetic. Alpha, beta and the heap factor are fractions.
- A row has no term twice, and a query of the seismic searches neither; both hold
  of the data the tests and benchmarks use, and the parsers do not check it. A
  query of the exact searches may name a term twice.
- `idx_t` does not overflow: two billion rows are out of any model's reach.
- `k` is at least 1: `Index::search` throws otherwise.
- `CutsOf` allows any terms of equal weight at the cut; the code takes those its
  heap happens to keep. Likewise equal summary scores and equal bounds.
- A thread is followed through its queries, one after the other; other threads
  share only what no search writes.
- An index that fails to load is discarded with its half-filled members: the
  factories hold it in a `unique_ptr`.
- A disk index that was loaded has no corpus to write; saved again, it makes a
  file every load rejects. No doc promises otherwise; `SavedFilesLoad` excludes
  such files (`hollow`).

## Not modelled

- The bytes: the terms and values of blocks.
- `IDMapIndex::search` leaves a pointer to its own selector in the caller's
  parameters (`id_map_index.cpp:56`); nothing says they may be reused.
- The matrix, argmax and batch kernels in `utils/distance*.h`
  (`dot_product_sparse_matrix`, `argmax_*`, `*_vectors_dense`): only tests call
  them.
- Float arithmetic (see *Abstractions*).
- `utils/mmap_file.h` and the in-memory readers and writers: calls to the platform
  and copies.
- Factories, bindings, demos and benchmarks: they call the rest.

## Plan

No safety property of a passing run is left without a theorem. What would still be
worth modelling: saving onto the file an index is mapped from.
