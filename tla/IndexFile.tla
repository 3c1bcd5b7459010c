----------------------------- MODULE IndexFile -----------------------------
(***************************************************************************)
(* Index files: what write_index puts in a file, item by item, for each    *)
(* type of index and for an IDMapIndex around one; and how read_index, the *)
(* copying reads and the mapped reads find their way in it again           *)
(* (nsparse/io/index_io.cpp, io/file_io.cpp, io/align.h, and the           *)
(* serializers of the indexes, the corpus and the lists).                  *)
(*                                                                         *)
(* An item is a scalar or an array: how many bytes, on which boundary, and *)
(* the value the reader depends on.  A save may stop anywhere -- a write   *)
(* fails, the process dies -- and leaves a prefix of the file.             *)
(***************************************************************************)
EXTENDS Integers, Sequences, SequencesExt

CONSTANTS
  Indexes,    \* the indexes that are saved
  Cuts        \* how many bytes of the last item a save that stopped left

ASSUME CutsAssumption == Cuts \subseteq Nat

(* What a file's layout depends on, by the type of the index.  A section of *)
(* blocks has a header at least; a quantizer was constructed.               *)
IsClustered(ix) ==
  ix.lists \in Seq([docs : Nat, clusters : Nat, terms : Nat, nnz : Nat]) /\ ix.nnz \in Nat
IsDisk(ix)      == IsClustered(ix) /\ ix.section \in Nat \ {0} /\ ix.left \in Nat
IsQuantized(ix) == ix.width \in {1, 2} /\ ix.vmin \in Int /\ ix.vmax \in Int /\ ix.vmin < ix.vmax

IsFlat(ix) ==
  /\ ix.version \in Nat /\ ix.dim \in Nat /\ ix.rows \in Nat
  /\ \/ ix.id = "INVT" /\ ix.sizes \in Seq(Nat)
     \/ ix.id = "SEIS" /\ IsClustered(ix) /\ ix.width = 4
     \/ ix.id = "SESQ" /\ IsClustered(ix) /\ IsQuantized(ix)
     \/ ix.id = "DSEI" /\ IsDisk(ix) /\ ix.width = 4
     \/ ix.id = "DSSQ" /\ IsDisk(ix) /\ IsQuantized(ix)

IsMapped(ix) ==
  /\ ix.id = "IDMP" /\ ix.version \in Nat /\ ix.dim \in Nat
  /\ ix.ids \in Nat /\ IsFlat(ix.delegate)

VARIABLES
  pc,       \* "idle" | "writing" | "saved" | "refused"; "reading" | "loaded" | "rejected" | "misread"
  index,    \* the index that is saved
  toWrite,  \* its items still to be written
  written,  \* what is written: each item with its place
  pos,      \* of the writer, then of the reader
  present,  \* how long the file is
  useMmap,  \* kUseMmap
  borrows,  \* the payload is read through a mapping
  eof,      \* a copying read has come to the end
  todo,     \* what the reader expects, in order
  got,      \* the last scalar read of each name a later step looks at
  loaded    \* what it has read

fileVars == <<pc, index, toWrite, written, pos, present, useMmap, borrows, eof, todo, got, loaded>>
readVars == <<todo, got, loaded, borrows, eof>>

AlignUp(p, a) == ((p + a - 1) \div a) * a

(* What is written or expected next: its name, size, boundary.  Names stand *)
(* for places in the layout; no name is in the file.                        *)
Item(what, bytes, align, array) == [what |-> what, bytes |-> bytes, align |-> align, array |-> array]
Scalar(what, bytes)       == Item(what, bytes, 1, FALSE)
PaddedScalar(what, bytes) == Item(what, bytes, 8, FALSE)
Array(what, count, width, align) == Item(what, count * width, align, TRUE)

(* A step of a reader that reads nothing: a check, a choice.                *)
Mark(what) == Item(what, 0, 1, FALSE)
Marks == {"payload", "check_quantizer", "check_element_size", "check_scores", "check_locators",
          "check_widths"}

Valued(item, value) ==
  [what |-> item.what, bytes |-> item.bytes, align |-> item.align, array |-> item.array, value |-> value]
NoValue == <<>>

(* The scalars a later step looks at; what a variable that is read into     *)
(* holds beforehand.                                                        *)
Kept == {"id", "version", "sq_type", "vmin", "vmax", "vector_count", "element_size", "summary_width",
         "num_vectors", "n_term", "posting_width", "scores_size", "count"}

Default(what) ==
  CASE what = "id" -> "none"
    [] what = "summary_width" -> 4
    [] what = "vmax" -> 1
    [] OTHER -> 0

Noted(g, what, v) == [w \in Kept |-> IF w = what THEN v ELSE g[w]]
-----------------------------------------------------------------------------
(* Writing.                                                                 *)

(* Mutated: an empty array is not padded. *)
WriteArrayPaddedIfAny(what, count, width, align, value) ==
  <<Valued(Array(what, count, width, IF count = 0 THEN 1 ELSE align), IF count = 0 THEN NoValue ELSE value)>>

WriteArray(what, count, width, align, value) ==
  <<Valued(Array(what, count, width, align), IF count = 0 THEN NoValue ELSE value)>>

WriteScalar(what, bytes, value) == <<Valued(Scalar(what, bytes), value)>>

(* SparseVectors::serialize *)
Vectors(rows, nnz, width, dim) ==
  WriteScalar("vector_count", 8, rows)
    \o IF rows = 0 THEN <<>>
       ELSE WriteScalar("dimension", 8, dim) \o WriteScalar("element_size", 8, width)
              \o WriteArray("indptr", rows + 1, 8, 8, nnz)
              \o WriteArray("indices", nnz, 2, 2, "indices")
              \o WriteArray("values", nnz * width, 1, width, "values")

(* serialize_summary_store; a list that was never filled has floats.        *)
Summaries(l, width) ==
  LET w == IF l.clusters = 0 THEN 4 ELSE width
  IN  WriteScalar("n_clusters", 8, l.clusters) \o WriteScalar("summary_width", 8, w)
        \o WriteScalar("n_terms", 8, l.terms)
        \o (IF l.terms = 0 THEN <<>>
            ELSE WriteArray("term_ids", l.terms, 2, 2, "term_ids")
                   \o WriteArray("term_ptr", l.terms + 1, 4, 4, l.nnz))
        \o WriteScalar("nnz", 8, l.nnz)
        \o WriteArray("csc_cluster", l.nnz, 2, 2, "csc_cluster")
        \o WriteArray("csc_value", l.nnz * w, 1, w, "csc_value")

(* InvertedListClusters::serialize, or serialize_summaries_only             *)
ClusteredList(l, width, bare) ==
  LET docs    == IF bare THEN 0 ELSE l.docs
      offsets == IF bare \/ l.clusters = 0 THEN 0 ELSE l.clusters + 1
  IN  WriteScalar("n_docs", 8, docs) \o WriteArray("docs", docs, 4, 4, "docs")
        \o WriteScalar("n_offsets", 8, offsets) \o WriteArray("offsets", offsets, 4, 4, "offsets")
        \o Summaries(l, width)

(* SeismicInvertedListsWriter::serialize *)
ClusteredLists(lists, width, bare) ==
  WriteScalar("n_lists", 8, Len(lists))
    \o FlattenSeq([i \in DOMAIN lists |-> ClusteredList(lists[i], width, bare)])

(* ArrayInvertedLists::serialize, with InvertedList::serialize              *)
PostingLists(sizes) ==
  WriteScalar("n_term", 8, Len(sizes)) \o WriteScalar("posting_width", 8, 4)
    \o FlattenSeq([i \in DOMAIN sizes |->
         WriteScalar("list_size", 8, sizes[i])
           \o WriteArray("doc_ids", sizes[i], 4, 4, "doc_ids")
           \o WriteArray("codes", sizes[i] * 4, 1, 4, "codes")])

(* write_quantization_header, write_payload_header: codes of 8 bits are of  *)
(* type 0, those of 16 of type 1.                                           *)
Quantizer(ix) ==
  WriteScalar("sq_type", 1, ix.width - 1)
    \o WriteScalar("vmin", 4, ix.vmin) \o WriteScalar("vmax", 4, ix.vmax)

(* DiskSeismicIndexBase::write_index: the section of the inline forward     *)
(* index is its length and that many bytes.                                 *)
DiskPayload(ix) ==
  WriteScalar("num_vectors", 8, ix.rows) \o ClusteredLists(ix.lists, ix.width, TRUE)
    \o <<Valued(PaddedScalar("section_len", 8), ix.section)>>
    \o WriteArray("section", ix.section, 1, 1, ix.width)
    \o <<Valued(PaddedScalar("count", 8), ix.rows)>>
    \o WriteArray("locators", ix.rows, 12, 4, "locators")
    \o Vectors(ix.left, ix.nnz, ix.width, ix.dim)

Header(ix) ==
  WriteScalar("id", 4, ix.id) \o WriteScalar("version", 4, ix.version) \o WriteScalar("dim", 4, ix.dim)

InvertedPayload(ix) ==
  WriteScalar("num_vectors", 8, ix.rows) \o PostingLists(ix.sizes)
    \o WriteScalar("scores_size", 8, Len(ix.sizes))
    \o WriteArray("max_term_scores", Len(ix.sizes), 4, 4, "max_term_scores")

SeismicPayload(ix) ==
  Vectors(ix.rows, ix.nnz, ix.width, ix.dim) \o ClusteredLists(ix.lists, ix.width, FALSE)

FlatItems(ix) ==
  Header(ix) \o
  CASE ix.id = "INVT" -> InvertedPayload(ix)
    [] ix.id = "SEIS" -> SeismicPayload(ix)
    [] ix.id = "SESQ" -> Quantizer(ix) \o SeismicPayload(ix)
    [] ix.id = "DSEI" -> DiskPayload(ix)
    [] ix.id = "DSSQ" -> Quantizer(ix) \o DiskPayload(ix)

(* IDMapIndex writes its map unpadded, then its delegate with a header of   *)
(* its own.                                                                 *)
Items(ix) ==
  IF ix.id # "IDMP" THEN FlatItems(ix)
  ELSE Header(ix) \o WriteScalar("map_size", 8, ix.ids)
         \o WriteArray("id_map", ix.ids, 4, 1, "id_map") \o FlatItems(ix.delegate)

Writable == {"INVT", "SEIS", "SESQ", "DSEI", "DSSQ", "IDMP"}

ASSUME IndexesAssumption == \A ix \in Indexes : ix.id \in Writable => IsMapped(ix) \/ IsFlat(ix)

FileInit ==
  /\ pc = "idle"
  /\ index \in Indexes
  /\ toWrite = <<>> /\ written = <<>> /\ pos = 0 /\ present = 0
  /\ useMmap = FALSE /\ borrows = FALSE /\ eof = FALSE
  /\ todo = <<>> /\ got = [w \in Kept |-> Default(w)] /\ loaded = <<>>

(* Opening the file empties it; only then is the index asked whether it can *)
(* be written.                                                              *)
Open ==
  /\ pc = "idle"
  /\ IF index.id \in Writable
       THEN pc' = "writing" /\ toWrite' = Items(index)
       ELSE pc' = "refused" /\ UNCHANGED toWrite
  /\ UNCHANGED <<index, written, pos, present, useMmap, readVars>>

(* Mutated: the padding is not counted. *)
WriteItemUncountedPad ==
  /\ pc = "writing"
  /\ toWrite # <<>>
  /\ LET item == Head(toWrite)
         at   == AlignUp(pos, item.align)
     IN  /\ written' = Append(written, [at |-> at, bytes |-> item.bytes,
                                         what |-> item.what, value |-> item.value])
         /\ pos' = pos + item.bytes
         /\ present' = pos'
  /\ toWrite' = Tail(toWrite)
  /\ UNCHANGED <<pc, index, useMmap, readVars>>

(* One item, after the padding to its boundary: write, pad_to, write_padded.*)
WriteItem ==
  /\ pc = "writing"
  /\ toWrite # <<>>
  /\ LET item == Head(toWrite)
         at   == AlignUp(pos, item.align)
     IN  /\ written' = Append(written, [at |-> at, bytes |-> item.bytes,
                                         what |-> item.what, value |-> item.value])
         /\ pos' = at + item.bytes
         /\ present' = pos'
  /\ toWrite' = Tail(toWrite)
  /\ UNCHANGED <<pc, index, useMmap, readVars>>

(* A write fails or the process dies.  What reached the file is a prefix,   *)
(* which may end within an item.                                            *)
Stop ==
  /\ pc = "writing"
  /\ written # <<>>
  /\ \E cut \in Cuts :
       /\ cut < Last(written).bytes
       /\ present' = Last(written).at + cut
  /\ pc' = "saved"
  /\ UNCHANGED <<index, toWrite, written, pos, useMmap, readVars>>

Close ==
  /\ pc = "writing"
  /\ toWrite = <<>>
  /\ pc' = "saved"
  /\ UNCHANGED <<index, toWrite, written, pos, present, useMmap, readVars>>
-----------------------------------------------------------------------------
(* Reading.                                                                 *)

HeaderItems == <<Scalar("id", 4), Scalar("version", 4), Scalar("dim", 4), Mark("payload")>>

VectorItems    == <<Scalar("vector_count", 8)>>
QuantizerItems == <<Scalar("sq_type", 1), Scalar("vmin", 4), Scalar("vmax", 4), Mark("check_quantizer")>>
InvertedItems  == <<Scalar("num_vectors", 8), Scalar("n_term", 8), Scalar("posting_width", 8)>>
SeismicItems   == VectorItems \o <<Mark("check_element_size"), Scalar("n_lists", 8)>>
DiskItems      == <<Scalar("num_vectors", 8), Scalar("n_lists", 8), PaddedScalar("section_len", 8)>>

(* Where a payload's reader starts, by the id of its index.                 *)
Payload(id) ==
  CASE id = "INVT" -> InvertedItems
    [] id = "SEIS" -> SeismicItems
    [] id = "SESQ" -> QuantizerItems \o SeismicItems
    [] id = "DSEI" -> DiskItems
    [] id = "DSSQ" -> QuantizerItems \o DiskItems
    [] id = "IDMP" -> <<Scalar("map_size", 8)>>

Repeat(item, n) == [i \in 1 .. n |-> item]

(* What a reader expects after it has read v for the item named what, part  *)
(* by part of the layout; g are the scalars it has read so far.             *)
VectorsNext(what, v, g) ==
  CASE what = "vector_count" -> IF v = 0 THEN <<>>
                                ELSE <<Scalar("dimension", 8), Scalar("element_size", 8),
                                       Array("indptr", v + 1, 8, 8)>>
    [] what = "indptr"       -> <<Array("indices", v, 2, 2),
                                  Array("values", v * g["element_size"], 1, g["element_size"])>>
    [] OTHER                 -> <<>>

ClustersNext(what, v, g) ==
  CASE what = "n_docs"    -> <<Array("docs", v, 4, 4), Scalar("n_offsets", 8)>>
    [] what = "n_offsets" -> <<Array("offsets", v, 4, 4), Scalar("n_clusters", 8),
                               Scalar("summary_width", 8), Scalar("n_terms", 8)>>
    [] what = "n_terms"   -> (IF v = 0 THEN <<>>
                              ELSE <<Array("term_ids", v, 2, 2), Array("term_ptr", v + 1, 4, 4)>>)
                             \o <<Scalar("nnz", 8)>>
    [] what = "nnz"       -> <<Array("csc_cluster", v, 2, 2),
                               Array("csc_value", v * g["summary_width"], 1, g["summary_width"])>>
    [] OTHER              -> <<>>

ListsNext(what, v) == IF what = "n_lists" THEN Repeat(Scalar("n_docs", 8), v) ELSE <<>>

PostingsNext(what, v, g) ==
  CASE what = "posting_width" -> <<Mark("check_element_size")>> \o Repeat(Scalar("list_size", 8), g["n_term"])
                                   \o <<Scalar("scores_size", 8)>>
    [] what = "list_size"     -> <<Array("doc_ids", v, 4, 4), Array("codes", v * 4, 1, 4)>>
    [] what = "scores_size"   -> <<Array("max_term_scores", v, 4, 4), Mark("check_scores")>>
    [] OTHER                  -> <<>>

DiskNext(what, v) ==
  CASE what = "section_len" -> <<Array("section", v, 1, 1), PaddedScalar("count", 8)>>
    [] what = "count"       -> <<Mark("check_locators"), Array("locators", v, 12, 4)>> \o VectorItems
                                 \o <<Mark("check_widths")>>
    [] OTHER                -> <<>>

IdMapNext(what, v) == IF what = "map_size" THEN <<Array("id_map", v, 4, 1)>> \o HeaderItems ELSE <<>>

Then(what, v, g) ==
  VectorsNext(what, v, g) \o ClustersNext(what, v, g) \o ListsNext(what, v)
    \o PostingsNext(what, v, g) \o DiskNext(what, v) \o IdMapNext(what, v)

(* read_index opens the file it is to read; the header comes first.         *)
ReadIndex(mmap) ==
  /\ pc \in {"saved", "refused"}
  /\ pc' = "reading"
  /\ useMmap' = mmap
  /\ todo' = HeaderItems
  /\ pos' = 0
  /\ toWrite' = <<>>
  /\ UNCHANGED <<index, written, present, borrows, eof, got, loaded>>

(* The item at a place; none if no item of that size starts there.          *)
At(place, bytes) == {f \in Range(written) : f.at = place /\ f.bytes = bytes}

(* The reader goes on with v as what it has read.                           *)
Take(item, v) ==
  LET g == Noted(got, item.what, v)
  IN  /\ got' = g
      /\ loaded' = Append(loaded, <<item.what, v>>)
      /\ todo' = Then(item.what, v, g) \o Tail(todo)

Reject == pc' = "rejected" /\ UNCHANGED <<got, loaded, todo>>

(* An item that is there.                                                   *)
ReadItem ==
  /\ pc = "reading"
  /\ todo # <<>>
  /\ LET item == Head(todo)
         at   == AlignUp(pos, item.align)
     IN  /\ item.what \notin Marks
         /\ item.bytes > 0
         /\ ~eof /\ at + item.bytes <= present
         /\ IF At(at, item.bytes) = {}
              THEN pc' = "misread" /\ UNCHANGED <<got, loaded, todo>>
              ELSE \E f \in At(at, item.bytes) : Take(item, f.value) /\ UNCHANGED pc
         /\ pos' = at + item.bytes
  /\ UNCHANGED <<index, toWrite, written, present, useMmap, borrows, eof>>

(* An empty array: only the padding is read, and a cursor does not go past  *)
(* the end for it.                                                          *)
ReadNothing ==
  /\ pc = "reading"
  /\ todo # <<>>
  /\ LET item == Head(todo)
         at   == AlignUp(pos, item.align)
     IN  /\ item.what \notin Marks
         /\ item.bytes = 0
         /\ IF borrows /\ at > present THEN Reject ELSE Take(item, NoValue) /\ UNCHANGED pc
         /\ pos' = at
  /\ UNCHANGED <<index, toWrite, written, present, useMmap, borrows, eof>>

(* An item that is not there, or not all of it.  A cursor and read_owned    *)
(* throw.  A copying read of a scalar, and of the id map, is not looked at: *)
(* a scalar keeps its default or, if some of its bytes were there, has got  *)
(* its (small) value from them.                                             *)
ReadShort ==
  /\ pc = "reading"
  /\ todo # <<>>
  /\ LET item == Head(todo)
         at   == AlignUp(pos, item.align)
         part == IF ~eof /\ at < present
                   THEN {f.value : f \in At(at, item.bytes)} ELSE {}
     IN  /\ item.bytes > 0
         /\ eof \/ at + item.bytes > present
         /\ IF borrows \/ (item.array /\ item.what # "id_map")
              THEN Reject
              ELSE /\ UNCHANGED pc
                   /\ IF item.array THEN Take(item, NoValue)
                      ELSE \E v \in part \union {Default(item.what)} : Take(item, v)
  /\ eof' = TRUE
  /\ UNCHANGED <<index, toWrite, written, pos, present, useMmap, borrows>>

Mappable  == {"INVT", "SEIS", "SESQ", "DSEI", "DSSQ"}
Version   == 1   \* every type's format_version
MappedOnly == {"DSEI", "DSSQ"}

(* read_index between a header and its payload: make_index, the version,    *)
(* and how to read: in place if asked to and this type can -- also inside   *)
(* an IDMapIndex, which cannot itself.                                      *)
ChooseReader ==
  /\ pc = "reading"
  /\ todo # <<>> /\ Head(todo).what = "payload"
  /\ LET id   == got["id"]
         maps == useMmap /\ id \in Mappable
     IN  IF id \notin Writable \/ got["version"] # Version \/ (id \in MappedOnly /\ ~maps)
           THEN Reject /\ UNCHANGED borrows
           ELSE /\ borrows' = maps
                /\ todo' = Payload(id) \o Tail(todo)
                /\ UNCHANGED <<pc, got, loaded>>
  /\ UNCHANGED <<index, toWrite, written, pos, present, useMmap, eof>>

(* What the payload's reader checks of the numbers it has read.             *)
ElementSizeFits ==
  CASE got["id"] = "INVT" -> /\ got["posting_width"] = 4
                             /\ borrows => got["n_term"] <= (present - pos) \div 8
    [] got["id"] = "SEIS" -> got["vector_count"] > 0 => got["element_size"] = 4
    [] got["id"] = "SESQ" -> got["vector_count"] > 0 => got["element_size"] = got["sq_type"] + 1

(* quantizer_from_file, make_scalar_quantizer: a type there is, and the     *)
(* constructor's check of the range.                                        *)
QuantizerFits == got["sq_type"] \in {0, 1} /\ got["vmax"] > got["vmin"]

(* Every cluster has its block. *)
HasBlocks == \E i \in DOMAIN loaded : loaded[i][1] = "n_clusters" /\ loaded[i][2] > 0

(* validate_mapped_payload: the blocks, if there are any, and the summaries *)
(* of each list that has some are as wide as the quantizer's codes.         *)
WidthsFit ==
  got["id"] = "DSSQ" =>
    \A i \in DOMAIN loaded :
      /\ loaded[i][1] = "section" /\ HasBlocks => loaded[i][2] = got["sq_type"] + 1
      /\ loaded[i][1] = "summary_width" /\ loaded[i - 1][2] > 0 =>
           loaded[i][2] = got["sq_type"] + 1

(* Mutated: the disk index takes a summary's width to be the quantizer's    *)
(* though its list has none.                                                *)
PassesOnlyFullLists(check) ==
  CASE check = "check_quantizer"    -> QuantizerFits
    [] check = "check_element_size" -> ElementSizeFits
    [] check = "check_scores"       -> got["scores_size"] = got["n_term"]
    [] check = "check_locators"     -> got["count"] = got["num_vectors"]
    [] check = "check_widths"       ->
         got["id"] = "DSSQ" =>
           \A i \in DOMAIN loaded :
             loaded[i][1] = "summary_width" => loaded[i][2] = got["sq_type"] + 1

(* Mutated: scores may be missing. *)
PassesAnyScores(check) ==
  CASE check = "check_quantizer"    -> QuantizerFits
    [] check = "check_element_size" -> ElementSizeFits
    [] check = "check_scores"       -> TRUE
    [] check = "check_locators"     -> got["count"] = got["num_vectors"]
    [] check = "check_widths"       -> WidthsFit

Passes(check) ==
  CASE check = "check_quantizer"    -> QuantizerFits
    [] check = "check_element_size" -> ElementSizeFits
    [] check = "check_scores"       -> got["scores_size"] = got["n_term"]
    [] check = "check_locators"     -> got["count"] = got["num_vectors"]
    [] check = "check_widths"       -> WidthsFit

Check ==
  /\ pc = "reading"
  /\ todo # <<>> /\ Head(todo).what \in Marks \ {"payload"}
  /\ IF Passes(Head(todo).what)
       THEN todo' = Tail(todo) /\ UNCHANGED <<pc, got, loaded>>
       ELSE Reject
  /\ UNCHANGED <<index, toWrite, written, pos, present, useMmap, borrows, eof>>

ReadDone ==
  /\ pc = "reading"
  /\ todo = <<>>
  /\ pc' = "loaded"
  /\ UNCHANGED <<index, toWrite, written, pos, present, useMmap, readVars>>

FileNext ==
  \/ Open \/ WriteItem \/ Stop \/ Close
  \/ \E mmap \in BOOLEAN : ReadIndex(mmap)
  \/ ReadItem \/ ReadNothing \/ ReadShort
  \/ ChooseReader \/ Check \/ ReadDone

FileSpec == FileInit /\ [][FileNext]_fileVars
-----------------------------------------------------------------------------
(* The index whose payload it is.                                           *)
Inner == IF index.id = "IDMP" THEN index.delegate ELSE index

Supported == index.version = Version /\ Inner.version = Version

(* What was read is the index that was saved: the payloads, and the lists   *)
(* and arrays in them, one by one.                                          *)
AsSaved ==
  /\ index.id \in Writable
  /\ loaded = [i \in DOMAIN Items(index) |-> <<Items(index)[i].what, Items(index)[i].value>>]

(* The file is all of the index.                                            *)
Whole ==
  /\ index.id \in Writable /\ pc \notin {"idle", "writing"}
  /\ Len(written) = Len(Items(index))
  /\ present = Last(written).at + Last(written).bytes

(* "an empty array must consume the same bytes on both sides or every later *)
(* offset shifts" (io/align.h:77-80), and both readers read what the writer *)
(* wrote: a file that is whole loads, item by item as saved, whether copied *)
(* or mapped, alone or inside an IDMapIndex.                                *)
RoundTrip ==
  /\ pc # "misread"
  /\ Whole /\ Supported =>
       /\ pc = "rejected" => Inner.id \in MappedOnly /\ ~useMmap
       /\ pc = "loaded" => AsSaved

(* A save that stopped half-way has destroyed the file before it; what it   *)
(* leaves is never taken for an index by a mapped read, nor by a copying    *)
(* read of an inverted index -- wherever it ends, within an item, between   *)
(* two, in the header of a delegate -- and neither is a file of another     *)
(* version, outside or inside.                                              *)
WholeOrRejected ==
  pc = "loaded" =>
    /\ Supported
    /\ AsSaved \/ (~useMmap /\ Inner.id \in {"SEIS", "SESQ"})

FileTypeOK ==
  /\ pc \in {"idle", "writing", "saved", "refused", "reading", "loaded", "rejected", "misread"}
  /\ index \in Indexes
  /\ pos \in Nat /\ present \in Nat
  /\ borrows => useMmap
  /\ \A i \in DOMAIN written : i > 1 => written[i].at >= written[i - 1].at + written[i - 1].bytes
  /\ \A i \in DOMAIN todo : todo[i].bytes \in Nat
=============================================================================
