---------------------------- MODULE NativeCorpus ----------------------------
(***************************************************************************)
(* How a corpus reaches an index: read from an interchange file and copied *)
(* (nsparse/index.cpp), or converted to a native file                      *)
(* (nsparse/utils/csr_layout.cpp) that the index maps and borrows from     *)
(* (nsparse/mmap_index.h, nsparse/sparse_vectors.cpp).                     *)
(*                                                                         *)
(* A file is a byte count and the cells written to it, each at its offset; *)
(* a cell not wholly below the byte count is not there.  The conversion    *)
(* works beside the index, hands its arrays to a buffered stream one by    *)
(* one, and may stop at every step.  A native file that is mapped is       *)
(* replaced by a new file, never rewritten under the mapping: nothing in   *)
(* the code could keep a caller from that.                                 *)
(***************************************************************************)
EXTENDS Integers, Sequences, SequencesExt

CONSTANTS
  Inputs,     \* interchange files: their header, arrays and size
  Dim,        \* dimension_
  TermMax,    \* the largest term_t
  Chunk,      \* kChunkElements
  Widths,     \* code_element_size() of the index types considered
  MaxBatches  \* bound: corpora copied into one index

FloatBytes == 4
TermBytes == 2
OffsetBytes == 8
HeaderBytes == 3 * 8

ASSUME SizesAssumption ==
  /\ Dim \in Nat \ {0} /\ TermMax \in Nat /\ Chunk \in Nat \ {0} /\ MaxBatches \in Nat
  /\ Widths \subseteq {1, 2, FloatBytes}
ASSUME InputsAssumption ==
  \A c \in Inputs :
    /\ c.rows \in Int /\ c.cols \in Int /\ c.nnz \in Int /\ c.size \in Nat
    /\ c.indptr \in Seq(Int) /\ c.indices \in Seq(Int) /\ c.values \in Seq(Int)

VARIABLES
  width,         \* code_element_size() of the index
  conv,          \* the conversion: its input, where it is, and elements done
  native,        \* the native file, as far as the stream was handed it
  csr_mapping_,  \* the native file the index maps
  vectors_,      \* the index's rows, owned or borrowed
  accepted       \* the corpora the index took, to compare

vars == <<width, conv, native, csr_mapping_, vectors_, accepted>>

NoFile == [written |-> 0, bytes |-> 0, cells |-> {}, source |-> <<>>, width |-> 0]
NoRows == [held |-> "none", indptr |-> <<>>, indices |-> <<>>, values |-> <<>>]
-----------------------------------------------------------------------------
(* The two layouts.                                                         *)

padding(pos) == (FloatBytes - (pos % FloatBytes)) % FloatBytes

interchange_file_size(rows, nnz) ==
  HeaderBytes + (rows + 1) * 8 + nnz * 4 + nnz * FloatBytes

native_values_offset(rows, nnz) ==
  LET unaligned == HeaderBytes + (rows + 1) * OffsetBytes + nnz * TermBytes
  IN  unaligned + padding(unaligned)

native_file_size(rows, nnz, w) == native_values_offset(rows, nnz) + nnz * w

HeaderValid(c) == c.rows > 0 /\ c.cols > 0 /\ c.nnz >= 0

(* What both readers of an interchange file ask of it before its arrays.    *)
Interchange(c) == HeaderValid(c) /\ c.size = interchange_file_size(c.rows, c.nnz)

IndptrConsistent(c) == c.indptr[1] = 0 /\ c.indptr[c.rows + 1] = c.nnz

(* A file of the size its header calls for has that many of everything.     *)
ASSUME FilesAssumption ==
  \A c \in Inputs : Interchange(c) =>
    Len(c.indptr) = c.rows + 1 /\ Len(c.indices) = c.nnz /\ Len(c.values) = c.nnz

(* A term the native width holds and the matrix has a column for.           *)
TermFits(c, t) == 0 <= t /\ t < c.cols /\ t <= TermMax

Monotonic(indptr) == \A i \in 2 .. Len(indptr) : indptr[i - 1] <= indptr[i]

(* Writing an array to the stream, and reading one back from what is there. *)
Torn == -1

Put(f, array, w) ==
  [f EXCEPT
     !.written = @ + Len(array) * w,
     !.cells = @ \union {[at |-> f.written + (i - 1) * w, bytes |-> w, value |-> array[i]] :
                           i \in 1 .. Len(array)}]

ReadAt(f, at, w) ==
  LET found == {x \in f.cells : x.at = at /\ x.bytes = w /\ at + w <= f.bytes}
  IN  IF found = {} THEN Torn ELSE (CHOOSE x \in found : TRUE).value

ReadArray(f, at, count, w) == [i \in 1 .. count |-> ReadAt(f, at + (i - 1) * w, w)]
-----------------------------------------------------------------------------
Init ==
  /\ width \in Widths
  /\ conv = [at |-> "idle", source |-> <<>>, done |-> 0]
  /\ native = NoFile /\ csr_mapping_ = NoFile
  /\ vectors_ = NoRows
  /\ accepted = <<>>

indexVars == <<width, csr_mapping_, vectors_, accepted>>
-----------------------------------------------------------------------------
(* convert().                                                               *)

Converting(step) == conv.at = step
Source == conv.source

Goto(step) == conv' = [conv EXCEPT !.at = step, !.done = 0]

(* The header is checked, the target emptied, and the header copied.        *)
Open(c) ==
  /\ Converting("idle")
  /\ Interchange(c)
  /\ conv' = [at |-> "indptr", source |-> c, done |-> 0]
  /\ native' = Put([NoFile EXCEPT !.source = c, !.width = FloatBytes],
                   <<<<c.rows, c.cols, c.nnz>>>>, HeaderBytes)
  /\ UNCHANGED indexVars

WriteIndptr ==
  /\ Converting("indptr")
  /\ IndptrConsistent(Source)
  /\ \A i \in DOMAIN Source.indptr : Source.indptr[i] >= 0
  /\ native' = Put(native, Source.indptr, OffsetBytes)
  /\ Goto("indices")
  /\ UNCHANGED indexVars

NextChunk(array) ==
  SubSeq(array, conv.done + 1, IF conv.done + Chunk < Len(array) THEN conv.done + Chunk ELSE Len(array))

(* Mutated: only the width of a term is checked, not its column. *)
WriteIndicesNarrowed ==
  /\ Converting("indices") /\ conv.done < Source.nnz
  /\ LET wide == NextChunk(Source.indices)
     IN  /\ \A i \in DOMAIN wide : 0 <= wide[i] /\ wide[i] <= TermMax
         /\ native' = Put(native, wide, TermBytes)
         /\ conv' = [conv EXCEPT !.done = @ + Len(wide)]
  /\ UNCHANGED indexVars

WriteIndices ==
  /\ Converting("indices") /\ conv.done < Source.nnz
  /\ LET wide == NextChunk(Source.indices)
     IN  /\ \A i \in DOMAIN wide : TermFits(Source, wide[i])
         /\ native' = Put(native, wide, TermBytes)
         /\ conv' = [conv EXCEPT !.done = @ + Len(wide)]
  /\ UNCHANGED indexVars

WritePadding ==
  /\ Converting("indices") /\ conv.done = Source.nnz
  /\ native' = [native EXCEPT !.written = @ + padding(@)]
  /\ Goto("values")
  /\ UNCHANGED indexVars

WriteValues ==
  /\ Converting("values") /\ conv.done < Source.nnz
  /\ LET values == NextChunk(Source.values)
     IN  /\ native' = Put(native, values, FloatBytes)
         /\ conv' = [conv EXCEPT !.done = @ + Len(values)]
  /\ UNCHANGED indexVars

Finish ==
  /\ Converting("values") /\ conv.done = Source.nnz
  /\ native' = [native EXCEPT !.bytes = native.written]
  /\ conv' = [at |-> "idle", source |-> <<>>, done |-> 0]
  /\ UNCHANGED indexVars

(* The stream writes out as much of its buffer as it pleases.               *)
Drain ==
  /\ ~Converting("idle")
  /\ \E n \in native.bytes + 1 .. native.written : native' = [native EXCEPT !.bytes = n]
  /\ UNCHANGED <<conv, indexVars>>

(* A check fails, a read or a write comes short, or the process dies: what  *)
(* reached the file stays there.                                            *)
Abandon ==
  /\ ~Converting("idle")
  /\ conv' = [at |-> "idle", source |-> <<>>, done |-> 0]
  /\ native' = [native EXCEPT !.written = native.bytes,
                              !.cells = {x \in @ : x.at + x.bytes <= native.bytes}]
  /\ UNCHANGED indexVars

(* A quantizing index maps codes, which its caller writes.                  *)
WriteCodes(c, w) ==
  /\ Converting("idle")
  /\ Interchange(c) /\ IndptrConsistent(c) /\ Monotonic(c.indptr)
  /\ \A i \in DOMAIN c.indices : TermFits(c, c.indices[i])
  /\ LET head    == Put([NoFile EXCEPT !.source = c, !.width = w],
                        <<<<c.rows, c.cols, c.nnz>>>>, HeaderBytes)
         indices == Put(Put(head, c.indptr, OffsetBytes), c.indices, TermBytes)
         codes   == Put([indices EXCEPT !.written = native_values_offset(c.rows, c.nnz)],
                        c.values, w)
     IN  native' = [codes EXCEPT !.bytes = codes.written]
  /\ UNCHANGED <<conv, indexVars>>

(* The caller gives the index the interchange file itself to map.  The low  *)
(* half of each 4-byte term is a cell; the high halves, 0 where the terms   *)
(* fit, lie where a native file has padding, or in a file whose size is not *)
(* a native one's, and no reader of this file comes to look at them.        *)
OfferInterchange(c) ==
  /\ Converting("idle")
  /\ Interchange(c) /\ IndptrConsistent(c) /\ Monotonic(c.indptr)
  /\ \A i \in DOMAIN c.indices : TermFits(c, c.indices[i])
  /\ LET head    == Put([NoFile EXCEPT !.source = c, !.width = FloatBytes],
                        <<<<c.rows, c.cols, c.nnz>>>>, HeaderBytes)
         offsets == Put(head, c.indptr, OffsetBytes)
         halves  == {[at |-> offsets.written + (i - 1) * 4, bytes |-> TermBytes,
                      value |-> c.indices[i]] : i \in 1 .. c.nnz}
         values  == Put([offsets EXCEPT !.written = @ + c.nnz * 4, !.cells = @ \union halves],
                        c.values, FloatBytes)
     IN  native' = [values EXCEPT !.bytes = values.written]
  /\ UNCHANGED <<conv, indexVars>>
-----------------------------------------------------------------------------
(* The index.                                                               *)

(* Growing a Buf means taking the vector it owns: an empty one yields an    *)
(* empty vector, a borrowed one throws.                                     *)
Growable == vectors_.held # "borrowed"

(* Mutated: the values stored before are lost. *)
AppendedOverValues(c) ==
  LET stored == IF vectors_.indptr = <<>> THEN <<0>> ELSE vectors_.indptr
  IN  [held |-> "owned",
       indptr |-> stored \o [i \in 1 .. Len(c.indptr) - 1 |-> c.indptr[i + 1] + Last(stored)],
       indices |-> vectors_.indices \o c.indices,
       values |-> c.values]

(* add_vectors(): the batch's offsets are rebased onto what is stored.      *)
Appended(c) ==
  LET stored == IF vectors_.indptr = <<>> THEN <<0>> ELSE vectors_.indptr
  IN  [held |-> "owned",
       indptr |-> stored \o [i \in 1 .. Len(c.indptr) - 1 |-> c.indptr[i + 1] + Last(stored)],
       indices |-> vectors_.indices \o c.indices,
       values |-> vectors_.values \o c.values]

(* Index::read_csr: everything but the order of the offsets is checked, and *)
(* the arrays go through add(), which refuses those of a matrix of empty    *)
(* rows (an empty vector has no address).                                   *)
Copy(c) ==
  /\ Len(accepted) < MaxBatches
  /\ Interchange(c) /\ c.cols <= Dim
  /\ IndptrConsistent(c)
  /\ \A i \in DOMAIN c.indices : TermFits(c, c.indices[i])
  /\ c.nnz > 0
  /\ Growable
  /\ vectors_' = Appended(c)
  /\ accepted' = Append(accepted, c)
  /\ UNCHANGED <<width, conv, native, csr_mapping_>>

(* The arrays read_mcsr borrows from a file with a header of h.             *)
Borrowed(f, h) ==
  LET rows == h[1]
      nnz  == h[3]
  IN  [held |-> "borrowed",
       indptr |-> ReadArray(f, HeaderBytes, rows + 1, OffsetBytes),
       indices |-> ReadArray(f, HeaderBytes + (rows + 1) * OffsetBytes, nnz, TermBytes),
       values |-> ReadArray(f, native_values_offset(rows, nnz), nnz, width)]

(* What map_vectors() asks of them.                                         *)
Mappable(v) ==
  /\ Len(v.indices) = Len(v.values)
  /\ v.indptr[1] = 0
  /\ Monotonic(v.indptr)
  /\ Last(v.indptr) = Len(v.indices)

(* Mutated: a file that is longer than it need be passes. *)
MapAtLeast ==
  /\ vectors_ = NoRows
  /\ native.bytes >= HeaderBytes
  /\ LET h == ReadAt(native, 0, HeaderBytes)
         v == Borrowed(native, h)
     IN  /\ h[1] > 0 /\ h[2] \in 1 .. Dim /\ h[3] >= 0
         /\ native.bytes >= native_file_size(h[1], h[3], width)
         /\ Mappable(v)
         /\ vectors_' = v
         /\ accepted' = <<native.source>>
  /\ csr_mapping_' = native
  /\ UNCHANGED <<width, conv, native>>

(* read_mcsr: terms are not looked at; the mapping is kept last.            *)
Map ==
  /\ vectors_ = NoRows
  /\ native.bytes >= HeaderBytes
  /\ LET h == ReadAt(native, 0, HeaderBytes)
         v == Borrowed(native, h)
     IN  /\ h[1] > 0 /\ h[2] \in 1 .. Dim /\ h[3] >= 0
         /\ native.bytes = native_file_size(h[1], h[3], width)
         /\ Mappable(v)
         /\ vectors_' = v
         /\ accepted' = <<native.source>>
  /\ csr_mapping_' = native
  /\ UNCHANGED <<width, conv, native>>

(* InvertedIndex::build: the lists own what they are made of, and the rows  *)
(* and the mapping under them are given up.                                 *)
BuildInverted ==
  /\ width = FloatBytes
  /\ vectors_ # NoRows
  /\ vectors_' = NoRows
  /\ csr_mapping_' = NoFile
  /\ accepted' = <<>>
  /\ UNCHANGED <<width, conv, native>>

Next ==
  \/ \E c \in Inputs : Open(c) \/ Copy(c) \/ OfferInterchange(c)
  \/ \E c \in Inputs, w \in Widths \ {FloatBytes} : WriteCodes(c, w)
  \/ WriteIndptr \/ WriteIndices \/ WritePadding \/ WriteValues \/ Finish
  \/ Drain \/ Abandon
  \/ Map \/ BuildInverted

Spec == Init /\ [][Next]_vars
-----------------------------------------------------------------------------
Apart(x, y) == x.at + x.bytes <= y.at \/ y.at + y.bytes <= x.at

(* The conversion is at one of its steps with a file of the set, and hands  *)
(* the stream no more than the layout has room for; the file has nothing    *)
(* past what the stream was handed, no two elements in one place, and, with *)
(* nobody writing it, nothing that has not reached the disk; each term held *)
(* has its value (csr_layout.cpp:96-165, sparse_vectors.cpp).               *)
TypeOK ==
  /\ width \in Widths
  /\ conv.at \in {"idle", "indptr", "indices", "values"}
  /\ \/ Converting("idle") /\ native.written = native.bytes
     \/ /\ Source \in Inputs /\ conv.done <= Source.nnz
        /\ native.bytes <= native.written
        /\ native.written <= native_file_size(Source.rows, Source.nnz, FloatBytes)
  /\ \A x \in native.cells :
       /\ x.at + x.bytes <= native.written
       /\ \A y \in native.cells : x # y => Apart(x, y)
  /\ vectors_.held \in {"none", "owned", "borrowed"}
  /\ Len(vectors_.indices) = Len(vectors_.values)
  /\ accepted \in Seq(Inputs)

Row(v, r) ==
  [i \in 1 .. v.indptr[r + 1] - v.indptr[r] |->
     <<v.indices[v.indptr[r] + i], v.values[v.indptr[r] + i]>>]

Rows(v) == [r \in 1 .. Len(v.indptr) - 1 |-> Row(v, r)]

(* A corpus that is copied must have offsets that never fall: read_csr does *)
(* not look.                                                                *)
Ordered ==
  vectors_.held = "owned" => \A i \in DOMAIN accepted : Monotonic(accepted[i].indptr)

(* Is what is mapped all its writer meant to write?  A float corpus cut     *)
(* where its codes would end has the size of a corpus of codes.             *)
Whole == csr_mapping_.bytes = native_file_size(csr_mapping_.source.rows,
                                               csr_mapping_.source.nnz, csr_mapping_.width)

(* The index holds the rows of the files it took, in their order, nothing   *)
(* else and nothing twice: batches join without disturbing each other; an   *)
(* abandoned or unfinished conversion is never mapped by an index of floats;*)
(* and a whole file, of the index's width or another, native or interchange,*)
(* is turned away or gives its writer's rows, for one of the wrong kind has *)
(* another size unless it has at most one entry, and then the same bytes    *)
(* (mmap_index.h:124-140, csr_layout.cpp:96-165).                           *)
RowsAreTheCallers ==
  /\ vectors_.held = "borrowed" /\ width = FloatBytes => Whole
  /\ Ordered /\ (vectors_.held = "borrowed" => Whole) =>
       Rows(vectors_) = FlattenSeq([i \in DOMAIN accepted |-> Rows(accepted[i])])

(* Borrowed arrays have their mapping, and nothing else keeps one           *)
(* (mmap_index.h:56-62, inverted_index.cpp:267-270).                        *)
MappingIsHeld == vectors_.held = "borrowed" <=> csr_mapping_ # NoFile

(* What search relies on without looking: rows lie within the arrays, each  *)
(* term is a dimension of the index, though a mapped file's terms are not   *)
(* looked at (mmap_index.h:89-91), and a borrowed array has its mapping.    *)
SafeToSearch ==
  Ordered =>
    /\ Monotonic(vectors_.indptr)
    /\ vectors_ # NoRows => Last(vectors_.indptr) = Len(vectors_.indices)
    /\ \A i \in DOMAIN vectors_.indices : vectors_.indices[i] \in 0 .. Dim - 1
    /\ MappingIsHeld
=============================================================================
