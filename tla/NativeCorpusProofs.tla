------------------------- MODULE NativeCorpusProofs -------------------------
(***************************************************************************)
(* For every set of files, dimension, chunk size and width: a native file  *)
(* is at all times the beginning of what its input calls for, whose terms  *)
(* were checked before they were written; what is mapped reads back as it; *)
(* and the rows an index holds are those of the corpora it took.  An       *)
(* interchange file offered in its place is that very file, or has a size  *)
(* no reader of its header takes.                                          *)
(*                                                                         *)
(* The layout of a file is a set of cells, and the stream only ever holds  *)
(* those that end by the number of bytes it was handed (File).  No two end *)
(* together, so a cell that is read back is the one that was written.      *)
(***************************************************************************)
EXTENDS NativeCorpus, DataTheorems

(* What a native file of c holds, with values of w bytes, were it whole. *)
TermsAt(c)  == HeaderBytes + (c.rows + 1) * OffsetBytes
ValuesAt(c) == native_values_offset(c.rows, c.nnz)

Cell(a, b, v) == [at |-> a, bytes |-> b, value |-> v]
End(x)        == x.at + x.bytes

HeaderCell(c)      == Cell(0, HeaderBytes, <<c.rows, c.cols, c.nnz>>)
OffsetCell(c, i)   == Cell(HeaderBytes + (i - 1) * OffsetBytes, OffsetBytes, c.indptr[i])
TermCell(c, i)     == Cell(TermsAt(c) + (i - 1) * TermBytes, TermBytes, c.indices[i])
ValueCell(c, w, i) == Cell(ValuesAt(c) + (i - 1) * w, w, c.values[i])

Layout(c, w) ==
  {HeaderCell(c)} \union {OffsetCell(c, i) : i \in 1 .. c.rows + 1}
    \union {TermCell(c, i) : i \in 1 .. c.nnz} \union {ValueCell(c, w, i) : i \in 1 .. c.nnz}

(* The cells wholly below n. *)
Below(L, n) == {x \in L : End(x) <= n}

(* Of a corpus a reader or converter takes: its header's counts are its     *)
(* arrays' lengths.                                                         *)
Corpus(c) ==
  /\ c.rows \in Nat \ {0} /\ c.cols \in Nat \ {0} /\ c.nnz \in Nat
  /\ c.indptr \in Seq(Int) /\ c.indices \in Seq(Int) /\ c.values \in Seq(Int)
  /\ Len(c.indptr) = c.rows + 1 /\ Len(c.indices) = c.nnz /\ Len(c.values) = c.nnz

LEMMA TakenIsACorpus == ASSUME NEW c \in Inputs, Interchange(c) PROVE Corpus(c)
  BY InputsAssumption, FilesAssumption DEF Corpus, Interchange, HeaderValid

(* A file for c, written up to n, with b bytes of it on disk. *)
File(c, w, n, b) ==
  [written |-> n, bytes |-> b, cells |-> Below(Layout(c, w), n), source |-> c, width |-> w]

(* A native file is one of these, and there is no term in it that was not   *)
(* checked.                                                                 *)
FileInv(f) ==
  /\ f = File(f.source, f.width, f.written, f.bytes)
  /\ f.source \in Inputs /\ Corpus(f.source)
  /\ f.width \in {1, 2, 4}
  /\ f.bytes \in Nat /\ f.written \in Nat /\ f.bytes <= f.written
  /\ f.written <= ValuesAt(f.source) + f.source.nnz * f.width
  /\ \A i \in 1 .. f.source.nnz :
       TermsAt(f.source) + i * 2 <= f.written => TermFits(f.source, f.source.indices[i])

(* Header, offsets, terms that start s bytes apart, and values of w bytes   *)
(* from v on: either layout.                                                *)
Spread(c, s, v, w) ==
  {HeaderCell(c)} \union {OffsetCell(c, i) : i \in 1 .. c.rows + 1}
    \union {Cell(TermsAt(c) + (i - 1) * s, TermBytes, c.indices[i]) : i \in 1 .. c.nnz}
    \union {Cell(v + (i - 1) * w, w, c.values[i]) : i \in 1 .. c.nnz}

FloatsAt(c) == TermsAt(c) + c.nnz * 4

(* An interchange file that is not a native one: its header is all a reader *)
(* needs to turn it away.                                                   *)
InterchangeInv(f) ==
  LET c == f.source
  IN  /\ c \in Inputs /\ Corpus(c) /\ c.nnz >= 2
      /\ f.bytes = FloatsAt(c) + c.nnz * 4 /\ f.written = f.bytes
      /\ HeaderCell(c) \in f.cells /\ f.cells \subseteq Spread(c, 4, FloatsAt(c), 4)

(* Where the stream is, at each step of a conversion. *)
ConvInv ==
  /\ Converting("idle") => native.written = native.bytes
  /\ ~Converting("idle") =>
       /\ FileInv(native) /\ native.width = 4 /\ native.source = Source
       /\ conv = [at |-> conv.at, source |-> Source, done |-> conv.done]
       /\ conv.done \in 0 .. Source.nnz
       /\ \/ Converting("indptr") /\ native.written = 24
          \/ Converting("indices") /\ native.written = TermsAt(Source) + conv.done * 2
          \/ Converting("values") /\ native.written = ValuesAt(Source) + conv.done * 4

NativeInv == (native = NoFile \/ FileInv(native) \/ InterchangeInv(native)) /\ ConvInv

(* What the rows rely on, however they came: offsets over arrays of terms   *)
(* the dimension covers.                                                    *)
Stored(v) ==
  /\ v.indptr \in Seq(Int) /\ Len(v.indptr) \in Nat \ {0} /\ v.indptr[1] = 0
  /\ v.indices \in Seq(Int) /\ Len(v.values) = Len(v.indices)
  /\ Last(v.indptr) = Len(v.indices)
  /\ \A i \in 1 .. Len(v.indices) : v.indices[i] \in 0 .. Dim - 1

Contents == FlattenSeq([i \in DOMAIN accepted |-> Rows(accepted[i])])

OwnedInv ==
  /\ vectors_.held = "owned" /\ csr_mapping_ = NoFile
  /\ Stored(vectors_) /\ vectors_.values \in Seq(Int)
  /\ Ordered => Monotonic(vectors_.indptr) /\ Rows(vectors_) = Contents

BorrowedInv ==
  LET c == csr_mapping_.source
  IN  /\ vectors_.held = "borrowed" /\ accepted = <<c>>
      /\ FileInv(csr_mapping_) /\ csr_mapping_.bytes >= 24
      /\ Stored(vectors_) /\ Monotonic(vectors_.indptr)
      /\ vectors_.indptr = c.indptr /\ vectors_.indices = c.indices
      /\ width = 4 => Whole
      /\ Whole => vectors_.values = c.values

VectorsInv ==
  /\ width \in Widths /\ accepted \in Seq(Inputs)
  /\ \/ vectors_ = NoRows /\ csr_mapping_ = NoFile /\ accepted = <<>>
     \/ OwnedInv
     \/ BorrowedInv

IInv == NativeInv /\ VectorsInv
-----------------------------------------------------------------------------
(* Writing the native file. *)

(* The arrays follow one another; the padding is of three bytes at most. *)
LEMMA Geometry ==
  ASSUME NEW c, Corpus(c)
  PROVE  /\ TermsAt(c) = 24 + (c.rows + 1) * 8 /\ TermsAt(c) \in Nat
         /\ ValuesAt(c) \in Nat
         /\ TermsAt(c) + c.nnz * 2 <= ValuesAt(c) /\ ValuesAt(c) <= TermsAt(c) + c.nnz * 2 + 3
         /\ \A pos : pos = TermsAt(c) + c.nnz * 2 => pos + padding(pos) = ValuesAt(c)
         /\ \A w : native_file_size(c.rows, c.nnz, w) = ValuesAt(c) + c.nnz * w
  <1>1. c.rows \in Nat /\ c.nnz \in Nat
    BY DEF Corpus
  <1>2. TermsAt(c) = 24 + (c.rows + 1) * 8 /\ TermsAt(c) \in Nat
    BY <1>1 DEF TermsAt, HeaderBytes, OffsetBytes
  <1> DEFINE u == TermsAt(c) + c.nnz * 2
  <1>3. u \in Nat
    BY <1>1, <1>2
  <1>4. ValuesAt(c) = u + padding(u)
    BY <1>1 DEF ValuesAt, native_values_offset, TermsAt, TermBytes, OffsetBytes, HeaderBytes
  <1> HIDE DEF u
  <1>5. padding(u) \in 0 .. 3
    BY <1>3 DEF padding, FloatBytes
  <1>6. u <= ValuesAt(c) /\ ValuesAt(c) <= u + 3 /\ ValuesAt(c) \in Nat
    BY <1>3, <1>4, <1>5
  <1>7. \A w : native_file_size(c.rows, c.nnz, w) = ValuesAt(c) + c.nnz * w
    BY DEF native_file_size, ValuesAt
  <1> QED
    BY <1>2, <1>4, <1>6, <1>7 DEF u

(* Where the cells end. *)
LEMMA Ends ==
  ASSUME NEW c, NEW w \in {1, 2, 4}, Corpus(c)
  PROVE  /\ End(HeaderCell(c)) = 24
         /\ \A i \in 1 .. c.rows + 1 : OffsetCell(c, i).at = 16 + i * 8 /\ End(OffsetCell(c, i)) = 24 + i * 8
         /\ \A i \in 1 .. c.nnz : TermCell(c, i).at = TermsAt(c) + i * 2 - 2 /\ End(TermCell(c, i)) = TermsAt(c) + i * 2
         /\ \A i \in 1 .. c.nnz : ValueCell(c, w, i).at = ValuesAt(c) + (i - 1) * w
                                    /\ End(ValueCell(c, w, i)) = ValuesAt(c) + i * w
  <1>1. c.rows \in Nat /\ c.nnz \in Nat /\ TermsAt(c) \in Nat /\ ValuesAt(c) \in Nat
    BY Geometry DEF Corpus
  <1>2. End(HeaderCell(c)) = 24
    BY DEF End, HeaderCell, Cell, HeaderBytes
  <1>3. ASSUME NEW i \in 1 .. c.rows + 1
        PROVE  OffsetCell(c, i).at = 16 + i * 8 /\ End(OffsetCell(c, i)) = 24 + i * 8
    BY <1>1 DEF End, OffsetCell, Cell, HeaderBytes, OffsetBytes
  <1>4. ASSUME NEW i \in 1 .. c.nnz
        PROVE  TermCell(c, i).at = TermsAt(c) + i * 2 - 2 /\ End(TermCell(c, i)) = TermsAt(c) + i * 2
    BY <1>1 DEF End, TermCell, Cell, TermBytes
  <1>5. ASSUME NEW i \in 1 .. c.nnz
        PROVE  ValueCell(c, w, i).at = ValuesAt(c) + (i - 1) * w
                 /\ End(ValueCell(c, w, i)) = ValuesAt(c) + i * w
    <2>1. End(ValueCell(c, w, i)) = ValuesAt(c) + (i - 1) * w + w
      BY DEF End, ValueCell, Cell
    <2>2. (i - 1) * w + w = i * w
      <3>1. i \in Int
        BY <1>1
      <3>2. CASE w = 1
        BY <3>1, <3>2
      <3>3. CASE w = 2
        BY <3>1, <3>3
      <3>4. CASE w = 4
        BY <3>1, <3>4
      <3> QED
        BY <3>2, <3>3, <3>4
    <2>3. (i - 1) * w \in Int
      BY <1>1
    <2>4. ValuesAt(c) + (i - 1) * w + w = ValuesAt(c) + ((i - 1) * w + w)
      BY <1>1, <2>3
    <2> QED
      BY <2>1, <2>2, <2>4 DEF ValueCell, Cell
  <1> QED
    BY <1>2, <1>3, <1>4, <1>5

(* A cell of the layout is one of the four kinds. *)
LEMMA Kinds ==
  ASSUME NEW c, NEW w, NEW x \in Layout(c, w)
  PROVE  \/ x = HeaderCell(c)
         \/ \E i \in 1 .. c.rows + 1 : x = OffsetCell(c, i)
         \/ \E i \in 1 .. c.nnz : x = TermCell(c, i)
         \/ \E i \in 1 .. c.nnz : x = ValueCell(c, w, i)
  BY DEF Layout

(* Where each kind ends. *)
LEMMA Sections ==
  ASSUME NEW c, NEW w \in {1, 2, 4}, NEW x \in Layout(c, w), Corpus(c)
  PROVE  /\ End(x) \in Nat \ {0}
         /\ \/ x = HeaderCell(c) /\ End(x) = 24
            \/ \E i \in 1 .. c.rows + 1 :
                 x = OffsetCell(c, i) /\ End(x) = 24 + i * 8 /\ End(x) <= TermsAt(c)
            \/ \E i \in 1 .. c.nnz :
                 x = TermCell(c, i) /\ End(x) = TermsAt(c) + i * 2 /\ End(x) <= ValuesAt(c)
            \/ \E i \in 1 .. c.nnz :
                 x = ValueCell(c, w, i) /\ End(x) = ValuesAt(c) + i * w /\ End(x) > ValuesAt(c)
  <1>1. /\ c.rows \in Nat /\ c.nnz \in Nat /\ TermsAt(c) = 24 + (c.rows + 1) * 8
        /\ TermsAt(c) \in Nat /\ ValuesAt(c) \in Nat /\ TermsAt(c) + c.nnz * 2 <= ValuesAt(c)
    BY Geometry DEF Corpus
  <1>2. CASE x = HeaderCell(c)
    <2>1. End(x) = 24
      BY <1>2, Ends
    <2> QED
      BY <1>2, <2>1
  <1>3. ASSUME NEW i \in 1 .. c.rows + 1, x = OffsetCell(c, i)
        PROVE  End(x) = 24 + i * 8 /\ End(x) <= TermsAt(c) /\ End(x) \in Nat \ {0}
    <2>1. End(x) = 24 + i * 8
      BY <1>3, Ends
    <2> QED
      BY <1>1, <2>1
  <1>4. ASSUME NEW i \in 1 .. c.nnz, x = TermCell(c, i)
        PROVE  End(x) = TermsAt(c) + i * 2 /\ End(x) <= ValuesAt(c) /\ End(x) \in Nat \ {0}
    <2>1. End(x) = TermsAt(c) + i * 2
      BY <1>4, Ends
    <2> QED
      BY <1>1, <2>1
  <1>5. ASSUME NEW i \in 1 .. c.nnz, x = ValueCell(c, w, i)
        PROVE  End(x) = ValuesAt(c) + i * w /\ End(x) > ValuesAt(c) /\ End(x) \in Nat \ {0}
    <2>1. End(x) = ValuesAt(c) + i * w
      BY <1>5, Ends
    <2>2. i * w \in Nat /\ i * w > 0
      <3>1. i \in Nat /\ i > 0
        BY <1>1
      <3> QED
        BY <3>1
    <2> QED
      BY <1>1, <2>1, <2>2
  <1> QED
    BY <1>2, <1>3, <1>4, <1>5, Kinds

(* The sizes there are of what is written. *)
Sizes == {1, 2, 4, 8, 24}

(* Where n elements of w bytes that start at m end. *)
After(m, n, w) == m + n * w

(* The n cells of w bytes for array are what a layout has next after m.     *)
Follows(c, v, m, array, n, w) ==
  /\ \A x \in Layout(c, v) : End(x) \in Int
  /\ \A i \in 1 .. n : Cell(m + (i - 1) * w, w, array[i]) \in Layout(c, v)
  /\ \A x \in Layout(c, v) : m < End(x) /\ End(x) <= m + n * w =>
       \E i \in 1 .. n : x = Cell(m + (i - 1) * w, w, array[i])

(* Put writes the part of a layout that comes next. *)
LEMMA PutWrites ==
  ASSUME NEW c, NEW v, NEW m, NEW b, NEW array, NEW n, NEW w,
         m \in Nat, n \in Nat, w \in Sizes, Len(array) = n, Follows(c, v, m, array, n, w)
  PROVE  Put(File(c, v, m, b), array, w) = File(c, v, After(m, n, w), b)
  <1> DEFINE f == File(c, v, m, b)
             L == Layout(c, v)
             old == Below(L, m)
             new == {[at |-> m + (i - 1) * w, bytes |-> w, value |-> array[i]] : i \in 1 .. n}
  <1>1. m + n * w \in Nat /\ n * w \in Nat
    BY DEF Sizes
  <1>2. ASSUME NEW i \in 1 .. n
        PROVE  LET x == Cell(m + (i - 1) * w, w, array[i])
               IN  m < End(x) /\ End(x) <= m + n * w
    <2>1. End(Cell(m + (i - 1) * w, w, array[i])) = m + (i - 1) * w + w
      BY DEF End, Cell
    <2>2. i \in Int /\ 1 <= i /\ i <= n
      OBVIOUS
    <2>3. 0 < (i - 1) * w + w /\ (i - 1) * w + w <= n * w /\ (i - 1) * w \in Int
      <3>1. CASE w = 1
        BY <2>2, <3>1
      <3>2. CASE w = 2
        BY <2>2, <3>2
      <3>3. CASE w = 4
        BY <2>2, <3>3
      <3>4. CASE w = 8
        BY <2>2, <3>4
      <3>5. CASE w = 24
        BY <2>2, <3>5
      <3> QED
        BY <3>1, <3>2, <3>3, <3>4, <3>5 DEF Sizes
    <2> DEFINE q == (i - 1) * w
               p == n * w
    <2>4. /\ End(Cell(m + q, w, array[i])) = m + q + w
          /\ 0 < q + w /\ q + w <= p /\ q \in Int /\ p \in Nat /\ m + p \in Nat /\ w \in Int
      BY <1>1, <2>1, <2>3 DEF Sizes
    <2> HIDE DEF q, p
    <2>5. LET x == Cell(m + q, w, array[i]) IN m < End(x) /\ End(x) <= m + p
      BY <2>4
    <2> QED
      BY <2>5 DEF q, p
  <1>3. Below(L, m + n * w) \subseteq old \union new
    <2> SUFFICES ASSUME NEW x \in L, End(x) <= m + n * w, x \notin old
                 PROVE  x \in new
      BY DEF Below
    <2>1. m < End(x)
      BY DEF Below, Follows
    <2>2. PICK i \in 1 .. n : x = Cell(m + (i - 1) * w, w, array[i])
      BY <2>1 DEF Follows
    <2> QED
      BY <2>2 DEF Cell
  <1>4. old \subseteq Below(L, m + n * w)
    BY <1>1 DEF Below, Follows
  <1>5. new \subseteq Below(L, m + n * w)
    BY <1>2 DEF Below, Cell, Follows
  <1>6. old \union new = Below(L, m + n * w)
    <2> HIDE DEF new, old, L
    <2> QED
      BY <1>3, <1>4, <1>5
  <1>7. Put(f, array, w) = [written |-> m + n * w, bytes |-> b, cells |-> old \union new,
                            source |-> c, width |-> v]
    <2>1. f = [written |-> m, bytes |-> b, cells |-> old, source |-> c, width |-> v]
      BY DEF File
    <2>2. Put(f, array, w) =
            [f EXCEPT !.written = f.written + Len(array) * w,
                      !.cells = f.cells \union {[at |-> f.written + (i - 1) * w, bytes |-> w,
                                                 value |-> array[i]] : i \in 1 .. Len(array)}]
      BY DEF Put
    <2>3. Put(f, array, w) = [f EXCEPT !.written = m + n * w, !.cells = old \union new]
      <3>1. f.written = m /\ f.cells = old
        BY <2>1
      <3> HIDE DEF f
      <3> QED
        BY <2>2, <3>1
    <2> HIDE DEF f, old, new
    <2> QED
      BY <2>1, <2>3
  <1> HIDE DEF new, old, L, f
  <1> QED
    BY <1>6, <1>7 DEF File, f, L, After

(* The arrays as convert() writes them, one after the other. *)
LEMMA PutHeader ==
  ASSUME NEW c, NEW v \in {1, 2, 4}, NEW b, Corpus(c)
  PROVE  Put(File(c, v, 0, b), <<<<c.rows, c.cols, c.nnz>>>>, HeaderBytes) = File(c, v, 24, b)
  <1> DEFINE array == <<<<c.rows, c.cols, c.nnz>>>>
  <1>1. Len(array) = 1 /\ array[1] = <<c.rows, c.cols, c.nnz>>
    OBVIOUS
  <1>2. \A x \in Layout(c, v) : End(x) \in Int
    BY Sections
  <1>3. \A i \in 1 .. 1 : Cell(0 + (i - 1) * 24, 24, array[i]) = HeaderCell(c)
    BY <1>1 DEF HeaderCell, HeaderBytes
  <1>4. HeaderCell(c) \in Layout(c, v)
    BY DEF Layout
  <1>5. ASSUME NEW x \in Layout(c, v), End(x) <= 24
        PROVE  x = HeaderCell(c)
    <2>1. TermsAt(c) = 24 + (c.rows + 1) * 8 /\ c.rows \in Nat /\ c.nnz \in Nat /\ ValuesAt(c) \in Nat
          /\ TermsAt(c) + c.nnz * 2 <= ValuesAt(c)
      BY Geometry DEF Corpus
    <2>2. ~\E i \in 1 .. c.rows + 1 : End(x) = 24 + i * 8
      BY <1>5, <2>1
    <2>3. ~\E i \in 1 .. c.nnz : End(x) = TermsAt(c) + i * 2
      BY <1>2, <1>5, <2>1
    <2>4. ~(End(x) > ValuesAt(c))
      BY <1>2, <1>5, <2>1
    <2> QED
      BY <2>2, <2>3, <2>4, Sections
  <1> HIDE DEF array
  <1>6. Put(File(c, v, 0, b), array, 24) = File(c, v, After(0, 1, 24), b)
    <2>1. \A i \in 1 .. 1 : Cell(0 + (i - 1) * 24, 24, array[i]) \in Layout(c, v)
      BY <1>3, <1>4
    <2>2. \A x \in Layout(c, v) : 0 < End(x) /\ End(x) <= 0 + 1 * 24 =>
            \E i \in 1 .. 1 : x = Cell(0 + (i - 1) * 24, 24, array[i])
      BY <1>3, <1>5
    <2>3. Follows(c, v, 0, array, 1, 24)
      BY <1>2, <2>1, <2>2 DEF Follows
    <2> QED
      <3>1. 0 \in Nat /\ 1 \in Nat /\ 24 \in Sizes /\ Len(array) = 1
        BY <1>1 DEF Sizes
      <3> QED
        BY <2>3, <3>1, PutWrites
  <1> QED
    BY <1>6 DEF array, HeaderBytes, After

LEMMA PutOffsets ==
  ASSUME NEW c, NEW v \in {1, 2, 4}, NEW b, Corpus(c)
  PROVE  Put(File(c, v, 24, b), c.indptr, OffsetBytes) = File(c, v, TermsAt(c), b)
  <1>1. TermsAt(c) = 24 + (c.rows + 1) * 8 /\ c.rows \in Nat /\ c.nnz \in Nat /\ ValuesAt(c) \in Nat
        /\ TermsAt(c) + c.nnz * 2 <= ValuesAt(c) /\ TermsAt(c) \in Nat
    BY Geometry DEF Corpus
  <1>2. \A x \in Layout(c, v) : End(x) \in Int
    BY Sections
  <1>3. \A i \in 1 .. c.rows + 1 : Cell(24 + (i - 1) * 8, 8, c.indptr[i]) = OffsetCell(c, i)
    BY DEF OffsetCell, HeaderBytes, OffsetBytes
  <1>4. \A i \in 1 .. c.rows + 1 : OffsetCell(c, i) \in Layout(c, v)
    BY DEF Layout
  <1>5. ASSUME NEW x \in Layout(c, v), 24 < End(x), End(x) <= TermsAt(c)
        PROVE  \E i \in 1 .. c.rows + 1 : x = OffsetCell(c, i)
    <2>1. ~\E i \in 1 .. c.nnz : End(x) = TermsAt(c) + i * 2
      BY <1>1, <1>2, <1>5
    <2>2. End(x) # 24
      BY <1>5
    <2>3. TermsAt(c) <= ValuesAt(c)
      <3>1. c.nnz * 2 \in Nat
        BY <1>1
      <3> QED
        BY <1>1, <3>1
    <2>4. ~(End(x) > ValuesAt(c))
      <3>1. End(x) \in Int
        BY <1>2
      <3> QED
        BY <1>1, <1>5, <2>3, <3>1
    <2> QED
      BY <2>1, <2>2, <2>4, Sections
  <1>6. Put(File(c, v, 24, b), c.indptr, 8) = File(c, v, After(24, c.rows + 1, 8), b)
    <2>1. \A i \in 1 .. c.rows + 1 : Cell(24 + (i - 1) * 8, 8, c.indptr[i]) \in Layout(c, v)
      BY <1>3, <1>4
    <2>2. \A x \in Layout(c, v) : 24 < End(x) /\ End(x) <= 24 + (c.rows + 1) * 8 =>
            \E i \in 1 .. c.rows + 1 : x = Cell(24 + (i - 1) * 8, 8, c.indptr[i])
      BY <1>1, <1>3, <1>5
    <2>3. c.rows + 1 \in Nat
      BY <1>1
    <2>4. Follows(c, v, 24, c.indptr, c.rows + 1, 8)
      BY <1>2, <2>1, <2>2 DEF Follows
    <2> QED
      <3>1. 24 \in Nat /\ 8 \in Sizes /\ Len(c.indptr) = c.rows + 1
        BY DEF Sizes, Corpus
      <3> QED
        BY <2>3, <2>4, <3>1, PutWrites
  <1> QED
    BY <1>1, <1>6 DEF OffsetBytes, After

(* An array of k elements of another, after the first d. *)
Slice(array, whole, d, k) == Len(array) = k /\ \A i \in 1 .. k : array[i] = whole[d + i]

(* k more terms, after the first d. *)
LEMMA PutTerms ==
  ASSUME NEW c, NEW v \in {1, 2, 4}, NEW b, NEW d \in Nat, NEW k \in Nat, NEW array,
         Corpus(c), d + k <= c.nnz, Slice(array, c.indices, d, k)
  PROVE  Put(File(c, v, TermsAt(c) + d * 2, b), array, TermBytes)
           = File(c, v, TermsAt(c) + (d + k) * 2, b)
  <1> DEFINE m == TermsAt(c) + d * 2
  <1>1. TermsAt(c) = 24 + (c.rows + 1) * 8 /\ c.rows \in Nat /\ c.nnz \in Nat /\ ValuesAt(c) \in Nat
        /\ TermsAt(c) + c.nnz * 2 <= ValuesAt(c) /\ TermsAt(c) \in Nat
    BY Geometry DEF Corpus
  <1>2. \A x \in Layout(c, v) : End(x) \in Int
    BY Sections
  <1>3. ASSUME NEW i \in 1 .. k
        PROVE  /\ Cell(m + (i - 1) * 2, 2, array[i]) = TermCell(c, d + i)
               /\ d + i \in 1 .. c.nnz
    <2>1. m + (i - 1) * 2 = TermsAt(c) + ((d + i) - 1) * 2
      BY <1>1
    <2>2. d + i \in 1 .. c.nnz
      BY <1>1
    <2> QED
      BY <2>1, <2>2 DEF TermCell, TermBytes, Slice
  <1>4. \A i \in 1 .. c.nnz : TermCell(c, i) \in Layout(c, v)
    BY DEF Layout
  <1>5. ASSUME NEW x \in Layout(c, v), m < End(x), End(x) <= m + k * 2
        PROVE  \E i \in 1 .. k : x = TermCell(c, d + i)
    <2>1. ~\E i \in 1 .. c.rows + 1 : End(x) = 24 + i * 8
      BY <1>1, <1>2, <1>5
    <2>2. End(x) # 24 /\ ~(End(x) > ValuesAt(c))
      BY <1>1, <1>2, <1>5
    <2>3. PICK j \in 1 .. c.nnz : x = TermCell(c, j) /\ End(x) = TermsAt(c) + j * 2
      BY <2>1, <2>2, Sections
    <2>4. j - d \in 1 .. k /\ d + (j - d) = j
      BY <1>1, <1>5, <2>3
    <2> QED
      BY <2>3, <2>4
  <1>6. Put(File(c, v, m, b), array, 2) = File(c, v, After(m, k, 2), b)
    <2>1. \A i \in 1 .. k : Cell(m + (i - 1) * 2, 2, array[i]) \in Layout(c, v)
      BY <1>3, <1>4
    <2>2. \A x \in Layout(c, v) : m < End(x) /\ End(x) <= m + k * 2 =>
            \E i \in 1 .. k : x = Cell(m + (i - 1) * 2, 2, array[i])
      BY <1>3, <1>5
    <2>3. m \in Nat
      BY <1>1
    <2> HIDE DEF m
    <2>4. Follows(c, v, m, array, k, 2)
      BY <1>2, <2>1, <2>2 DEF Follows
    <2> QED
      <3>1. 2 \in Sizes /\ Len(array) = k
        BY DEF Sizes, Slice
      <3> QED
        BY <2>3, <2>4, <3>1, PutWrites
  <1>7. m + k * 2 = TermsAt(c) + (d + k) * 2
    BY <1>1
  <1> QED
    BY <1>6, <1>7 DEF TermBytes, After

(* There is nothing in the padding. *)
LEMMA PaddingIsEmpty ==
  ASSUME NEW c, NEW v \in {1, 2, 4}, NEW b, Corpus(c)
  PROVE  [File(c, v, TermsAt(c) + c.nnz * 2, b) EXCEPT !.written = ValuesAt(c)]
           = File(c, v, ValuesAt(c), b)
  <1>1. TermsAt(c) = 24 + (c.rows + 1) * 8 /\ c.rows \in Nat /\ c.nnz \in Nat /\ ValuesAt(c) \in Nat
        /\ TermsAt(c) + c.nnz * 2 <= ValuesAt(c) /\ TermsAt(c) \in Nat
    BY Geometry DEF Corpus
  <1>2. ASSUME NEW x \in Layout(c, v)
        PROVE  End(x) <= ValuesAt(c) <=> End(x) <= TermsAt(c) + c.nnz * 2
    <2>1. CASE End(x) <= TermsAt(c)
      BY <1>1, <2>1, Sections
    <2>2. CASE \E i \in 1 .. c.nnz : End(x) = TermsAt(c) + i * 2 /\ End(x) <= ValuesAt(c)
      BY <1>1, <2>2
    <2>3. CASE End(x) > ValuesAt(c)
      BY <1>1, <2>3, Sections
    <2>4. CASE End(x) = 24
      BY <1>1, <2>4
    <2> QED
      BY <2>1, <2>2, <2>3, <2>4, Sections
  <1>3. Below(Layout(c, v), TermsAt(c) + c.nnz * 2) = Below(Layout(c, v), ValuesAt(c))
    BY <1>2 DEF Below
  <1> QED
    BY <1>3 DEF File

(* k more values, after the first d. *)
LEMMA PutValues ==
  ASSUME NEW c, NEW v \in {1, 2, 4}, NEW b, NEW d \in Nat, NEW k \in Nat, NEW array,
         Corpus(c), d + k <= c.nnz, Slice(array, c.values, d, k)
  PROVE  Put(File(c, v, ValuesAt(c) + d * v, b), array, v) = File(c, v, ValuesAt(c) + (d + k) * v, b)
  <1> DEFINE m == ValuesAt(c) + d * v
  <1>1. c.nnz \in Nat /\ ValuesAt(c) \in Nat /\ v \in Nat /\ TermsAt(c) <= ValuesAt(c)
        /\ TermsAt(c) \in Nat /\ 24 <= TermsAt(c)
    <2>1. TermsAt(c) = 24 + (c.rows + 1) * 8 /\ c.rows \in Nat /\ c.nnz \in Nat /\ ValuesAt(c) \in Nat
          /\ TermsAt(c) + c.nnz * 2 <= ValuesAt(c) /\ TermsAt(c) \in Nat
      BY Geometry DEF Corpus
    <2> QED
      BY <2>1
  <1>2. \A x \in Layout(c, v) : End(x) \in Int
    BY Sections
  <1>3. \A i \in Int : d * v + (i - 1) * v = ((d + i) - 1) * v /\ d * v + i * v = (d + i) * v
                      /\ d * v \in Nat /\ (i - 1) * v \in Int /\ i * v \in Int
    <2>1. CASE v = 1
      BY <2>1
    <2>2. CASE v = 2
      BY <2>2
    <2>3. CASE v = 4
      BY <2>3
    <2> QED
      BY <2>1, <2>2, <2>3
  <1>4. ASSUME NEW i \in 1 .. k
        PROVE  /\ Cell(m + (i - 1) * v, v, array[i]) = ValueCell(c, v, d + i)
               /\ d + i \in 1 .. c.nnz
    <2>1. i \in Int /\ d + i \in 1 .. c.nnz
      BY <1>1
    <2>2. m + (i - 1) * v = ValuesAt(c) + (d * v + (i - 1) * v)
      BY <1>1, <1>3, <2>1
    <2>3. m + (i - 1) * v = ValuesAt(c) + ((d + i) - 1) * v
      BY <1>3, <2>1, <2>2
    <2> HIDE DEF m
    <2> QED
      BY <2>1, <2>3 DEF ValueCell, Slice
  <1>5. \A i \in 1 .. c.nnz : ValueCell(c, v, i) \in Layout(c, v)
    BY DEF Layout
  <1>6. m \in Nat /\ m >= ValuesAt(c) /\ m + k * v = ValuesAt(c) + (d + k) * v
    <2>1. k \in Int /\ d * v \in Nat /\ k * v \in Int /\ d * v + k * v = (d + k) * v
      BY <1>3
    <2>2. m + k * v = ValuesAt(c) + (d * v + k * v)
      BY <1>1, <2>1
    <2> QED
      BY <1>1, <2>1, <2>2
  <1>7. ASSUME NEW x \in Layout(c, v), m < End(x), End(x) <= m + k * v
        PROVE  \E i \in 1 .. k : x = ValueCell(c, v, d + i)
    <2>1. ~(End(x) <= TermsAt(c)) /\ End(x) # 24 /\ ~(End(x) <= ValuesAt(c))
      <3>1. End(x) \in Int
        BY <1>2
      <3> HIDE DEF m
      <3> QED
        BY <1>1, <1>6, <1>7, <3>1
    <2>2. PICK j \in 1 .. c.nnz : x = ValueCell(c, v, j) /\ End(x) = ValuesAt(c) + j * v
      BY <2>1, Sections
    <2>3. d * v < j * v /\ j * v <= (d + k) * v /\ j \in Int
      <3>1. ValuesAt(c) + d * v < ValuesAt(c) + j * v
            /\ ValuesAt(c) + j * v <= ValuesAt(c) + (d + k) * v
        BY <1>6, <1>7, <2>2
      <3>2. d * v \in Int /\ j * v \in Int /\ (d + k) * v \in Int /\ j \in Int
        BY <1>1, <1>3
      <3> QED
        BY <1>1, <3>1, <3>2
    <2>4. d < j /\ j <= d + k
      <3>1. CASE v = 1
        BY <2>3, <3>1
      <3>2. CASE v = 2
        BY <2>3, <3>2
      <3>3. CASE v = 4
        BY <2>3, <3>3
      <3> QED
        BY <3>1, <3>2, <3>3
    <2>5. j - d \in 1 .. k /\ d + (j - d) = j
      BY <2>3, <2>4
    <2> QED
      BY <2>2, <2>5
  <1> HIDE DEF m
  <1>8. Put(File(c, v, m, b), array, v) = File(c, v, After(m, k, v), b)
    <2>1. \A i \in 1 .. k : Cell(m + (i - 1) * v, v, array[i]) \in Layout(c, v)
      BY <1>4, <1>5
    <2>2. \A x \in Layout(c, v) : m < End(x) /\ End(x) <= m + k * v =>
            \E i \in 1 .. k : x = Cell(m + (i - 1) * v, v, array[i])
      BY <1>4, <1>7
    <2>3. v \in Sizes /\ m \in Nat /\ Len(array) = k
      BY <1>6 DEF Sizes, Slice
    <2>4. Follows(c, v, m, array, k, v)
      BY <1>2, <2>1, <2>2 DEF Follows
    <2> QED
      BY <2>3, <2>4, PutWrites
  <1> QED
    BY <1>6, <1>8 DEF m, After
-----------------------------------------------------------------------------
(* A file is as sound as the terms in it. *)
LEMMA FileSound ==
  ASSUME NEW c \in Inputs, NEW w \in {1, 2, 4}, NEW n \in Nat, NEW b \in Nat,
         Corpus(c), b <= n, n <= ValuesAt(c) + c.nnz * w,
         \A i \in 1 .. c.nnz : TermsAt(c) + i * 2 <= n => TermFits(c, c.indices[i])
  PROVE  /\ FileInv(File(c, w, n, b))
         /\ File(c, w, n, b).source = c /\ File(c, w, n, b).width = w
         /\ File(c, w, n, b).written = n /\ File(c, w, n, b).bytes = b
  <1> DEFINE f == File(c, w, n, b)
  <1>1. f.source = c /\ f.width = w /\ f.written = n /\ f.bytes = b
    BY DEF File
  <1>2. f = File(f.source, f.width, f.written, f.bytes)
    BY <1>1
  <1> HIDE DEF f
  <1>3. FileInv(f)
    BY <1>1, <1>2 DEF FileInv
  <1> QED
    BY <1>1, <1>3 DEF f

(* The conversion goes on to its next array. *)
LEMMA Gone ==
  ASSUME NEW z, conv = [at |-> conv.at, source |-> conv.source, done |-> conv.done]
  PROVE  [conv EXCEPT !.at = z, !.done = 0] = [at |-> z, source |-> Source, done |-> 0]
  <1> DEFINE a == conv.at
             s == conv.source
             d == conv.done
             g == [conv EXCEPT !.at = z]
  <1>1. conv = [at |-> a, source |-> s, done |-> d]
    OBVIOUS
  <1> HIDE DEF a, s, d
  <1>2. g = [at |-> z, source |-> s, done |-> d]
    BY <1>1
  <1> HIDE DEF g
  <1>3. [g EXCEPT !.done = 0] = [at |-> z, source |-> s, done |-> 0]
    BY <1>2
  <1> QED
    BY <1>3 DEF g, s, Source

(* A record with two of its fields set. *)
LEMMA Started ==
  ASSUME NEW c, NEW w, NEW f, NEW s,
         f = [written |-> 0, bytes |-> 0, cells |-> {}, source |-> s, width |-> 0]
  PROVE  [f EXCEPT !.source = c, !.width = w]
           = [written |-> 0, bytes |-> 0, cells |-> {}, source |-> c, width |-> w]
  <1> DEFINE g == [f EXCEPT !.source = c]
  <1>1. g = [written |-> 0, bytes |-> 0, cells |-> {}, source |-> c, width |-> 0]
    OBVIOUS
  <1> HIDE DEF g
  <1>2. [g EXCEPT !.width = w] = [written |-> 0, bytes |-> 0, cells |-> {}, source |-> c, width |-> w]
    BY <1>1
  <1> QED
    BY <1>2 DEF g

(* An empty file for c. *)
LEMMA Emptied ==
  ASSUME NEW c, NEW w \in {1, 2, 4}, Corpus(c)
  PROVE  [NoFile EXCEPT !.source = c, !.width = w] = File(c, w, 0, 0)
  <1>1. Below(Layout(c, w), 0) = {}
    BY Sections DEF Below
  <1>2. [NoFile EXCEPT !.source = c, !.width = w]
          = [written |-> 0, bytes |-> 0, cells |-> {}, source |-> c, width |-> w]
    BY Started DEF NoFile
  <1> QED
    BY <1>1, <1>2 DEF File

(* The next part of an array is a slice of it. *)
LEMMA NextChunkIsASlice ==
  ASSUME NEW array \in Seq(Int), conv.done \in Nat, conv.done < Len(array)
  PROVE  \E k \in Nat : /\ conv.done + k <= Len(array)
                        /\ Slice(NextChunk(array), array, conv.done, k)
                        /\ DOMAIN NextChunk(array) = 1 .. k
  <1>1. Chunk \in Nat \ {0}
    BY SizesAssumption
  <1> DEFINE d == conv.done
             e == IF d + Chunk < Len(array) THEN d + Chunk ELSE Len(array)
  <1>2. d \in Nat /\ e \in Nat /\ d < e /\ e <= Len(array)
    BY <1>1
  <1>3. NextChunk(array) = SubSeq(array, d + 1, e)
    BY DEF NextChunk
  <1> HIDE DEF d, e
  <1>4. /\ Len(SubSeq(array, d + 1, e)) = e - d
        /\ \A i \in 1 .. e - d : SubSeq(array, d + 1, e)[i] = array[d + i]
        /\ DOMAIN SubSeq(array, d + 1, e) = 1 .. e - d
    <2> DEFINE part == SubSeq(array, d + 1, e)
    <2>1. Len(part) = e - d /\ part \in Seq(Int)
      BY <1>2
    <2>2. ASSUME NEW i \in 1 .. e - d
          PROVE  part[i] = array[d + i]
      <3>1. i \in 1 .. e - (d + 1) + 1 /\ (d + 1) + i - 1 = d + i /\ d + 1 \in Nat /\ d + 1 <= e
        BY <1>2
      <3>2. part[i] = array[(d + 1) + i - 1]
        BY <1>2, <3>1
      <3> QED
        BY <3>1, <3>2
    <2> HIDE DEF part
    <2>3. DOMAIN part = 1 .. Len(part)
      BY <2>1
    <2> QED
      BY <2>1, <2>2, <2>3 DEF part
  <1>5. e - d \in Nat /\ d + (e - d) <= Len(array)
    BY <1>2
  <1>6. Slice(NextChunk(array), array, d, e - d)
    BY <1>3, <1>4 DEF Slice
  <1> QED
    BY <1>3, <1>4, <1>5, <1>6 DEF d

LEMMA OpenKeeps ==
  ASSUME NEW c \in Inputs, Open(c)
  PROVE  NativeInv'
  <1>1. Corpus(c)
    BY TakenIsACorpus DEF Open
  <1>2. native' = File(c, 4, 24, 0)
    <2>1. native' = Put([NoFile EXCEPT !.source = c, !.width = 4], <<<<c.rows, c.cols, c.nnz>>>>, HeaderBytes)
      BY DEF Open, FloatBytes
    <2>2. [NoFile EXCEPT !.source = c, !.width = 4] = File(c, 4, 0, 0)
      BY <1>1, Emptied
    <2>3. Put(File(c, 4, 0, 0), <<<<c.rows, c.cols, c.nnz>>>>, HeaderBytes) = File(c, 4, 24, 0)
      BY <1>1, PutHeader
    <2> QED
      BY <2>1, <2>2, <2>3
  <1>3. /\ c.nnz \in Nat /\ c.rows \in Nat /\ TermsAt(c) = 24 + (c.rows + 1) * 8 /\ TermsAt(c) \in Nat
        /\ TermsAt(c) + c.nnz * 2 <= ValuesAt(c) /\ ValuesAt(c) \in Nat
    BY <1>1, Geometry DEF Corpus
  <1>4. 24 <= ValuesAt(c) + c.nnz * 4 /\ ~\E i \in 1 .. c.nnz : TermsAt(c) + i * 2 <= 24
    BY <1>3
  <1>5. FileInv(native') /\ native'.source = c /\ native'.width = 4 /\ native'.written = 24
    BY <1>1, <1>2, <1>4, FileSound
  <1>6. conv' = [at |-> "indptr", source |-> c, done |-> 0]
    BY DEF Open
  <1>7. ConvInv'
    BY <1>3, <1>5, <1>6 DEF ConvInv, Converting, Source
  <1> QED
    BY <1>5, <1>7 DEF NativeInv

LEMMA WriteIndptrKeeps == ASSUME NativeInv, WriteIndptr PROVE NativeInv'
  <1> DEFINE c == Source
             b == native.bytes
  <1>1. /\ FileInv(native) /\ native.width = 4 /\ native.source = c /\ native.written = 24
        /\ conv = [at |-> conv.at, source |-> Source, done |-> conv.done]
    BY DEF NativeInv, ConvInv, WriteIndptr, Converting
  <1>2. /\ c \in Inputs /\ Corpus(c) /\ native = File(c, 4, 24, b) /\ b \in Nat /\ b <= 24
    BY <1>1 DEF FileInv
  <1>3. native' = File(c, 4, TermsAt(c), b)
    <2>1. native' = Put(native, c.indptr, OffsetBytes)
      BY DEF WriteIndptr
    <2> HIDE DEF c, b
    <2>2. 4 \in {1, 2, 4}
      OBVIOUS
    <2>3. Put(File(c, 4, 24, b), c.indptr, OffsetBytes) = File(c, 4, TermsAt(c), b)
      BY <1>2, <2>2, PutOffsets
    <2>4. native = File(c, 4, 24, b)
      BY <1>2
    <2> QED
      BY <2>1, <2>3, <2>4
  <1>4. conv' = [at |-> "indices", source |-> c, done |-> 0]
    <2>1. conv' = [conv EXCEPT !.at = "indices", !.done = 0]
      BY DEF WriteIndptr, Goto
    <2>2. conv = [at |-> conv.at, source |-> conv.source, done |-> conv.done]
      BY <1>1 DEF Source
    <2> QED
      BY <2>1, <2>2, Gone
  <1> HIDE DEF c, b
  <1>5. /\ c.nnz \in Nat /\ c.rows \in Nat /\ TermsAt(c) = 24 + (c.rows + 1) * 8 /\ TermsAt(c) \in Nat
        /\ TermsAt(c) + c.nnz * 2 <= ValuesAt(c) /\ ValuesAt(c) \in Nat
    BY <1>2, Geometry DEF Corpus
  <1>6. /\ TermsAt(c) <= ValuesAt(c) + c.nnz * 4 /\ b <= TermsAt(c)
        /\ ~\E i \in 1 .. c.nnz : TermsAt(c) + i * 2 <= TermsAt(c)
    BY <1>2, <1>5
  <1>7. FileInv(native') /\ native'.source = c /\ native'.width = 4 /\ native'.written = TermsAt(c)
    BY <1>2, <1>3, <1>5, <1>6, FileSound
  <1>8. TermsAt(c) = TermsAt(c) + 0 * 2 /\ 0 \in 0 .. c.nnz
    BY <1>5
  <1>9. ConvInv'
    BY <1>4, <1>7, <1>8 DEF ConvInv, Converting, Source
  <1> QED
    BY <1>7, <1>9 DEF NativeInv

(* Every term of the chunk is checked before any is written. *)
LEMMA WriteIndicesKeeps == ASSUME NativeInv, WriteIndices PROVE NativeInv'
  <1> DEFINE c == Source
             b == native.bytes
             d == conv.done
             wide == NextChunk(c.indices)
  <1>1. /\ FileInv(native) /\ native.width = 4 /\ native.source = c
        /\ native.written = TermsAt(c) + d * 2
        /\ conv = [at |-> "indices", source |-> Source, done |-> conv.done]
        /\ d \in 0 .. c.nnz
    BY DEF NativeInv, ConvInv, WriteIndices, Converting
  <1>2. /\ c \in Inputs /\ Corpus(c) /\ native = File(c, 4, TermsAt(c) + d * 2, b)
        /\ b \in Nat /\ b <= TermsAt(c) + d * 2
        /\ \A i \in 1 .. c.nnz : TermsAt(c) + i * 2 <= TermsAt(c) + d * 2 => TermFits(c, c.indices[i])
    BY <1>1 DEF FileInv
  <1>3. /\ c.nnz \in Nat /\ TermsAt(c) \in Nat /\ ValuesAt(c) \in Nat
        /\ TermsAt(c) + c.nnz * 2 <= ValuesAt(c)
    BY <1>2, Geometry DEF Corpus
  <1>4. PICK k \in Nat : d + k <= c.nnz /\ Slice(wide, c.indices, d, k) /\ DOMAIN wide = 1 .. k
    <2>1. d \in Nat /\ d < Len(c.indices) /\ c.indices \in Seq(Int) /\ Len(c.indices) = c.nnz
      BY <1>1, <1>2, <1>3 DEF WriteIndices, Corpus
    <2> QED
      BY <2>1, NextChunkIsASlice
  <1>5. /\ native' = Put(native, wide, TermBytes)
        /\ conv' = [at |-> "indices", source |-> c, done |-> d + Len(wide)]
        /\ \A i \in DOMAIN wide : TermFits(c, wide[i])
    BY <1>1 DEF WriteIndices
  <1> HIDE DEF c, b, d, wide
  <1>6. d \in Nat /\ d + k \in 0 .. c.nnz /\ Len(wide) = k
    BY <1>1, <1>3, <1>4 DEF Slice
  <1>7. native' = File(c, 4, TermsAt(c) + (d + k) * 2, b)
    BY <1>2, <1>4, <1>5, <1>6, PutTerms
  <1>8. ASSUME NEW i \in 1 .. c.nnz, TermsAt(c) + i * 2 <= TermsAt(c) + (d + k) * 2
        PROVE  TermFits(c, c.indices[i])
    <2>1. CASE i <= d
      <3>1. TermsAt(c) + i * 2 <= TermsAt(c) + d * 2
        BY <1>3, <1>6, <2>1
      <3> QED
        BY <1>2, <3>1
    <2>2. CASE ~(i <= d)
      <3>1. i - d \in 1 .. k /\ d + (i - d) = i
        BY <1>3, <1>6, <1>8, <2>2
      <3>2. wide[i - d] = c.indices[i]
        BY <1>4, <3>1 DEF Slice
      <3> QED
        BY <1>4, <1>5, <3>1, <3>2
    <2> QED
      BY <2>1, <2>2
  <1>9. /\ TermsAt(c) + (d + k) * 2 \in Nat /\ TermsAt(c) + (d + k) * 2 <= ValuesAt(c) + c.nnz * 4
        /\ b <= TermsAt(c) + (d + k) * 2
    <2>1. d \in Nat /\ d + k \in Nat /\ d <= d + k /\ d + k <= c.nnz
      BY <1>3, <1>6
    <2>2. TermsAt(c) + d * 2 <= TermsAt(c) + (d + k) * 2 /\ TermsAt(c) + (d + k) * 2 \in Nat
      BY <1>3, <2>1
    <2>3. TermsAt(c) + (d + k) * 2 <= ValuesAt(c) + c.nnz * 4
      BY <1>3, <2>1
    <2>4. b \in Nat /\ b <= TermsAt(c) + d * 2 /\ TermsAt(c) + d * 2 \in Nat
      BY <1>2, <1>3, <2>1
    <2> QED
      BY <2>2, <2>3, <2>4
  <1>10. FileInv(native') /\ native'.source = c /\ native'.width = 4
         /\ native'.written = TermsAt(c) + (d + k) * 2
    BY <1>2, <1>7, <1>8, <1>9, FileSound
  <1>11. ConvInv'
    BY <1>5, <1>6, <1>10 DEF ConvInv, Converting, Source
  <1> QED
    BY <1>10, <1>11 DEF NativeInv

LEMMA WritePaddingKeeps == ASSUME NativeInv, WritePadding PROVE NativeInv'
  <1> DEFINE c == Source
             b == native.bytes
             u == TermsAt(c) + c.nnz * 2
  <1>1. /\ FileInv(native) /\ native.width = 4 /\ native.source = c /\ native.written = u
        /\ conv = [at |-> "indices", source |-> Source, done |-> conv.done]
    BY DEF NativeInv, ConvInv, WritePadding, Converting
  <1>2. /\ c \in Inputs /\ Corpus(c) /\ native = File(c, 4, u, b) /\ b \in Nat /\ b <= u
        /\ \A i \in 1 .. c.nnz : TermsAt(c) + i * 2 <= u => TermFits(c, c.indices[i])
    BY <1>1 DEF FileInv
  <1>3. /\ c.nnz \in Nat /\ TermsAt(c) \in Nat /\ ValuesAt(c) \in Nat /\ u <= ValuesAt(c)
        /\ u + padding(u) = ValuesAt(c)
    BY <1>2, Geometry DEF Corpus
  <1>4. native' = [native EXCEPT !.written = ValuesAt(c)]
    BY <1>1, <1>3 DEF WritePadding
  <1>5. native' = File(c, 4, ValuesAt(c), b)
    <2> HIDE DEF c, b
    <2>1. 4 \in {1, 2, 4}
      OBVIOUS
    <2>2. [File(c, 4, TermsAt(c) + c.nnz * 2, b) EXCEPT !.written = ValuesAt(c)] = File(c, 4, ValuesAt(c), b)
      BY <1>2, <2>1, PaddingIsEmpty DEF u
    <2>3. native = File(c, 4, TermsAt(c) + c.nnz * 2, b)
      BY <1>2 DEF u
    <2> QED
      BY <1>4, <2>2, <2>3
  <1>6. conv' = [at |-> "values", source |-> c, done |-> 0]
    <2>1. conv' = [conv EXCEPT !.at = "values", !.done = 0]
      BY DEF WritePadding, Goto
    <2>2. conv = [at |-> conv.at, source |-> conv.source, done |-> conv.done]
      BY <1>1 DEF Source
    <2> QED
      BY <2>1, <2>2, Gone
  <1>7. \A i \in 1 .. c.nnz : TermFits(c, c.indices[i])
    <2>1. \A i \in 1 .. c.nnz : TermsAt(c) + i * 2 <= u
      BY <1>3
    <2> QED
      BY <1>2, <2>1
  <1>8. u \in Nat
    BY <1>3
  <1> HIDE DEF c, b, u
  <1>9. ValuesAt(c) <= ValuesAt(c) + c.nnz * 4 /\ b <= ValuesAt(c)
    BY <1>2, <1>3, <1>8
  <1>10. FileInv(native') /\ native'.source = c /\ native'.width = 4 /\ native'.written = ValuesAt(c)
    BY <1>2, <1>3, <1>5, <1>7, <1>9, FileSound
  <1>11. ValuesAt(c) = ValuesAt(c) + 0 * 4 /\ 0 \in 0 .. c.nnz
    BY <1>3
  <1>12. ConvInv'
    BY <1>6, <1>10, <1>11 DEF ConvInv, Converting, Source
  <1> QED
    BY <1>10, <1>12 DEF NativeInv

LEMMA WriteValuesKeeps == ASSUME NativeInv, WriteValues PROVE NativeInv'
  <1> DEFINE c == Source
             b == native.bytes
             d == conv.done
             values == NextChunk(c.values)
  <1>1. /\ FileInv(native) /\ native.width = 4 /\ native.source = c
        /\ native.written = ValuesAt(c) + d * 4
        /\ conv = [at |-> "values", source |-> Source, done |-> conv.done]
        /\ d \in 0 .. c.nnz
    BY DEF NativeInv, ConvInv, WriteValues, Converting
  <1>2. /\ c \in Inputs /\ Corpus(c) /\ native = File(c, 4, ValuesAt(c) + d * 4, b)
        /\ b \in Nat /\ b <= ValuesAt(c) + d * 4
        /\ \A i \in 1 .. c.nnz : TermsAt(c) + i * 2 <= ValuesAt(c) + d * 4 => TermFits(c, c.indices[i])
    BY <1>1 DEF FileInv
  <1>3. /\ c.nnz \in Nat /\ TermsAt(c) \in Nat /\ ValuesAt(c) \in Nat
        /\ TermsAt(c) + c.nnz * 2 <= ValuesAt(c)
    BY <1>2, Geometry DEF Corpus
  <1>4. PICK k \in Nat : d + k <= c.nnz /\ Slice(values, c.values, d, k) /\ DOMAIN values = 1 .. k
    <2>1. d \in Nat /\ d < Len(c.values) /\ c.values \in Seq(Int) /\ Len(c.values) = c.nnz
      BY <1>1, <1>2, <1>3 DEF WriteValues, Corpus
    <2> QED
      BY <2>1, NextChunkIsASlice
  <1>5. /\ native' = Put(native, values, 4)
        /\ conv' = [at |-> "values", source |-> c, done |-> d + Len(values)]
    BY <1>1 DEF WriteValues, FloatBytes
  <1> HIDE DEF c, b, d, values
  <1>6. d \in Nat /\ d + k \in 0 .. c.nnz /\ Len(values) = k
    BY <1>1, <1>3, <1>4 DEF Slice
  <1>7. native' = File(c, 4, ValuesAt(c) + (d + k) * 4, b)
    <2>1. 4 \in {1, 2, 4}
      OBVIOUS
    <2> QED
      BY <1>2, <1>4, <1>5, <1>6, <2>1, PutValues
  <1>8. /\ d \in Nat /\ d + k \in Nat /\ d <= d + k /\ d + k <= c.nnz
    BY <1>3, <1>6
  <1>9. /\ ValuesAt(c) + d * 4 <= ValuesAt(c) + (d + k) * 4 /\ ValuesAt(c) + (d + k) * 4 \in Nat
        /\ ValuesAt(c) + d * 4 \in Nat
    BY <1>3, <1>8
  <1>10. ValuesAt(c) + (d + k) * 4 <= ValuesAt(c) + c.nnz * 4
    BY <1>3, <1>8
  <1>11. b \in Nat /\ b <= ValuesAt(c) + (d + k) * 4
    BY <1>2, <1>9
  <1>12. \A i \in 1 .. c.nnz : TermFits(c, c.indices[i])
    <2>1. \A i \in 1 .. c.nnz : TermsAt(c) + i * 2 <= ValuesAt(c) + d * 4
      BY <1>3, <1>8
    <2> QED
      BY <1>2, <2>1
  <1>13. FileInv(native') /\ native'.source = c /\ native'.width = 4
         /\ native'.written = ValuesAt(c) + (d + k) * 4
    BY <1>2, <1>7, <1>9, <1>10, <1>11, <1>12, FileSound
  <1>14. ConvInv'
    BY <1>5, <1>6, <1>13 DEF ConvInv, Converting, Source
  <1> QED
    BY <1>13, <1>14 DEF NativeInv

(* A file some of whose bytes reach the disk, and one cut where they end. *)
LEMMA FileDrained ==
  ASSUME NEW f, NEW n, FileInv(f), n \in Nat, n <= f.written
  PROVE  LET g == [f EXCEPT !.bytes = n]
         IN  FileInv(g) /\ g.source = f.source /\ g.width = f.width /\ g.written = f.written
  <1> DEFINE g == [f EXCEPT !.bytes = n]
  <1>1. f = File(f.source, f.width, f.written, f.bytes)
    BY DEF FileInv
  <1>2. g.source = f.source /\ g.width = f.width /\ g.written = f.written /\ g.bytes = n
        /\ g = File(f.source, f.width, f.written, n)
    BY <1>1 DEF File
  <1> HIDE DEF g
  <1>3. FileInv(g)
    BY <1>2 DEF FileInv
  <1> QED
    BY <1>2, <1>3 DEF g

(* A file all of whose bytes did. *)
LEMMA AllDrained ==
  ASSUME NEW f, FileInv(f), f.written \in Nat
  PROVE  LET g == [f EXCEPT !.bytes = f.written]
         IN  FileInv(g) /\ g.written = g.bytes
  <1> DEFINE g == [f EXCEPT !.bytes = f.written]
  <1>1. FileInv(g) /\ g.written = f.written
    BY FileDrained
  <1>2. f = File(f.source, f.width, f.written, f.bytes)
    BY DEF FileInv
  <1>3. g.bytes = f.written
    BY <1>2 DEF File
  <1> QED
    BY <1>1, <1>3

LEMMA FileCut ==
  ASSUME NEW f, FileInv(f)
  PROVE  LET g == [f EXCEPT !.written = f.bytes,
                            !.cells = {x \in f.cells : x.at + x.bytes <= f.bytes}]
         IN  FileInv(g) /\ g.written = g.bytes
  <1> DEFINE c == f.source
             w == f.width
             n == f.written
             b == f.bytes
             kept == {x \in f.cells : x.at + x.bytes <= b}
             g == [f EXCEPT !.written = b]
             h == [g EXCEPT !.cells = kept]
  <1>1. f = File(c, w, n, b) /\ b \in Nat /\ n \in Nat /\ b <= n /\ c \in Inputs /\ Corpus(c)
        /\ w \in {1, 2, 4}
    BY DEF FileInv
  <1>2. f.cells = Below(Layout(c, w), n)
    BY <1>1 DEF File
  <1>3. kept = Below(Layout(c, w), b)
    <2>1. \A x \in Layout(c, w) : End(x) \in Int
      BY <1>1, Sections
    <2> HIDE DEF c, w, n, b
    <2>2. \A x : x \in Below(Layout(c, w), n) /\ x.at + x.bytes <= b <=> x \in Below(Layout(c, w), b)
      BY <1>1, <2>1 DEF Below, End
    <2> QED
      BY <1>2, <2>2
  <1>4. f = [written |-> n, bytes |-> b, cells |-> f.cells, source |-> c, width |-> w]
    BY <1>1 DEF File
  <1>5. \A i \in 1 .. c.nnz : TermsAt(c) + i * 2 <= b => TermFits(c, c.indices[i])
    <2>1. c.nnz \in Nat /\ TermsAt(c) \in Nat
      BY <1>1, Geometry DEF Corpus
    <2>2. \A i \in 1 .. c.nnz : TermsAt(c) + i * 2 <= n => TermFits(c, c.indices[i])
      BY DEF FileInv
    <2> HIDE DEF c, n, b
    <2> QED
      BY <1>1, <2>1, <2>2
  <1>6. b <= ValuesAt(c) + c.nnz * w
    <2>1. n <= ValuesAt(c) + c.nnz * w
      BY DEF FileInv
    <2>2. ValuesAt(c) + c.nnz * w \in Int
      <3>1. c.nnz \in Nat /\ ValuesAt(c) \in Nat
        BY <1>1, Geometry DEF Corpus
      <3> QED
        BY <1>1, <3>1
    <2> HIDE DEF c, n, b, w
    <2> QED
      BY <1>1, <2>1, <2>2
  <1> HIDE DEF c, w, n, b, kept
  <1>7. g = [written |-> b, bytes |-> b, cells |-> f.cells, source |-> c, width |-> w]
    BY <1>4
  <1> HIDE DEF g
  <1>8. h = [written |-> b, bytes |-> b, cells |-> kept, source |-> c, width |-> w]
    BY <1>7
  <1>9. h = File(c, w, b, b)
    BY <1>3, <1>8 DEF File
  <1>10. FileInv(File(c, w, b, b))
    BY <1>1, <1>5, <1>6, FileSound
  <1> HIDE DEF h
  <1>11. FileInv(h) /\ h.written = h.bytes
    BY <1>8, <1>9, <1>10
  <1> QED
    BY <1>11 DEF h, g, kept, b

LEMMA FinishKeeps == ASSUME NativeInv, Finish PROVE NativeInv'
  <1>1. FileInv(native)
    BY DEF NativeInv, ConvInv, Finish, Converting
  <1>2. native.written \in Nat /\ native.written <= native.written
    BY <1>1 DEF FileInv
  <1>3. native' = [native EXCEPT !.bytes = native.written]
    BY DEF Finish
  <1>4. FileInv(native') /\ native'.written = native'.bytes
    BY <1>1, <1>2, <1>3, AllDrained
  <1>5. ConvInv'
    BY <1>4 DEF Finish, ConvInv, Converting
  <1> QED
    BY <1>4, <1>5 DEF NativeInv

LEMMA DrainKeeps == ASSUME NativeInv, Drain PROVE NativeInv'
  <1>1. FileInv(native) /\ conv' = conv /\ ~Converting("idle")
    BY DEF NativeInv, ConvInv, Drain
  <1>2. PICK n \in native.bytes + 1 .. native.written : native' = [native EXCEPT !.bytes = n]
    BY DEF Drain
  <1>3. n \in Nat /\ n <= native.written
    BY <1>1, <1>2 DEF FileInv
  <1>4. FileInv(native') /\ native'.source = native.source /\ native'.width = native.width
        /\ native'.written = native.written
    BY <1>1, <1>2, <1>3, FileDrained
  <1>5. ConvInv'
    BY <1>1, <1>4 DEF NativeInv, ConvInv, Converting, Source
  <1> QED
    BY <1>4, <1>5 DEF NativeInv

LEMMA AbandonKeeps == ASSUME NativeInv, Abandon PROVE NativeInv'
  <1>1. FileInv(native)
    BY DEF NativeInv, ConvInv, Abandon
  <1>2. native' = [native EXCEPT !.written = native.bytes,
                      !.cells = {x \in native.cells : x.at + x.bytes <= native.bytes}]
    BY DEF Abandon
  <1>3. FileInv(native') /\ native'.written = native'.bytes
    BY <1>1, <1>2, FileCut
  <1>4. ConvInv'
    BY <1>3 DEF Abandon, ConvInv, Converting
  <1> QED
    BY <1>3, <1>4 DEF NativeInv

LEMMA PutAllTerms ==
  ASSUME NEW c, NEW w \in {1, 2, 4}, NEW b, Corpus(c)
  PROVE  Put(File(c, w, TermsAt(c), b), c.indices, TermBytes) = File(c, w, TermsAt(c) + c.nnz * 2, b)
  <1> DEFINE P(d, k) == Put(File(c, w, TermsAt(c) + d * 2, b), c.indices, TermBytes) = File(c, w, TermsAt(c) + (d + k) * 2, b)
  <1>1. /\ c.nnz \in Nat /\ TermsAt(c) \in Nat /\ Len(c.indices) = c.nnz /\ c.indices \in Seq(Int)
    BY Geometry DEF Corpus
  <1>2. \A d, k \in Nat : d + k <= c.nnz /\ Slice(c.indices, c.indices, d, k) => P(d, k)
    BY PutTerms
  <1>3. Slice(c.indices, c.indices, 0, c.nnz) /\ 0 + c.nnz <= c.nnz
    BY <1>1 DEF Slice
  <1> HIDE DEF P
  <1>4. P(0, c.nnz)
    BY <1>1, <1>2, <1>3
  <1>5. TermsAt(c) + 0 * 2 = TermsAt(c) /\ 0 + c.nnz = c.nnz
    BY <1>1
  <1> QED
    BY <1>4, <1>5 DEF P

LEMMA PutAllValues ==
  ASSUME NEW c, NEW w \in {1, 2, 4}, NEW b, Corpus(c)
  PROVE  Put(File(c, w, ValuesAt(c), b), c.values, w) = File(c, w, ValuesAt(c) + c.nnz * w, b)
  <1> DEFINE P(d, k) == Put(File(c, w, ValuesAt(c) + d * w, b), c.values, w) = File(c, w, ValuesAt(c) + (d + k) * w, b)
  <1>1. /\ c.nnz \in Nat /\ ValuesAt(c) \in Nat /\ Len(c.values) = c.nnz /\ c.values \in Seq(Int)
    BY Geometry DEF Corpus
  <1>2. \A d, k \in Nat : d + k <= c.nnz /\ Slice(c.values, c.values, d, k) => P(d, k)
    BY PutValues
  <1>3. Slice(c.values, c.values, 0, c.nnz) /\ 0 + c.nnz <= c.nnz
    BY <1>1 DEF Slice
  <1> HIDE DEF P
  <1>4. P(0, c.nnz)
    BY <1>1, <1>2, <1>3
  <1>5. ValuesAt(c) + 0 * w = ValuesAt(c) /\ 0 + c.nnz = c.nnz
    BY <1>1
  <1> QED
    BY <1>4, <1>5 DEF P

LEMMA WriteCodesKeeps ==
  ASSUME NEW c \in Inputs, NEW w \in Widths \ {FloatBytes}, WriteCodes(c, w)
  PROVE  NativeInv'
  <1>1. Corpus(c) /\ w \in {1, 2, 4} /\ \A i \in DOMAIN c.indices : TermFits(c, c.indices[i])
    BY TakenIsACorpus, SizesAssumption DEF WriteCodes, FloatBytes
  <1>2. /\ c.nnz \in Nat /\ TermsAt(c) \in Nat /\ ValuesAt(c) \in Nat /\ c.nnz * w \in Nat
        /\ Len(c.indices) = c.nnz /\ Len(c.values) = c.nnz /\ c.indices \in Seq(Int)
    <2>1. /\ c.nnz \in Nat /\ TermsAt(c) \in Nat /\ ValuesAt(c) \in Nat
          /\ Len(c.indices) = c.nnz /\ Len(c.values) = c.nnz /\ c.indices \in Seq(Int)
      BY <1>1, Geometry DEF Corpus
    <2>2. c.nnz * w \in Nat
      BY <1>1, <2>1
    <2> QED
      BY <2>1, <2>2
  <1> DEFINE start   == [NoFile EXCEPT !.source = c, !.width = w]
             head    == Put(start, <<<<c.rows, c.cols, c.nnz>>>>, HeaderBytes)
             indices == Put(Put(head, c.indptr, OffsetBytes), c.indices, TermBytes)
             aligned == [indices EXCEPT !.written = native_values_offset(c.rows, c.nnz)]
             codes   == Put(aligned, c.values, w)
             whole   == ValuesAt(c) + c.nnz * w
  <1>3. native' = [codes EXCEPT !.bytes = codes.written] /\ conv' = conv /\ Converting("idle")
    BY DEF WriteCodes
  <1>4. start = File(c, w, 0, 0)
    BY <1>1, Emptied
  <1>5. head = File(c, w, 24, 0)
    BY <1>1, <1>4, PutHeader
  <1>6. Put(head, c.indptr, OffsetBytes) = File(c, w, TermsAt(c), 0)
    BY <1>1, <1>5, PutOffsets
  <1>7. indices = File(c, w, TermsAt(c) + c.nnz * 2, 0)
    BY <1>1, <1>6, PutAllTerms
  <1>8. aligned = File(c, w, ValuesAt(c), 0)
    <2>1. aligned = [indices EXCEPT !.written = ValuesAt(c)]
      BY DEF ValuesAt
    <2>2. [File(c, w, TermsAt(c) + c.nnz * 2, 0) EXCEPT !.written = ValuesAt(c)] = File(c, w, ValuesAt(c), 0)
      BY <1>1, PaddingIsEmpty
    <2> HIDE DEF aligned, indices
    <2> QED
      BY <1>7, <2>1, <2>2
  <1>9. codes = File(c, w, whole, 0)
    <2>1. Put(File(c, w, ValuesAt(c), 0), c.values, w) = File(c, w, whole, 0)
      BY <1>1, PutAllValues
    <2> HIDE DEF aligned, whole
    <2> QED
      BY <1>8, <2>1
  <1>10. whole \in Nat /\ \A i \in 1 .. c.nnz : TermFits(c, c.indices[i])
    <2>1. whole \in Nat
      BY <1>2
    <2>2. DOMAIN c.indices = 1 .. c.nnz
      BY <1>2
    <2> HIDE DEF whole
    <2> QED
      BY <1>1, <2>1, <2>2
  <1>11. FileInv(codes) /\ codes.written = whole
    <2>1. 0 \in Nat /\ 0 <= whole /\ whole <= ValuesAt(c) + c.nnz * w
      BY <1>10
    <2> HIDE DEF codes
    <2> QED
      BY <1>1, <1>9, <1>10, <2>1, FileSound
  <1> HIDE DEF codes
  <1>12. FileInv(native') /\ native'.written = native'.bytes
    BY <1>3, <1>10, <1>11, AllDrained
  <1>13. ConvInv'
    BY <1>3, <1>12 DEF ConvInv, Converting
  <1> QED
    BY <1>12, <1>13 DEF NativeInv

(* The header alone of an interchange file reaches a cell of it. *)
LEMMA Interchanged ==
  ASSUME NEW c \in Inputs, Corpus(c), c.nnz >= 2, NEW f, NEW old,
         old = File(c, 4, TermsAt(c), 0),
         f = [written |-> FloatsAt(c), bytes |-> 0, source |-> c, width |-> 4,
              cells |-> old.cells \union
                {[at |-> TermsAt(c) + (i - 1) * 4, bytes |-> TermBytes, value |-> c.indices[i]] :
                   i \in 1 .. c.nnz}]
  PROVE  LET g == Put(f, c.values, FloatBytes)
             h == [g EXCEPT !.bytes = g.written]
         IN  InterchangeInv(h) /\ h.written = h.bytes
  <1> DEFINE n == c.nnz
             t == TermsAt(c)
             v == FloatsAt(c)
             whole == v + n * 4
             halves == {[at |-> t + (i - 1) * 4, bytes |-> TermBytes, value |-> c.indices[i]] : i \in 1 .. n}
             floats == {[at |-> v + (i - 1) * 4, bytes |-> 4, value |-> c.values[i]] : i \in 1 .. n}
             cells == old.cells \union halves \union floats
             g == Put(f, c.values, 4)
             h == [g EXCEPT !.bytes = g.written]
  <1>1. /\ n \in Nat /\ t = 24 + (c.rows + 1) * 8 /\ c.rows \in Nat /\ t \in Nat
        /\ t + n * 2 <= ValuesAt(c) /\ ValuesAt(c) \in Nat /\ Len(c.values) = n
    BY Geometry DEF Corpus
  <1>2. f.written = v /\ f.cells = old.cells \union halves
    OBVIOUS
  <1>3. g = [written |-> whole, bytes |-> 0, source |-> c, width |-> 4, cells |-> cells]
    <2>1. g = [f EXCEPT !.written = f.written + Len(c.values) * 4,
                        !.cells = f.cells \union {[at |-> f.written + (i - 1) * 4, bytes |-> 4,
                                                   value |-> c.values[i]] : i \in 1 .. Len(c.values)}]
      BY DEF Put
    <2>2. g = [f EXCEPT !.written = whole, !.cells = cells]
      BY <1>1, <1>2, <2>1
    <2> HIDE DEF whole, cells, halves
    <2>3. f = [written |-> v, bytes |-> 0, source |-> c, width |-> 4, cells |-> f.cells]
      OBVIOUS
    <2> HIDE DEF v, g
    <2> QED
      BY <2>2, <2>3
  <1> HIDE DEF g
  <1>4. h = [written |-> whole, bytes |-> whole, source |-> c, width |-> 4, cells |-> cells]
    <2> HIDE DEF whole, cells
    <2> QED
      BY <1>3
  <1>5. old.cells = Below(Layout(c, 4), t)
    BY DEF File
  <1>6. HeaderCell(c) \in old.cells
    <2>1. End(HeaderCell(c)) = 24
      BY Ends
    <2>2. 24 <= t
      BY <1>1
    <2> QED
      BY <1>5, <2>1, <2>2 DEF Below, Layout
  <1>7. ASSUME NEW x \in old.cells
        PROVE  x = HeaderCell(c) \/ \E i \in 1 .. c.rows + 1 : x = OffsetCell(c, i)
    <2>1. x \in Layout(c, 4) /\ End(x) <= t
      BY <1>5 DEF Below
    <2>2. ~\E i \in 1 .. c.nnz : End(x) = TermsAt(c) + i * 2
      BY <1>1, <2>1
    <2>3. End(x) \in Nat
      BY <2>1, Sections
    <2>4. ~(End(x) > ValuesAt(c))
      BY <1>1, <2>1, <2>3
    <2> QED
      BY <2>1, <2>2, <2>4, Sections
  <1>8. cells \subseteq Spread(c, 4, v, 4)
    BY <1>7 DEF Spread, Cell
  <1> HIDE DEF h, cells, whole
  <1>9. InterchangeInv(h)
    BY <1>4, <1>6, <1>8 DEF InterchangeInv, cells, whole
  <1> QED
    BY <1>4, <1>9 DEF h, g, FloatBytes

(* With one entry at most an interchange file is the native one. *)
LEMMA AsNative ==
  ASSUME NEW c \in Inputs, Corpus(c), c.nnz < 2, NEW f, NEW old,
         old = File(c, 4, TermsAt(c), 0),
         \A i \in 1 .. c.nnz : TermFits(c, c.indices[i]),
         f = [written |-> FloatsAt(c), bytes |-> 0, source |-> c, width |-> 4,
              cells |-> old.cells \union
                {[at |-> TermsAt(c) + (i - 1) * 4, bytes |-> TermBytes, value |-> c.indices[i]] :
                   i \in 1 .. c.nnz}]
  PROVE  LET g == Put(f, c.values, FloatBytes)
             h == [g EXCEPT !.bytes = g.written]
         IN  FileInv(h) /\ h.written = h.bytes
  <1> DEFINE n == c.nnz
             t == TermsAt(c)
             whole == ValuesAt(c) + n * 4
             wide == {[at |-> t + (i - 1) * 4, bytes |-> TermBytes, value |-> c.indices[i]] : i \in 1 .. n}
             near == {[at |-> t + (i - 1) * TermBytes, bytes |-> TermBytes, value |-> c.indices[i]] : i \in 1 .. n}
             terms == Put(old, c.indices, TermBytes)
             g == Put(f, c.values, 4)
  <1>1. /\ n \in {0, 1} /\ t = 24 + (c.rows + 1) * 8 /\ c.rows \in Nat /\ t \in Nat
        /\ ValuesAt(c) \in Nat /\ Len(c.indices) = n
    <2>1. n \in Nat /\ c.rows \in Nat /\ Len(c.indices) = n
      BY DEF Corpus
    <2>2. n \in {0, 1}
      BY <2>1
    <2> QED
      BY <2>1, <2>2, Geometry
  <1>2. FloatsAt(c) = ValuesAt(c)
    <2>1. t % 4 = 0 /\ (t + 2) % 4 = 2
      BY <1>1
    <2>2. \A pos : pos = t + n * 2 => pos + padding(pos) = ValuesAt(c)
      BY Geometry
    <2>3. CASE n = 0
      <3>1. t + padding(t) = ValuesAt(c)
        BY <1>1, <2>2, <2>3
      <3>2. padding(t) = 0
        BY <2>1 DEF padding, FloatBytes
      <3> QED
        BY <1>1, <2>3, <3>1, <3>2 DEF FloatsAt
    <2>4. CASE n = 1
      <3>1. (t + 2) + padding(t + 2) = ValuesAt(c)
        BY <1>1, <2>2, <2>4
      <3>2. padding(t + 2) = 2
        BY <2>1 DEF padding, FloatBytes
      <3> QED
        BY <1>1, <2>4, <3>1, <3>2 DEF FloatsAt
    <2> QED
      BY <1>1, <2>3, <2>4
  <1>3. wide = near
    <2>1. \A i \in 1 .. n : (i - 1) * 4 = (i - 1) * TermBytes
      BY <1>1 DEF TermBytes
    <2> QED
      BY <2>1
  <1>4. terms = File(c, 4, t + n * 2, 0)
    BY PutAllTerms
  <1>5. terms.cells = old.cells \union near
    <2>1. old.written = t
      BY DEF File
    <2>2. terms = [old EXCEPT !.written = old.written + Len(c.indices) * TermBytes,
                     !.cells = old.cells \union {[at |-> old.written + (i - 1) * TermBytes, bytes |-> TermBytes,
                                                  value |-> c.indices[i]] : i \in 1 .. Len(c.indices)}]
      BY DEF Put
    <2>3. "cells" \in DOMAIN old /\ "written" \in DOMAIN old
      BY DEF File
    <2> HIDE DEF terms
    <2> QED
      BY <1>1, <2>1, <2>2, <2>3
  <1> HIDE DEF terms, wide, near
  <1>6. f = [terms EXCEPT !.written = ValuesAt(c)]
    <2>1. f = [written |-> FloatsAt(c), bytes |-> 0, source |-> c, width |-> 4, cells |-> old.cells \union wide]
      BY DEF wide
    <2>2. terms = [written |-> t + n * 2, bytes |-> 0, source |-> c, width |-> 4, cells |-> terms.cells]
      BY <1>4 DEF File
    <2>3. f = [written |-> ValuesAt(c), bytes |-> 0, source |-> c, width |-> 4, cells |-> terms.cells]
      BY <1>2, <1>3, <1>5, <2>1
    <2> DEFINE held == terms.cells
               m == ValuesAt(c)
    <2> HIDE DEF held, m
    <2>4. [terms EXCEPT !.written = m] = [written |-> m, bytes |-> 0, source |-> c, width |-> 4, cells |-> held]
      BY <2>2 DEF held
    <2> QED
      BY <2>3, <2>4 DEF held, m
  <1>7. f = File(c, 4, ValuesAt(c), 0)
    BY <1>4, <1>6, PaddingIsEmpty
  <1>8. g = File(c, 4, whole, 0)
    BY <1>7, PutAllValues
  <1>9. whole \in Nat /\ 0 <= whole
    BY <1>1
  <1> HIDE DEF g
  <1>10. FileInv(g) /\ g.written = whole
    <2>1. 0 \in Nat /\ whole <= ValuesAt(c) + c.nnz * 4
      BY <1>1
    <2> QED
      BY <1>8, <1>9, <2>1, FileSound
  <1>11. FileInv([g EXCEPT !.bytes = g.written]) /\ [g EXCEPT !.bytes = g.written].written = [g EXCEPT !.bytes = g.written].bytes
    BY <1>9, <1>10, AllDrained
  <1> QED
    BY <1>11 DEF g, FloatBytes

LEMMA OfferKeeps ==
  ASSUME NEW c \in Inputs, OfferInterchange(c)
  PROVE  NativeInv'
  <1>1. Corpus(c) /\ \A i \in DOMAIN c.indices : TermFits(c, c.indices[i])
    BY TakenIsACorpus DEF OfferInterchange
  <1>2. c.nnz \in Nat /\ c.indices \in Seq(Int) /\ Len(c.indices) = c.nnz /\ TermsAt(c) \in Nat
    BY <1>1, Geometry DEF Corpus
  <1> DEFINE start   == [NoFile EXCEPT !.source = c, !.width = FloatBytes]
             head    == Put(start, <<<<c.rows, c.cols, c.nnz>>>>, HeaderBytes)
             offsets == Put(head, c.indptr, OffsetBytes)
             halves  == {[at |-> offsets.written + (i - 1) * 4, bytes |-> TermBytes,
                          value |-> c.indices[i]] : i \in 1 .. c.nnz}
             spread  == [offsets EXCEPT !.written = offsets.written + c.nnz * 4,
                                        !.cells = offsets.cells \union halves]
             values  == Put(spread, c.values, FloatBytes)
  <1>3. native' = [values EXCEPT !.bytes = values.written] /\ conv' = conv /\ Converting("idle")
    BY DEF OfferInterchange
  <1>4. start = File(c, 4, 0, 0)
    BY <1>1, Emptied DEF FloatBytes
  <1>5. head = File(c, 4, 24, 0)
    BY <1>1, <1>4, PutHeader
  <1>6. offsets = File(c, 4, TermsAt(c), 0)
    BY <1>1, <1>5, PutOffsets
  <1> HIDE DEF offsets
  <1>7. spread = [written |-> FloatsAt(c), bytes |-> 0, source |-> c, width |-> 4,
                  cells |-> offsets.cells \union
                    {[at |-> TermsAt(c) + (i - 1) * 4, bytes |-> TermBytes, value |-> c.indices[i]] :
                       i \in 1 .. c.nnz}]
    <2>1. offsets = [written |-> TermsAt(c), bytes |-> 0, source |-> c, width |-> 4, cells |-> offsets.cells]
      BY <1>6 DEF File
    <2>2. offsets.written = TermsAt(c)
      BY <2>1
    <2>3. halves = {[at |-> TermsAt(c) + (i - 1) * 4, bytes |-> TermBytes, value |-> c.indices[i]] : i \in 1 .. c.nnz}
      BY <2>2
    <2> HIDE DEF halves
    <2> DEFINE held == offsets.cells
               all  == held \union halves
               m    == FloatsAt(c)
    <2>4. spread = [offsets EXCEPT !.written = m, !.cells = all]
      BY <2>2 DEF FloatsAt
    <2>5. offsets = [written |-> TermsAt(c), bytes |-> 0, source |-> c, width |-> 4, cells |-> held]
      BY <2>1
    <2> HIDE DEF held, all, m, spread
    <2>6. spread = [written |-> m, bytes |-> 0, source |-> c, width |-> 4, cells |-> all]
      BY <2>4, <2>5
    <2> QED
      BY <2>3, <2>6 DEF held, all, m
  <1> HIDE DEF spread
  <1>8. /\ FileInv(native') \/ InterchangeInv(native')
        /\ native'.written = native'.bytes
    <2>1. CASE c.nnz >= 2
      BY <1>1, <1>3, <1>6, <1>7, <2>1, Interchanged
    <2>2. CASE c.nnz < 2
      <3>1. \A i \in 1 .. c.nnz : TermFits(c, c.indices[i])
        BY <1>1, <1>2
      <3> QED
        BY <1>1, <1>3, <1>6, <1>7, <2>2, <3>1, AsNative
    <2> QED
      BY <1>2, <2>1, <2>2
  <1>9. ConvInv'
    BY <1>3, <1>8 DEF ConvInv, Converting
  <1> QED
    BY <1>8, <1>9 DEF NativeInv

(* The native file, and the conversion that writes it, are sound throughout. *)
LEMMA NativeStep == ASSUME NativeInv, [Next]_vars PROVE NativeInv'
  <1>1. ASSUME NEW c \in Inputs, Open(c)
        PROVE  NativeInv'
    BY <1>1, OpenKeeps
  <1>2. ASSUME NEW c \in Inputs, NEW w \in Widths \ {FloatBytes}, WriteCodes(c, w)
        PROVE  NativeInv'
    BY <1>2, WriteCodesKeeps
  <1>3. ASSUME UNCHANGED <<conv, native>>
        PROVE  NativeInv'
    BY <1>3 DEF NativeInv, ConvInv, Converting, Source
  <1>4. ASSUME (\E c \in Inputs : Copy(c)) \/ Map \/ BuildInverted \/ UNCHANGED vars
        PROVE  UNCHANGED <<conv, native>>
    BY <1>4 DEF Copy, Map, BuildInverted, vars
  <1>5. ASSUME NEW c \in Inputs, OfferInterchange(c)
        PROVE  NativeInv'
    BY <1>5, OfferKeeps
  <1> QED
    BY <1>1, <1>2, <1>3, <1>4, <1>5, WriteIndptrKeeps, WriteIndicesKeeps, WritePaddingKeeps,
       WriteValuesKeeps, FinishKeeps, DrainKeeps, AbandonKeeps DEF Next
-----------------------------------------------------------------------------
(* Reading it back. *)

(* No two cells of a layout end together. *)
LEMMA EndsDiffer ==
  ASSUME NEW c, NEW w \in {1, 2, 4}, Corpus(c), NEW x \in Layout(c, w), NEW y \in Layout(c, w),
         End(x) = End(y)
  PROVE  x = y
  <1>1. /\ c.rows \in Nat /\ c.nnz \in Nat /\ TermsAt(c) = 24 + (c.rows + 1) * 8
        /\ TermsAt(c) \in Nat /\ ValuesAt(c) \in Nat /\ TermsAt(c) + c.nnz * 2 <= ValuesAt(c)
    BY Geometry DEF Corpus
  <1>2. \A i, j \in Int : ValuesAt(c) + i * w = ValuesAt(c) + j * w => i = j
    <2>1. CASE w = 1
      BY <1>1, <2>1
    <2>2. CASE w = 2
      BY <1>1, <2>2
    <2>3. CASE w = 4
      BY <1>1, <2>3
    <2> QED
      BY <2>1, <2>2, <2>3
  <1>3. CASE End(x) = 24
    <2>1. ASSUME NEW z \in Layout(c, w), End(z) = 24 PROVE z = HeaderCell(c)
      <3>1. ~\E i \in 1 .. c.rows + 1 : End(z) = 24 + i * 8
        BY <1>1, <2>1
      <3>2. ~\E i \in 1 .. c.nnz : End(z) = TermsAt(c) + i * 2
        BY <1>1, <2>1
      <3>3. ~(End(z) > ValuesAt(c))
        BY <1>1, <2>1
      <3> QED
        BY <3>1, <3>2, <3>3, Sections
    <2> QED
      BY <1>3, <2>1
  <1>4. ASSUME NEW i \in 1 .. c.rows + 1, x = OffsetCell(c, i), End(x) = 24 + i * 8
        PROVE  x = y
    <2>1. ~(\E j \in 1 .. c.nnz : End(y) = TermsAt(c) + j * 2) /\ End(y) # 24 /\ ~(End(y) > ValuesAt(c))
      BY <1>1, <1>4
    <2>2. PICK j \in 1 .. c.rows + 1 : y = OffsetCell(c, j) /\ End(y) = 24 + j * 8
      BY <2>1, Sections
    <2>3. i = j
      BY <1>1, <1>4, <2>2
    <2> QED
      BY <1>4, <2>2, <2>3
  <1>5. ASSUME NEW i \in 1 .. c.nnz, x = TermCell(c, i), End(x) = TermsAt(c) + i * 2
        PROVE  x = y
    <2>1. ~(\E j \in 1 .. c.rows + 1 : End(y) = 24 + j * 8) /\ End(y) # 24 /\ ~(End(y) > ValuesAt(c))
      BY <1>1, <1>5
    <2>2. PICK j \in 1 .. c.nnz : y = TermCell(c, j) /\ End(y) = TermsAt(c) + j * 2
      BY <2>1, Sections
    <2>3. i = j
      BY <1>1, <1>5, <2>2
    <2> QED
      BY <1>5, <2>2, <2>3
  <1>6. ASSUME NEW i \in 1 .. c.nnz, x = ValueCell(c, w, i), End(x) = ValuesAt(c) + i * w,
               End(x) > ValuesAt(c)
        PROVE  x = y
    <2>1. End(y) # 24 /\ ~(End(y) <= TermsAt(c)) /\ ~(End(y) <= ValuesAt(c))
      <3>1. End(y) \in Int /\ End(x) \in Int
        BY Sections
      <3> QED
        BY <1>1, <1>6, <3>1
    <2>2. PICK j \in 1 .. c.nnz : y = ValueCell(c, w, j) /\ End(y) = ValuesAt(c) + j * w
      BY <2>1, Sections
    <2>3. i = j
      BY <1>1, <1>2, <1>6, <2>2
    <2> QED
      BY <1>6, <2>2, <2>3
  <1> QED
    BY <1>3, <1>4, <1>5, <1>6, Sections

(* What is read where a cell is that reached the disk. *)
LEMMA Reads ==
  ASSUME NEW f, NEW at \in Int, NEW w \in Int, NEW v, FileInv(f),
         Cell(at, w, v) \in Layout(f.source, f.width), at + w <= f.bytes
  PROVE  ReadAt(f, at, w) = v
  <1> DEFINE c == f.source
             L == Layout(c, f.width)
             n == f.written
             b == f.bytes
             found == {x \in f.cells : x.at = at /\ x.bytes = w /\ at + w <= f.bytes}
             cell == Cell(at, w, v)
  <1>1. /\ Corpus(c) /\ f.width \in {1, 2, 4} /\ n \in Nat /\ b \in Nat /\ b <= n
        /\ f = File(c, f.width, n, b)
    BY DEF FileInv
  <1>2. f.cells = Below(L, n)
    BY <1>1 DEF File
  <1>3. End(cell) = at + w /\ cell.at = at /\ cell.bytes = w /\ cell.value = v
    BY DEF End, Cell
  <1>4. cell \in L /\ at + w <= b
    OBVIOUS
  <1> HIDE DEF L, cell, c, n, b
  <1>5. cell \in found
    <2>1. cell \in f.cells
      <3>1. at + w <= n
        BY <1>1, <1>4
      <3> QED
        BY <1>2, <1>3, <1>4, <3>1 DEF Below
    <2> QED
      BY <1>3, <1>4, <2>1 DEF b
  <1>6. ASSUME NEW x \in found
        PROVE  x = cell
    <2>1. x \in L /\ End(x) = at + w
      BY <1>2 DEF Below, End
    <2> QED
      BY <1>1, <1>3, <1>4, <2>1, EndsDiffer DEF L
  <1>7. (CHOOSE x \in found : TRUE) = cell /\ found # {}
    <2> HIDE DEF found
    <2> QED
      BY <1>5, <1>6
  <1> QED
    BY <1>3, <1>7 DEF ReadAt

(* Where n elements of a bytes end depends on a if there is one. *)
LEMMA Products ==
  ASSUME NEW p \in Nat, NEW n \in Nat, NEW a \in {1, 2, 4}
  PROVE  /\ After(p, n, a) \in Nat /\ p <= After(p, n, a)
         /\ After(p, n, 4) <= After(p, n, a) => After(p, n, a) = After(p, n, 4)
  <1>1. CASE a = 1
    BY <1>1 DEF After
  <1>2. CASE a = 2
    BY <1>2 DEF After
  <1>3. CASE a = 4
    BY <1>3 DEF After
  <1> QED
    BY <1>1, <1>2, <1>3

LEMMA SameWidth ==
  ASSUME NEW p \in Nat, NEW n \in Nat, NEW a \in {1, 2, 4}, NEW b \in {1, 2, 4},
         After(p, n, a) = After(p, n, b)
  PROVE  n = 0 \/ a = b
  <1>1. CASE a = 1
    BY <1>1 DEF After
  <1>2. CASE a = 2
    BY <1>2 DEF After
  <1>3. CASE a = 4
    BY <1>3 DEF After
  <1> QED
    BY <1>1, <1>2, <1>3

LEMMA TermsFirst ==
  ASSUME NEW c, Corpus(c)
  PROVE  TermsAt(c) \in Nat /\ ValuesAt(c) \in Nat /\ TermsAt(c) <= ValuesAt(c)
  <1>1. /\ c.nnz \in Nat /\ TermsAt(c) \in Nat /\ ValuesAt(c) \in Nat
        /\ TermsAt(c) + c.nnz * 2 <= ValuesAt(c)
    BY Geometry DEF Corpus
  <1> QED
    BY <1>1

(* Each of n elements that start at p is within them. *)
LEMMA Within ==
  ASSUME NEW p \in Nat, NEW n \in Nat, NEW a \in Sizes, NEW i \in 1 .. n
  PROVE  After(p, i - 1, a) \in Int /\ After(p, i - 1, a) + a <= After(p, n, a)
  <1>0. a \in {1, 2, 4, 8, 24}
    BY DEF Sizes
  <1>1. CASE a = 1
    BY <1>1 DEF After
  <1>2. CASE a = 2
    BY <1>2 DEF After
  <1>3. CASE a = 4
    BY <1>3 DEF After
  <1>4. CASE a = 8
    BY <1>4 DEF After
  <1>5. CASE a = 24
    BY <1>5 DEF After
  <1> QED
    BY <1>0, <1>1, <1>2, <1>3, <1>4, <1>5

(* The header and the arrays of a file that reaches its values. *)
LEMMA ReadsHeader ==
  ASSUME NEW f, FileInv(f), f.bytes >= 24
  PROVE  ReadAt(f, 0, HeaderBytes) = <<f.source.rows, f.source.cols, f.source.nnz>>
  <1> DEFINE c == f.source
  <1>1. HeaderCell(c) \in Layout(c, f.width)
    BY DEF Layout
  <1>2. Cell(0, 24, <<c.rows, c.cols, c.nnz>>) \in Layout(f.source, f.width)
    BY <1>1 DEF HeaderCell, HeaderBytes
  <1>3. 0 + 24 <= f.bytes
    BY DEF FileInv
  <1>4. 0 \in Int /\ 24 \in Int
    OBVIOUS
  <1>5. ReadAt(f, 0, 24) = <<c.rows, c.cols, c.nnz>>
    BY <1>2, <1>3, <1>4, Reads
  <1> QED
    BY <1>5 DEF HeaderBytes

LEMMA ReadsOffsets ==
  ASSUME NEW f, FileInv(f), f.bytes >= ValuesAt(f.source)
  PROVE  ReadArray(f, HeaderBytes, f.source.rows + 1, OffsetBytes) = f.source.indptr
  <1> DEFINE c == f.source
  <1>1. /\ Corpus(c) /\ f.bytes \in Nat
    BY DEF FileInv
  <1>2. /\ c.rows \in Nat /\ c.nnz \in Nat /\ TermsAt(c) \in Nat /\ TermsAt(c) = 24 + (c.rows + 1) * 8
        /\ TermsAt(c) + c.nnz * 2 <= ValuesAt(c) /\ ValuesAt(c) \in Nat
        /\ c.indptr \in Seq(Int) /\ Len(c.indptr) = c.rows + 1
    BY <1>1, Geometry DEF Corpus
  <1>0. TermsAt(c) <= f.bytes
    <2>1. f.bytes >= ValuesAt(c)
      OBVIOUS
    <2>2. TermsAt(c) \in Nat /\ ValuesAt(c) \in Nat /\ TermsAt(c) <= ValuesAt(c)
      BY <1>1, TermsFirst
    <2> HIDE DEF c
    <2> QED
      BY <1>1, <2>1, <2>2
  <1>3. ASSUME NEW i \in 1 .. c.rows + 1
        PROVE  ReadAt(f, HeaderBytes + (i - 1) * OffsetBytes, OffsetBytes) = c.indptr[i]
    <2> DEFINE at == HeaderBytes + (i - 1) * OffsetBytes
    <2>1. at \in Int /\ at + OffsetBytes <= f.bytes /\ OffsetBytes \in Int
      <3>1. at = After(24, i - 1, 8) /\ OffsetBytes = 8 /\ 8 \in Sizes /\ 24 \in Nat
        BY DEF HeaderBytes, OffsetBytes, After, Sizes
      <3>2. c.rows + 1 \in Nat /\ After(24, c.rows + 1, 8) = TermsAt(c)
        <4>1. c.rows + 1 \in Nat
          <5>1. c.rows \in Nat
            BY <1>2
          <5> HIDE DEF c
          <5> QED
            BY <5>1
        <4>2. After(24, c.rows + 1, 8) = TermsAt(c)
          BY DEF After, TermsAt, HeaderBytes, OffsetBytes
        <4> QED
          BY <4>1, <4>2
      <3> HIDE DEF c, at
      <3>3. at \in Int /\ at + 8 <= TermsAt(c)
        BY <3>1, <3>2, Within
      <3>4. TermsAt(c) \in Nat /\ f.bytes \in Nat
        BY <1>1, <1>2
      <3> QED
        BY <1>0, <3>1, <3>3, <3>4
    <2>2. OffsetCell(c, i) \in Layout(c, f.width)
      BY DEF Layout
    <2>3. Cell(at, OffsetBytes, c.indptr[i]) \in Layout(f.source, f.width)
      BY <2>2 DEF OffsetCell
    <2> HIDE DEF at
    <2>4. ReadAt(f, at, OffsetBytes) = c.indptr[i]
      BY <2>1, <2>3, Reads
    <2> QED
      BY <2>4 DEF at
  <1>4. c.indptr = [i \in 1 .. c.rows + 1 |-> c.indptr[i]]
    BY <1>2
  <1> QED
    BY <1>3, <1>4 DEF ReadArray

LEMMA ReadsTerms ==
  ASSUME NEW f, FileInv(f), f.bytes >= ValuesAt(f.source)
  PROVE  ReadArray(f, HeaderBytes + (f.source.rows + 1) * OffsetBytes, f.source.nnz, TermBytes)
           = f.source.indices
  <1> DEFINE c == f.source
  <1>1. /\ Corpus(c) /\ f.bytes \in Nat
    BY DEF FileInv
  <1>2. /\ c.nnz \in Nat /\ TermsAt(c) \in Nat
        /\ TermsAt(c) + c.nnz * 2 <= ValuesAt(c) /\ ValuesAt(c) \in Nat
        /\ c.indices \in Seq(Int) /\ Len(c.indices) = c.nnz
    BY <1>1, Geometry DEF Corpus
  <1>0. TermsAt(c) + c.nnz * 2 <= f.bytes
    <2>1. f.bytes >= ValuesAt(c)
      OBVIOUS
    <2> HIDE DEF c
    <2> QED
      BY <1>1, <1>2, <2>1
  <1>3. ASSUME NEW i \in 1 .. c.nnz
        PROVE  ReadAt(f, TermsAt(c) + (i - 1) * TermBytes, TermBytes) = c.indices[i]
    <2> DEFINE at == TermsAt(c) + (i - 1) * TermBytes
    <2>1. at \in Int /\ at + TermBytes <= f.bytes /\ TermBytes \in Int
      <3>1. at = After(TermsAt(c), i - 1, 2) /\ TermBytes = 2 /\ 2 \in Sizes
        BY DEF TermBytes, After, Sizes
      <3>2. After(TermsAt(c), c.nnz, 2) <= f.bytes
        BY <1>0 DEF After
      <3> HIDE DEF c, at
      <3>3. at \in Int /\ at + 2 <= After(TermsAt(c), c.nnz, 2)
        BY <1>2, <3>1, Within
      <3>4. After(TermsAt(c), c.nnz, 2) \in Nat /\ f.bytes \in Nat
        BY <1>1, <1>2 DEF After
      <3> QED
        BY <3>1, <3>2, <3>3, <3>4
    <2>2. TermCell(c, i) \in Layout(c, f.width)
      BY DEF Layout
    <2>3. Cell(at, TermBytes, c.indices[i]) \in Layout(f.source, f.width)
      BY <2>2 DEF TermCell
    <2> HIDE DEF at
    <2>4. ReadAt(f, at, TermBytes) = c.indices[i]
      BY <2>1, <2>3, Reads
    <2> QED
      BY <2>4 DEF at
  <1>4. c.indices = [i \in 1 .. c.nnz |-> c.indices[i]]
    BY <1>2
  <1>5. ReadArray(f, TermsAt(c), c.nnz, TermBytes) = [i \in 1 .. c.nnz |-> c.indices[i]]
    BY <1>3 DEF ReadArray
  <1> QED
    BY <1>4, <1>5 DEF TermsAt

LEMMA ReadsValues ==
  ASSUME NEW f, FileInv(f), f.bytes = ValuesAt(f.source) + f.source.nnz * f.width
  PROVE  ReadArray(f, ValuesAt(f.source), f.source.nnz, f.width) = f.source.values
  <1> DEFINE c == f.source
             w == f.width
  <1>1. /\ Corpus(c) /\ f.bytes \in Nat /\ w \in {1, 2, 4}
    BY DEF FileInv
  <1>2. /\ c.nnz \in Nat /\ ValuesAt(c) \in Nat /\ c.values \in Seq(Int) /\ Len(c.values) = c.nnz
    BY <1>1, Geometry DEF Corpus
  <1>3. ASSUME NEW i \in 1 .. c.nnz
        PROVE  ReadAt(f, ValuesAt(c) + (i - 1) * w, w) = c.values[i]
    <2> DEFINE at == ValuesAt(c) + (i - 1) * w
    <2>1. at \in Int /\ w \in Int /\ at + w <= f.bytes
      <3>1. at = After(ValuesAt(c), i - 1, w) /\ f.bytes = After(ValuesAt(c), c.nnz, w)
        BY DEF After
      <3>2. w \in Sizes /\ w \in Int
        BY <1>1 DEF Sizes
      <3> HIDE DEF c, w, at
      <3> QED
        BY <1>2, <3>1, <3>2, Within
    <2>3. ValueCell(c, w, i) \in Layout(c, w)
      BY DEF Layout
    <2>4. Cell(at, w, c.values[i]) \in Layout(f.source, f.width)
      BY <2>3 DEF ValueCell
    <2> HIDE DEF at
    <2>5. ReadAt(f, at, w) = c.values[i]
      BY <2>1, <2>4, Reads
    <2> QED
      BY <2>5 DEF at
  <1>4. c.values = [i \in 1 .. c.nnz |-> c.values[i]]
    <2> DEFINE s == c.values
               n == c.nnz
    <2>1. s \in Seq(Int) /\ Len(s) = n
      BY <1>2
    <2> HIDE DEF s, n
    <2>2. s = [i \in 1 .. n |-> s[i]]
      BY <2>1
    <2> QED
      BY <2>2 DEF s, n
  <1> QED
    BY <1>3, <1>4 DEF ReadArray

(* A mapped file is one whose every term was checked, read back whole       *)
(* unless it is a corpus of codes by its size alone.                        *)
(* An interchange file whose size is not a native one's is not mapped. *)
LEMMA TurnedAway ==
  ASSUME Map, width \in {1, 2, 4}
  PROVE  ~InterchangeInv(native)
  <1> SUFFICES ASSUME InterchangeInv(native) PROVE FALSE
    OBVIOUS
  <1> DEFINE c == native.source
  <1>1. /\ c \in Inputs /\ Corpus(c) /\ c.nnz >= 2
        /\ native.bytes = FloatsAt(c) + c.nnz * 4
        /\ HeaderCell(c) \in native.cells /\ native.cells \subseteq Spread(c, 4, FloatsAt(c), 4)
    BY DEF InterchangeInv
  <1>2. /\ c.rows \in Nat /\ c.nnz \in Nat /\ TermsAt(c) = 24 + (c.rows + 1) * 8 /\ TermsAt(c) \in Nat
        /\ ValuesAt(c) \in Nat /\ ValuesAt(c) <= TermsAt(c) + c.nnz * 2 + 3
        /\ native_file_size(c.rows, c.nnz, width) = ValuesAt(c) + c.nnz * width
    BY <1>1, Geometry DEF Corpus
  <1> HIDE DEF c
  <1>3. ASSUME NEW x \in native.cells, x.at = 0, x.bytes = 24
        PROVE  x = HeaderCell(c)
    <2>1. x \in Spread(c, 4, FloatsAt(c), 4)
      BY <1>1
    <2>2. ~\E i \in 1 .. c.rows + 1 : x = OffsetCell(c, i)
      BY <1>3 DEF OffsetCell, Cell, OffsetBytes
    <2>3. ~\E i \in 1 .. c.nnz : x = Cell(TermsAt(c) + (i - 1) * 4, TermBytes, c.indices[i])
      BY <1>3 DEF Cell, TermBytes
    <2>4. ~\E i \in 1 .. c.nnz : x = Cell(FloatsAt(c) + (i - 1) * 4, 4, c.values[i])
      BY <1>3 DEF Cell
    <2> QED
      BY <2>1, <2>2, <2>3, <2>4 DEF Spread
  <1>4. ReadAt(native, 0, HeaderBytes) = <<c.rows, c.cols, c.nnz>>
    <2> DEFINE found == {x \in native.cells : x.at = 0 /\ x.bytes = 24 /\ 0 + 24 <= native.bytes}
    <2>1. HeaderCell(c).at = 0 /\ HeaderCell(c).bytes = 24 /\ HeaderCell(c).value = <<c.rows, c.cols, c.nnz>>
      BY DEF HeaderCell, Cell, HeaderBytes
    <2>2. 0 + 24 <= native.bytes
      BY <1>1, <1>2 DEF FloatsAt
    <2>3. HeaderCell(c) \in found
      BY <1>1, <2>1, <2>2
    <2>4. \A x \in found : x = HeaderCell(c)
      BY <1>3
    <2>5. found # {} /\ (CHOOSE x \in found : TRUE) = HeaderCell(c)
      <3> HIDE DEF found
      <3> QED
        BY <2>3, <2>4
    <2>6. ReadAt(native, 0, 24) = HeaderCell(c).value
      BY <2>5 DEF ReadAt
    <2> QED
      BY <2>1, <2>6 DEF HeaderBytes
  <1>5. native.bytes = native_file_size(c.rows, c.nnz, width)
    BY <1>4 DEF Map
  <1>6. FloatsAt(c) + c.nnz * 4 = ValuesAt(c) + c.nnz * width
    BY <1>1, <1>2, <1>5
  <1>7. c.nnz * width <= c.nnz * 4
    <2>1. CASE width = 1
      BY <1>2, <2>1
    <2>2. CASE width = 2
      BY <1>2, <2>2
    <2>3. CASE width = 4
      BY <1>2, <2>3
    <2> QED
      BY <2>1, <2>2, <2>3
  <1>8. c.nnz * width \in Nat
    BY <1>2
  <1> QED
    BY <1>1, <1>2, <1>6, <1>7, <1>8 DEF FloatsAt

LEMMA MapKeeps == ASSUME NativeInv, VectorsInv, Map PROVE VectorsInv'
  <1> DEFINE f == native
             c == native.source
             v == Borrowed(native, ReadAt(native, 0, HeaderBytes))
  <1>1. FileInv(f) /\ f.bytes >= 24
    <2>1. ~InterchangeInv(native)
      BY SizesAssumption, TurnedAway DEF VectorsInv, FloatBytes
    <2> QED
      BY <2>1 DEF NativeInv, Map, NoFile, HeaderBytes
  <1>2. /\ c \in Inputs /\ Corpus(c) /\ f.width \in {1, 2, 4} /\ f.bytes \in Nat /\ f.written \in Nat
        /\ f.bytes <= f.written /\ f.written <= ValuesAt(c) + c.nnz * f.width
        /\ \A i \in 1 .. c.nnz : TermsAt(c) + i * 2 <= f.written => TermFits(c, c.indices[i])
    BY <1>1 DEF FileInv
  <1>3. width \in {1, 2, 4} /\ width' = width
    BY SizesAssumption DEF VectorsInv, Map, FloatBytes
  <1>4. /\ c.rows \in Nat /\ c.cols \in Nat /\ c.nnz \in Nat /\ TermsAt(c) \in Nat
        /\ TermsAt(c) + c.nnz * 2 <= ValuesAt(c) /\ ValuesAt(c) \in Nat
        /\ Len(c.indices) = c.nnz /\ Len(c.indptr) = c.rows + 1
        /\ c.indptr \in Seq(Int) /\ c.indices \in Seq(Int)
    BY <1>2, Geometry DEF Corpus
  <1>5. ReadAt(native, 0, HeaderBytes) = <<c.rows, c.cols, c.nnz>>
    BY <1>1, ReadsHeader
  <1>6. /\ c.cols \in 1 .. Dim /\ f.bytes = native_file_size(c.rows, c.nnz, width)
        /\ Mappable(v) /\ vectors_' = v /\ accepted' = <<c>> /\ csr_mapping_' = f
    BY <1>5 DEF Map
  <1>7. f.bytes = After(ValuesAt(c), c.nnz, width)
    <2>1. f.bytes = ValuesAt(c) + c.nnz * width
      BY <1>2, <1>6, Geometry
    <2> QED
      BY <2>1 DEF After
  <1>8. f.bytes >= ValuesAt(c)
    <2>1. c.nnz \in Nat /\ ValuesAt(c) \in Nat
      BY <1>4
    <2> HIDE DEF c
    <2>2. ValuesAt(c) <= After(ValuesAt(c), c.nnz, width) /\ After(ValuesAt(c), c.nnz, width) \in Nat
      BY <1>3, <2>1, Products
    <2> QED
      BY <1>7, <2>1, <2>2
  <1>9. v = [held |-> "borrowed", indptr |-> c.indptr, indices |-> c.indices,
             values |-> ReadArray(native, ValuesAt(c), c.nnz, width)]
    <2>1. ReadArray(native, HeaderBytes, c.rows + 1, OffsetBytes) = c.indptr
      BY <1>1, <1>8, ReadsOffsets
    <2>2. ReadArray(native, HeaderBytes + (c.rows + 1) * OffsetBytes, c.nnz, TermBytes) = c.indices
      BY <1>1, <1>8, ReadsTerms
    <2> DEFINE h == <<c.rows, c.cols, c.nnz>>
    <2>3. h[1] = c.rows /\ h[3] = c.nnz
      OBVIOUS
    <2> HIDE DEF h
    <2>4. Borrowed(native, h) = [held |-> "borrowed", indptr |-> c.indptr, indices |-> c.indices,
                                 values |-> ReadArray(native, ValuesAt(c), c.nnz, width)]
      BY <2>1, <2>2, <2>3 DEF Borrowed, ValuesAt
    <2> QED
      BY <1>5, <2>4 DEF h
  <1> HIDE DEF v
  <1>10. /\ vectors_'.held = "borrowed" /\ vectors_'.indptr = c.indptr /\ vectors_'.indices = c.indices
         /\ vectors_'.values = ReadArray(native, ValuesAt(c), c.nnz, width)
    BY <1>6, <1>9
  <1>11. Stored(vectors_') /\ Monotonic(vectors_'.indptr)
    <2>1. Mappable(vectors_')
      BY <1>6
    <2>2. \A i \in 1 .. c.nnz : c.indices[i] \in 0 .. Dim - 1
      <3>1. ASSUME NEW i \in 1 .. c.nnz
            PROVE  c.indices[i] \in 0 .. Dim - 1
        <4>1. TermsAt(c) + i * 2 <= f.written
          <5>1. f.written \in Nat /\ f.bytes \in Nat /\ f.bytes <= f.written
            BY <1>2
          <5>2. c.nnz \in Nat /\ TermsAt(c) \in Nat /\ TermsAt(c) + c.nnz * 2 <= ValuesAt(c)
                /\ ValuesAt(c) \in Nat
            BY <1>4
          <5>3. TermsAt(c) + i * 2 <= ValuesAt(c)
            <6> HIDE DEF c
            <6> QED
              BY <5>2
          <5>4. TermsAt(c) + i * 2 \in Int
            <6> HIDE DEF c
            <6> QED
              BY <5>2
          <5> HIDE DEF c, f
          <5> QED
            BY <1>8, <5>1, <5>2, <5>3, <5>4
        <4>2. TermFits(c, c.indices[i])
          <5>1. \A j \in 1 .. c.nnz : TermsAt(c) + j * 2 <= f.written => TermFits(c, c.indices[j])
            BY <1>2
          <5> QED
            BY <4>1, <5>1
        <4>3. Dim \in Nat
          BY SizesAssumption
        <4>4. c.indices[i] \in Int
          <5> HIDE DEF c
          <5> QED
            BY <1>4
        <4>5. c.cols \in Int /\ c.cols <= Dim
          BY <1>4, <1>6, <4>3
        <4> DEFINE t == c.indices[i]
        <4> HIDE DEF t, c
        <4> QED
          BY <4>2, <4>3, <4>4, <4>5 DEF TermFits, t
      <3> QED
        BY <3>1
    <2>3. Len(vectors_'.indptr) \in Nat \ {0}
      BY <1>4, <1>10
    <2> HIDE DEF c
    <2> QED
      BY <1>4, <1>10, <2>1, <2>2, <2>3 DEF Mappable, Stored
  <1>12. Whole' <=> f.bytes = After(ValuesAt(c), c.nnz, f.width)
    <2>1. native_file_size(c.rows, c.nnz, f.width) = ValuesAt(c) + c.nnz * f.width
      BY <1>2, Geometry
    <2> QED
      BY <1>6, <2>1 DEF Whole, After
  <1>13. width' = 4 => Whole'
    <2> SUFFICES ASSUME width = 4 PROVE f.bytes = After(ValuesAt(c), c.nnz, f.width)
      BY <1>3, <1>12
    <2>1. f.bytes <= After(ValuesAt(c), c.nnz, f.width)
      <3>1. f.bytes \in Nat /\ f.written \in Nat /\ f.bytes <= f.written
            /\ f.written <= After(ValuesAt(c), c.nnz, f.width)
        BY <1>2 DEF After
      <3>2. After(ValuesAt(c), c.nnz, f.width) \in Nat
        BY <1>2, <1>4, Products
      <3> HIDE DEF c, f
      <3> QED
        BY <3>1, <3>2
    <2>2. After(ValuesAt(c), c.nnz, 4) <= After(ValuesAt(c), c.nnz, f.width)
      BY <1>7, <2>1
    <2>3. After(ValuesAt(c), c.nnz, f.width) = After(ValuesAt(c), c.nnz, 4)
      BY <1>2, <1>4, <2>2, Products
    <2> QED
      BY <1>7, <2>3
  <1>14. Whole' => vectors_'.values = c.values
    <2> SUFFICES ASSUME f.bytes = After(ValuesAt(c), c.nnz, f.width) PROVE vectors_'.values = c.values
      BY <1>12
    <2>1. ReadArray(f, ValuesAt(c), c.nnz, f.width) = c.values
      BY <1>1, ReadsValues DEF After
    <2>2. c.nnz = 0 \/ width = f.width
      <3>1. After(ValuesAt(c), c.nnz, f.width) = After(ValuesAt(c), c.nnz, width)
        BY <1>7
      <3>2. c.nnz \in Nat /\ ValuesAt(c) \in Nat /\ f.width \in {1, 2, 4} /\ width \in {1, 2, 4}
        BY <1>2, <1>3, <1>4
      <3> HIDE DEF c, f
      <3> QED
        BY <3>1, <3>2, SameWidth
    <2>3. CASE width = f.width
      BY <1>10, <2>1, <2>3
    <2>4. CASE c.nnz = 0
      <3>1. \A g, at, w, w2 : ReadArray(g, at, 0, w) = ReadArray(g, at, 0, w2)
        BY DEF ReadArray
      <3> QED
        BY <1>10, <2>1, <2>4, <3>1
    <2> QED
      BY <2>2, <2>3, <2>4
  <1>15. BorrowedInv'
    BY <1>1, <1>6, <1>10, <1>11, <1>13, <1>14 DEF BorrowedInv
  <1>16. accepted' \in Seq(Inputs) /\ width' \in Widths
    BY <1>2, <1>3, <1>6 DEF VectorsInv
  <1> QED
    BY <1>15, <1>16 DEF VectorsInv
-----------------------------------------------------------------------------
(* Joining corpora. *)

(* Two sequences, one after the other. *)
LEMMA Joined ==
  ASSUME NEW S, NEW s \in Seq(S), NEW t \in Seq(S)
  PROVE  /\ s \o t \in Seq(S) /\ Len(s \o t) = Len(s) + Len(t)
         /\ \A i \in 1 .. Len(s) : (s \o t)[i] = s[i]
         /\ \A i \in 1 .. Len(t) : (s \o t)[Len(s) + i] = t[i]
  OBVIOUS

(* FlattenSeq is defined by recursion over the sequences it joins. *)
Flat(seqs) ==
  CHOOSE f : f = [i \in 1 .. Len(seqs) |-> IF i = 1 THEN seqs[i] ELSE f[i - 1] \o seqs[i]]

LEMMA FlattenIsFlat ==
  ASSUME NEW seqs, Len(seqs) # 0
  PROVE  FlattenSeq(seqs) = Flat(seqs)[Len(seqs)]
  BY DEF FlattenSeq, Flat

LEMMA FlatEquation ==
  ASSUME NEW S, NEW seqs \in Seq(Seq(S)), Len(seqs) # 0
  PROVE  /\ Flat(seqs)[1] = seqs[1]
         /\ \A i \in 2 .. Len(seqs) : Flat(seqs)[i] = Flat(seqs)[i - 1] \o seqs[i]
         /\ \A i \in 1 .. Len(seqs) : Flat(seqs)[i] \in Seq(S)
  <1> DEFINE m      == Len(seqs) - 1
             step   == [p \in Seq(S) \X Nat |-> IF p[2] \in 1 .. m THEN p[1] \o seqs[p[2] + 1] ELSE p[1]]
             Row_(f) == [i \in 1 .. Len(seqs) |-> IF i = 1 THEN seqs[i] ELSE f[i - 1] \o seqs[i]]
  <1>1. m \in Nat /\ Len(seqs) \in Nat /\ Len(seqs) = m + 1 /\ \A i \in 1 .. m + 1 : seqs[i] \in Seq(S)
    OBVIOUS
  <1> HIDE DEF m
  <1>2. PICK g : Recursion(g, Seq(S), seqs[1], step, m)
    <2>1. step \in [Seq(S) \X Nat -> Seq(S)]
      <3>1. ASSUME NEW p \in Seq(S) \X Nat
            PROVE  (IF p[2] \in 1 .. m THEN p[1] \o seqs[p[2] + 1] ELSE p[1]) \in Seq(S)
        <4>1. p[1] \in Seq(S) /\ p[2] \in Nat
          OBVIOUS
        <4>2. CASE p[2] \in 1 .. m
          <5>1. seqs[p[2] + 1] \in Seq(S)
            <6>1. p[2] + 1 \in 1 .. m + 1
              BY <1>1, <4>1, <4>2
            <6> QED
              BY <1>1, <6>1
          <5> QED
            BY <4>1, <4>2, <5>1
        <4> QED
          BY <4>1, <4>2
      <3> QED
        BY <3>1
    <2>2. seqs[1] \in Seq(S)
      BY <1>1
    <2> HIDE DEF step
    <2> QED
      BY <1>1, <2>1, <2>2, RecursionExists
  <1> DEFINE h == [i \in 1 .. Len(seqs) |-> g[i - 1]]
  <1>3. ASSUME NEW i \in 1 .. Len(seqs)
        PROVE  h[i] = (IF i = 1 THEN seqs[i] ELSE h[i - 1] \o seqs[i]) /\ h[i] \in Seq(S)
    <2>1. h[i] = g[i - 1] /\ i - 1 \in 0 .. m /\ g[i - 1] \in Seq(S)
      BY <1>1, <1>2 DEF Recursion
    <2>2. CASE i = 1
      BY <1>2, <2>1, <2>2 DEF Recursion
    <2>3. CASE i # 1
      <3> DEFINE n == i - 1
      <3>1. n \in 1 .. m /\ n \in Nat /\ n + 1 = i /\ i - 1 \in 1 .. Len(seqs)
        BY <1>1, <2>3
      <3>2. g[n] = step[<<g[n - 1], n>>] /\ g[n - 1] \in Seq(S)
        <4>1. n - 1 \in 0 .. m
          BY <1>1, <3>1
        <4> HIDE DEF n, step
        <4>2. g[n] = step[<<g[n - 1], n>>]
          BY <1>2, <3>1 DEF Recursion
        <4>3. g[n - 1] \in Seq(S)
          BY <1>2, <4>1 DEF Recursion
        <4> QED
          BY <4>2, <4>3
      <3>3. g[n] = g[n - 1] \o seqs[n + 1]
        BY <3>1, <3>2
      <3>4. h[i - 1] = g[n - 1]
        BY <3>1
      <3> HIDE DEF h
      <3> QED
        BY <2>1, <2>3, <3>1, <3>3, <3>4
    <2> QED
      BY <2>2, <2>3
  <1>4. h = Row_(h)
    <2>1. h = [i \in 1 .. Len(seqs) |-> h[i]]
      OBVIOUS
    <2> HIDE DEF h
    <2> QED
      BY <1>3, <2>1
  <1>5. Flat(seqs) = CHOOSE f : f = Row_(f)
    BY DEF Flat
  <1> HIDE DEF Row_, h
  <1>6. Flat(seqs) = Row_(Flat(seqs))
    BY <1>4, <1>5
  <1> DEFINE f == Flat(seqs)
  <1> HIDE DEF f
  <1>7. f = [i \in 1 .. Len(seqs) |-> IF i = 1 THEN seqs[i] ELSE f[i - 1] \o seqs[i]]
    BY <1>6 DEF Row_, f
  <1>8. f[1] = seqs[1] /\ \A i \in 2 .. Len(seqs) : f[i] = f[i - 1] \o seqs[i]
    <2>1. 1 \in 1 .. Len(seqs)
      BY <1>1
    <2>2. f[1] = seqs[1]
      BY <1>7, <2>1
    <2>3. ASSUME NEW i \in 2 .. Len(seqs)
          PROVE  f[i] = f[i - 1] \o seqs[i]
      <3>1. i \in 1 .. Len(seqs) /\ i # 1
        BY <1>1
      <3> QED
        BY <1>7, <3>1
    <2> QED
      BY <2>2, <2>3
  <1>9. \A i \in 1 .. Len(seqs) : f[i] \in Seq(S)
    <2> DEFINE T == {k \in Nat : k < Len(seqs) => f[k + 1] \in Seq(S)}
    <2>1. 0 \in T
      BY <1>1, <1>8
    <2>2. ASSUME NEW k \in Nat, k \in T
          PROVE  k + 1 \in T
      <3> SUFFICES ASSUME k + 1 < Len(seqs) PROVE f[(k + 1) + 1] \in Seq(S)
        OBVIOUS
      <3>1. f[k + 1] \in Seq(S)
        BY <1>1, <2>2
      <3> DEFINE i == (k + 1) + 1
      <3>2. i \in 2 .. Len(seqs) /\ i - 1 = k + 1 /\ i \in 1 .. m + 1
        BY <1>1
      <3> HIDE DEF i
      <3>3. f[i] = f[k + 1] \o seqs[i] /\ seqs[i] \in Seq(S)
        BY <1>1, <1>8, <3>2
      <3> QED
        BY <3>1, <3>3 DEF i
    <2> HIDE DEF T
    <2>3. \A k \in Nat : k \in T
      BY <2>1, <2>2, NatSetInduction
    <2>4. ASSUME NEW i \in 1 .. Len(seqs)
          PROVE  f[i] \in Seq(S)
      <3>1. i - 1 \in Nat /\ i - 1 < Len(seqs) /\ (i - 1) + 1 = i
        BY <1>1
      <3>2. i - 1 \in T
        BY <2>3, <3>1
      <3> QED
        BY <3>1, <3>2 DEF T
    <2> QED
      BY <2>4
  <1> QED
    BY <1>8, <1>9 DEF f

(* One more sequence joins at the end. *)
LEMMA FlattenAppend ==
  ASSUME NEW S, NEW s \in Seq(Seq(S)), NEW t \in Seq(Seq(S)), Len(t) = Len(s) + 1,
         \A i \in 1 .. Len(s) : s[i] = t[i]
  PROVE  FlattenSeq(t) = FlattenSeq(s) \o t[Len(t)] /\ FlattenSeq(t) \in Seq(S)
  <1> DEFINE n == Len(s)
             f == Flat(s)
             g == Flat(t)
  <1>1. n \in Nat /\ Len(t) = n + 1 /\ Len(t) # 0 /\ 1 \in 1 .. Len(t) /\ n + 1 \in 1 .. Len(t)
    OBVIOUS
  <1>2. /\ g[1] = t[1] /\ \A i \in 2 .. n + 1 : g[i] = g[i - 1] \o t[i]
        /\ \A i \in 1 .. n + 1 : g[i] \in Seq(S)
    BY <1>1, FlatEquation
  <1>3. FlattenSeq(t) = g[n + 1] /\ g[n + 1] \in Seq(S) /\ t[n + 1] \in Seq(S)
    BY <1>1, <1>2, FlattenIsFlat
  <1>4. CASE n = 0
    <2>1. s = <<>>
      BY <1>4
    <2>2. FlattenSeq(s) = <<>>
      BY <1>4, <2>1 DEF FlattenSeq
    <2>3. FlattenSeq(t) = t[1] /\ t[1] \in Seq(S)
      BY <1>1, <1>2, <1>3, <1>4
    <2>4. <<>> \o t[1] = t[1]
      BY <2>3
    <2> QED
      BY <1>1, <1>4, <2>2, <2>3, <2>4
  <1>5. CASE n # 0
    <2>1. /\ f[1] = s[1] /\ \A i \in 2 .. n : f[i] = f[i - 1] \o s[i]
      BY <1>5, FlatEquation
    <2>2. FlattenSeq(s) = f[n]
      BY <1>5, FlattenIsFlat
    <2> HIDE DEF f, g
    <2> DEFINE T == {k \in Nat : k < n => f[k + 1] = g[k + 1]}
    <2>3. 0 \in T
      <3>1. f[0 + 1] = g[0 + 1]
        <4>1. 1 \in 1 .. n /\ 0 + 1 = 1
          BY <1>1, <1>5
        <4>2. s[1] = t[1]
          BY <4>1
        <4> QED
          BY <1>2, <2>1, <4>1, <4>2
      <3> QED
        BY <3>1
    <2>4. ASSUME NEW k \in Nat, k \in T
          PROVE  k + 1 \in T
      <3> SUFFICES ASSUME k + 1 < n PROVE f[(k + 1) + 1] = g[(k + 1) + 1]
        OBVIOUS
      <3> DEFINE i == (k + 1) + 1
      <3>1. i \in 2 .. n /\ i \in 2 .. n + 1 /\ i \in 1 .. n /\ i - 1 = k + 1
        BY <1>1
      <3>2. f[k + 1] = g[k + 1]
        BY <1>1, <2>4
      <3> HIDE DEF i
      <3>3. f[i] = f[k + 1] \o s[i] /\ g[i] = g[k + 1] \o t[i] /\ s[i] = t[i]
        BY <1>2, <2>1, <3>1
      <3> QED
        BY <3>2, <3>3 DEF i
    <2> HIDE DEF T
    <2>5. \A k \in Nat : k \in T
      BY <2>3, <2>4, NatSetInduction
    <2>6. f[n] = g[n]
      <3>1. n - 1 \in Nat /\ n - 1 < n /\ (n - 1) + 1 = n
        BY <1>1, <1>5
      <3>2. n - 1 \in T
        BY <2>5, <3>1
      <3> QED
        BY <3>1, <3>2 DEF T
    <2>7. g[n + 1] = g[n] \o t[n + 1]
      <3>1. n + 1 \in 2 .. n + 1 /\ (n + 1) - 1 = n
        BY <1>1, <1>5
      <3> QED
        BY <1>2, <3>1
    <2> QED
      BY <1>1, <1>3, <2>2, <2>6, <2>7
  <1> QED
    BY <1>3, <1>4, <1>5

(* A sequence that never falls from one element to the next never falls. *)
LEMMA Climbs ==
  ASSUME NEW s \in Seq(Int), Monotonic(s), NEW i \in 1 .. Len(s), NEW j \in i .. Len(s)
  PROVE  s[i] <= s[j]
  <1> DEFINE T == {k \in Nat : i + k <= Len(s) => s[i] <= s[i + k]}
  <1>1. Len(s) \in Nat /\ i \in Nat /\ 1 <= i /\ \A k \in 1 .. Len(s) : s[k] \in Int
    OBVIOUS
  <1>2. 0 \in T
    <2>1. i + 0 = i /\ s[i] \in Int
      BY <1>1
    <2> QED
      BY <2>1
  <1>3. ASSUME NEW k \in Nat, k \in T
        PROVE  k + 1 \in T
    <2> SUFFICES ASSUME i + (k + 1) <= Len(s) PROVE s[i] <= s[i + (k + 1)]
      OBVIOUS
    <2> DEFINE n == i + k
    <2>1. n \in 1 .. Len(s) /\ n + 1 \in 2 .. Len(s) /\ n + 1 = i + (k + 1) /\ (n + 1) - 1 = n
          /\ n + 1 \in 1 .. Len(s)
      BY <1>1
    <2>2. s[i] <= s[n]
      BY <1>1, <1>3, <2>1
    <2> HIDE DEF n
    <2>3. s[n] <= s[n + 1]
      BY <2>1 DEF Monotonic
    <2>4. s[i] \in Int /\ s[n] \in Int /\ s[n + 1] \in Int
      BY <1>1, <2>1
    <2>5. s[i] <= s[n + 1]
      BY <2>2, <2>3, <2>4
    <2> QED
      BY <2>1, <2>5
  <1> HIDE DEF T
  <1>4. \A k \in Nat : k \in T
    BY <1>2, <1>3, NatSetInduction
  <1>5. j - i \in Nat /\ i + (j - i) = j /\ j <= Len(s)
    BY <1>1
  <1>6. j - i \in T
    BY <1>4, <1>5
  <1> QED
    BY <1>5, <1>6 DEF T

Arrays(v) == Stored(v) /\ v.values \in Seq(Int)

(* u is what is left of p when the arrays of c join it. *)
Follow(u, p, c) ==
  /\ u.indptr = p.indptr \o [i \in 1 .. Len(c.indptr) - 1 |-> c.indptr[i + 1] + Last(p.indptr)]
  /\ u.indices = p.indices \o c.indices
  /\ u.values = p.values \o c.values

OffsetsOf(u, p, c) ==
  /\ u.indptr \in Seq(Int) /\ Len(u.indptr) = Len(p.indptr) - 1 + Len(c.indptr)
  /\ \A r \in 1 .. Len(p.indptr) : u.indptr[r] = p.indptr[r]
  /\ \A q \in 1 .. Len(c.indptr) :
       u.indptr[Len(p.indptr) - 1 + q] = c.indptr[q] + Len(p.indices)

ElementsOf(u, p, c) ==
  /\ u.indices \in Seq(Int) /\ u.values \in Seq(Int)
  /\ Len(u.indices) = Len(p.indices) + Len(c.indices) /\ Len(u.values) = Len(u.indices)
  /\ \A k \in 1 .. Len(p.indices) :
       u.indices[k] = p.indices[k] /\ u.values[k] = p.values[k]
  /\ \A k \in 1 .. Len(c.indices) :
       /\ u.indices[Len(p.indices) + k] = c.indices[k]
       /\ u.values[Len(p.indices) + k] = c.values[k]

LEMMA JoinedOffsets ==
  ASSUME NEW p, NEW c, NEW u, Arrays(p), Arrays(c), Follow(u, p, c)
  PROVE  OffsetsOf(u, p, c)
  <1> DEFINE I == p.indptr
             J == c.indptr
             U == u.indptr
             n == Len(p.indptr)
             m == Len(c.indptr)
             last == Last(p.indptr)
             tail == [i \in 1 .. m - 1 |-> J[i + 1] + last]
  <1>1. /\ I \in Seq(Int) /\ J \in Seq(Int) /\ n \in Nat \ {0} /\ m \in Nat \ {0} /\ J[1] = 0
        /\ last = Len(p.indices) /\ last \in Int /\ I[n] = last
    BY DEF Arrays, Stored, Last
  <1>2. U = I \o tail
    BY DEF Follow
  <1>3. n = Len(I) /\ m = Len(J)
    OBVIOUS
  <1> HIDE DEF I, J, U, n, m, last
  <1>4. \A q \in 1 .. m : J[q] \in Int
    BY <1>1, <1>3
  <1>5. tail \in Seq(Int) /\ Len(tail) = m - 1
    <2>1. \A i \in 1 .. m - 1 : J[i + 1] + last \in Int
      BY <1>1, <1>4
    <2> QED
      BY <1>1, <2>1
  <1> HIDE DEF tail
  <1>6. /\ U \in Seq(Int) /\ Len(U) = n + (m - 1)
        /\ \A r \in 1 .. n : U[r] = I[r]
        /\ \A i \in 1 .. m - 1 : U[n + i] = tail[i]
    <2>1. I \in Seq(Int) /\ tail \in Seq(Int)
      BY <1>1, <1>5
    <2>2. /\ I \o tail \in Seq(Int) /\ Len(I \o tail) = Len(I) + Len(tail)
          /\ \A i \in 1 .. Len(I) : (I \o tail)[i] = I[i]
          /\ \A i \in 1 .. Len(tail) : (I \o tail)[Len(I) + i] = tail[i]
      BY <2>1, Joined
    <2> QED
      BY <1>2, <1>3, <1>5, <2>2
  <1>7. ASSUME NEW q \in 1 .. m
        PROVE  U[n - 1 + q] = J[q] + last
    <2>1. CASE q = 1
      <3>1. n - 1 + q = n /\ n \in 1 .. n
        BY <1>1, <2>1
      <3>2. U[n] = last
        BY <1>1, <1>6, <3>1
      <3> QED
        BY <1>1, <2>1, <3>1, <3>2
    <2>2. CASE q # 1
      <3> DEFINE i == q - 1
      <3>1. i \in 1 .. m - 1 /\ n - 1 + q = n + i /\ i + 1 = q
        BY <1>1, <2>2
      <3> HIDE DEF i
      <3>2. tail[i] = J[i + 1] + last
        BY <3>1 DEF tail
      <3> QED
        BY <1>6, <3>1, <3>2
    <2> QED
      BY <2>1, <2>2
  <1>8. n + (m - 1) = n - 1 + m /\ n + (m - 1) \in Nat
    BY <1>1
  <1> QED
    BY <1>1, <1>6, <1>7, <1>8 DEF I, J, U, n, m, OffsetsOf

LEMMA JoinedElements ==
  ASSUME NEW p, NEW c, NEW u, Arrays(p), Arrays(c), Follow(u, p, c)
  PROVE  ElementsOf(u, p, c)
  <1>1. /\ p.indices \in Seq(Int) /\ p.values \in Seq(Int) /\ Len(p.values) = Len(p.indices)
        /\ c.indices \in Seq(Int) /\ c.values \in Seq(Int) /\ Len(c.values) = Len(c.indices)
    BY DEF Arrays, Stored
  <1>2. u.indices = p.indices \o c.indices /\ u.values = p.values \o c.values
    BY DEF Follow
  <1> DEFINE X == p.indices
             Y == c.indices
             V == p.values
             W == c.values
  <1>3. /\ X \in Seq(Int) /\ Y \in Seq(Int) /\ V \in Seq(Int) /\ W \in Seq(Int)
        /\ Len(V) = Len(X) /\ Len(W) = Len(Y) /\ u.indices = X \o Y /\ u.values = V \o W
    BY <1>1, <1>2
  <1> HIDE DEF X, Y, V, W
  <1>4. /\ X \o Y \in Seq(Int) /\ Len(X \o Y) = Len(X) + Len(Y)
        /\ \A i \in 1 .. Len(X) : (X \o Y)[i] = X[i]
        /\ \A i \in 1 .. Len(Y) : (X \o Y)[Len(X) + i] = Y[i]
    BY <1>3, Joined
  <1>5. /\ V \o W \in Seq(Int) /\ Len(V \o W) = Len(V) + Len(W)
        /\ \A i \in 1 .. Len(V) : (V \o W)[i] = V[i]
        /\ \A i \in 1 .. Len(W) : (V \o W)[Len(V) + i] = W[i]
    <2>1. V \in Seq(Int) /\ W \in Seq(Int)
      BY <1>3
    <2> QED
      BY <2>1, Joined
  <1> QED
    BY <1>3, <1>4, <1>5 DEF X, Y, V, W, ElementsOf

LEMMA JoinedArrays ==
  ASSUME NEW p, NEW c, NEW u, Arrays(p), Arrays(c), Follow(u, p, c)
  PROVE  Arrays(u)
  <1> DEFINE n == Len(p.indptr)
             m == Len(c.indptr)
             a == Len(p.indices)
             b == Len(c.indices)
  <1>1. /\ n \in Nat \ {0} /\ m \in Nat \ {0} /\ a \in Nat /\ b \in Nat
        /\ p.indptr[1] = 0 /\ c.indptr[m] = b
        /\ \A i \in 1 .. a : p.indices[i] \in 0 .. Dim - 1
        /\ \A i \in 1 .. b : c.indices[i] \in 0 .. Dim - 1
    BY DEF Arrays, Stored, Last
  <1>2. /\ u.indptr \in Seq(Int) /\ Len(u.indptr) = n - 1 + m
        /\ \A r \in 1 .. n : u.indptr[r] = p.indptr[r]
        /\ \A q \in 1 .. m : u.indptr[n - 1 + q] = c.indptr[q] + a
    <2>1. OffsetsOf(u, p, c)
      BY JoinedOffsets
    <2> QED
      BY <2>1 DEF OffsetsOf
  <1>3. /\ u.indices \in Seq(Int) /\ u.values \in Seq(Int)
        /\ Len(u.indices) = a + b /\ Len(u.values) = Len(u.indices)
        /\ \A k \in 1 .. a : u.indices[k] = p.indices[k]
        /\ \A k \in 1 .. b : u.indices[a + k] = c.indices[k]
    <2>1. ElementsOf(u, p, c)
      BY JoinedElements
    <2> QED
      BY <2>1 DEF ElementsOf
  <1> HIDE DEF n, m, a, b
  <1>4. u.indptr[1] = 0
    BY <1>1, <1>2
  <1>5. Last(u.indptr) = Len(u.indices) /\ Len(u.indptr) \in Nat \ {0}
    <2>1. m \in 1 .. m /\ n - 1 + m \in Nat \ {0}
      BY <1>1
    <2>2. u.indptr[n - 1 + m] = b + a
      BY <1>1, <1>2, <2>1
    <2> QED
      BY <1>1, <1>2, <1>3, <2>1, <2>2 DEF Last
  <1>6. ASSUME NEW k \in 1 .. Len(u.indices)
        PROVE  u.indices[k] \in 0 .. Dim - 1
    <2>1. CASE k \in 1 .. a
      BY <1>1, <1>3, <2>1
    <2>2. CASE ~(k \in 1 .. a)
      <3>1. k - a \in 1 .. b /\ a + (k - a) = k
        BY <1>1, <1>3, <2>2
      <3> QED
        BY <1>1, <1>3, <3>1
    <2> QED
      BY <2>1, <2>2
  <1> QED
    BY <1>2, <1>3, <1>4, <1>5, <1>6 DEF Arrays, Stored

LEMMA JoinedMonotonic ==
  ASSUME NEW p, NEW c, NEW u, Arrays(p), Arrays(c), Follow(u, p, c),
         Monotonic(p.indptr), Monotonic(c.indptr)
  PROVE  Monotonic(u.indptr)
  <1> DEFINE n == Len(p.indptr)
             m == Len(c.indptr)
             a == Len(p.indices)
  <1>1. /\ n \in Nat \ {0} /\ m \in Nat \ {0} /\ a \in Nat
        /\ \A i \in 1 .. n : p.indptr[i] \in Int
        /\ \A i \in 1 .. m : c.indptr[i] \in Int
    BY DEF Arrays, Stored
  <1>2. /\ Len(u.indptr) = n - 1 + m
        /\ \A r \in 1 .. n : u.indptr[r] = p.indptr[r]
        /\ \A q \in 1 .. m : u.indptr[n - 1 + q] = c.indptr[q] + a
    <2>1. OffsetsOf(u, p, c)
      BY JoinedOffsets
    <2> QED
      BY <2>1 DEF OffsetsOf
  <1>3. /\ \A i \in 2 .. n : p.indptr[i - 1] <= p.indptr[i]
        /\ \A i \in 2 .. m : c.indptr[i - 1] <= c.indptr[i]
    BY DEF Monotonic
  <1> HIDE DEF n, m, a
  <1>4. ASSUME NEW i \in 2 .. n - 1 + m
        PROVE  u.indptr[i - 1] <= u.indptr[i]
    <2>1. CASE i <= n
      <3>1. i \in 2 .. n /\ i \in 1 .. n /\ i - 1 \in 1 .. n
        BY <1>1, <2>1
      <3> QED
        BY <1>2, <1>3, <3>1
    <2>2. CASE ~(i <= n)
      <3> DEFINE q == i - (n - 1)
      <3>1. /\ q \in 2 .. m /\ q \in 1 .. m /\ q - 1 \in 1 .. m
            /\ n - 1 + q = i /\ n - 1 + (q - 1) = i - 1
        BY <1>1, <2>2
      <3> HIDE DEF q
      <3>2. u.indptr[i] = c.indptr[q] + a /\ u.indptr[i - 1] = c.indptr[q - 1] + a
        BY <1>2, <3>1
      <3>3. c.indptr[q - 1] <= c.indptr[q] /\ c.indptr[q] \in Int /\ c.indptr[q - 1] \in Int
        BY <1>1, <1>3, <3>1
      <3> DEFINE x == c.indptr[q]
                 y == c.indptr[q - 1]
      <3> HIDE DEF x, y
      <3>4. y + a <= x + a
        BY <1>1, <3>3 DEF x, y
      <3> QED
        BY <3>2, <3>4 DEF x, y
    <2> QED
      BY <2>1, <2>2
  <1> QED
    BY <1>2, <1>4 DEF Monotonic

(* Offsets that never fall stay within the arrays. *)
LEMMA WithinArrays ==
  ASSUME NEW v, Arrays(v), Monotonic(v.indptr), NEW r \in 1 .. Len(v.indptr)
  PROVE  v.indptr[r] \in 0 .. Len(v.indices)
  <1>1. /\ v.indptr \in Seq(Int) /\ Len(v.indptr) \in Nat \ {0} /\ v.indptr[1] = 0
        /\ v.indptr[Len(v.indptr)] = Len(v.indices) /\ v.indices \in Seq(Int)
    BY DEF Arrays, Stored, Last
  <1> DEFINE s == v.indptr
             n == Len(v.indptr)
  <1>2. s \in Seq(Int) /\ n \in Nat /\ n = Len(s) /\ Monotonic(s) /\ r \in 1 .. n
        /\ s[1] = 0 /\ s[n] = Len(v.indices) /\ Len(v.indices) \in Nat
    BY <1>1
  <1> HIDE DEF s, n
  <1>3. 1 \in 1 .. n /\ r \in 1 .. n /\ n \in r .. n /\ s[r] \in Int
    BY <1>2
  <1>4. s[1] <= s[r]
    BY <1>2, <1>3, Climbs
  <1>5. s[r] <= s[n]
    BY <1>2, <1>3, Climbs
  <1>6. s[r] \in 0 .. Len(v.indices)
    BY <1>2, <1>3, <1>4, <1>5
  <1> QED
    BY <1>6 DEF s

(* The elements of v after lo and up to hi are a places on in u. *)
Shifted(u, v, a, lo, hi) ==
  \A k \in lo + 1 .. hi : u.indices[a + k] = v.indices[k] /\ u.values[a + k] = v.values[k]

(* A row is where it was, or as far behind as the rows it joins are long. *)
LEMMA RowShifted ==
  ASSUME NEW u, NEW v, NEW a \in Nat, NEW r, NEW q, NEW lo \in Nat, NEW hi \in Nat,
         v.indptr[q] = lo, v.indptr[q + 1] = hi,
         u.indptr[r] = lo + a, u.indptr[r + 1] = hi + a,
         Shifted(u, v, a, lo, hi)
  PROVE  Row(u, r) = Row(v, q)
  <1>1. (hi + a) - (lo + a) = hi - lo
    OBVIOUS
  <1>2. ASSUME NEW i \in 1 .. hi - lo
        PROVE  u.indices[(lo + a) + i] = v.indices[lo + i] /\ u.values[(lo + a) + i] = v.values[lo + i]
    <2>1. lo + i \in lo + 1 .. hi /\ a + (lo + i) = (lo + a) + i
      OBVIOUS
    <2>2. u.indices[a + (lo + i)] = v.indices[lo + i] /\ u.values[a + (lo + i)] = v.values[lo + i]
      BY <2>1 DEF Shifted
    <2> QED
      BY <2>1, <2>2
  <1>3. Row(u, r) = [i \in 1 .. (hi + a) - (lo + a) |->
                       <<u.indices[(lo + a) + i], u.values[(lo + a) + i]>>]
    BY DEF Row
  <1>4. Row(v, q) = [i \in 1 .. hi - lo |-> <<v.indices[lo + i], v.values[lo + i]>>]
    BY DEF Row
  <1> QED
    BY <1>1, <1>2, <1>3, <1>4

LEMMA JoinedRows ==
  ASSUME NEW p, NEW c, NEW u, Arrays(p), Arrays(c), Follow(u, p, c),
         Monotonic(p.indptr), Monotonic(c.indptr)
  PROVE  Rows(u) = Rows(p) \o Rows(c)
  <1> DEFINE n == Len(p.indptr)
             m == Len(c.indptr)
             a == Len(p.indices)
             b == Len(c.indices)
             S == {Row(p, r) : r \in Nat} \union {Row(c, r) : r \in Nat}
  <1>1. n \in Nat \ {0} /\ m \in Nat \ {0} /\ a \in Nat /\ b \in Nat
    BY DEF Arrays, Stored
  <1>2. /\ \A r \in 1 .. n : p.indptr[r] \in 0 .. a
        /\ \A q \in 1 .. m : c.indptr[q] \in 0 .. b
    BY WithinArrays
  <1>3. /\ Len(u.indptr) = n - 1 + m
        /\ \A r \in 1 .. n : u.indptr[r] = p.indptr[r]
        /\ \A q \in 1 .. m : u.indptr[n - 1 + q] = c.indptr[q] + a
    <2>1. OffsetsOf(u, p, c)
      BY JoinedOffsets
    <2> QED
      BY <2>1 DEF OffsetsOf
  <1>4. /\ \A k \in 1 .. a : u.indices[k] = p.indices[k] /\ u.values[k] = p.values[k]
        /\ \A k \in 1 .. b : u.indices[a + k] = c.indices[k] /\ u.values[a + k] = c.values[k]
    <2>1. ElementsOf(u, p, c)
      BY JoinedElements
    <2> QED
      BY <2>1 DEF ElementsOf
  <1> HIDE DEF n, m, a, b
  <1>5. ASSUME NEW r \in 1 .. n - 1
        PROVE  Row(u, r) = Row(p, r)
    <2> DEFINE lo == p.indptr[r]
               hi == p.indptr[r + 1]
    <2>1. r \in 1 .. n /\ r + 1 \in 1 .. n
      BY <1>1
    <2>2. lo \in 0 .. a /\ hi \in 0 .. a
      BY <1>2, <2>1
    <2>3. u.indptr[r] = lo /\ u.indptr[r + 1] = hi
      BY <1>3, <2>1
    <2>4. p.indptr[r] = lo /\ p.indptr[r + 1] = hi
      OBVIOUS
    <2> HIDE DEF lo, hi
    <2>5. lo \in Nat /\ hi \in Nat /\ lo + 0 = lo /\ hi + 0 = hi
      BY <1>1, <2>2
    <2>6. ASSUME NEW k \in lo + 1 .. hi
          PROVE  u.indices[0 + k] = p.indices[k] /\ u.values[0 + k] = p.values[k]
      <3>1. k \in 1 .. a /\ 0 + k = k
        BY <1>1, <2>2
      <3> QED
        BY <1>4, <3>1
    <2>7. u.indptr[r] = lo + 0 /\ u.indptr[r + 1] = hi + 0 /\ 0 \in Nat
      BY <2>3, <2>5
    <2>8. Shifted(u, p, 0, lo, hi)
      BY <2>6 DEF Shifted
    <2> QED
      BY <2>4, <2>5, <2>7, <2>8, RowShifted
  <1>6. ASSUME NEW q \in 1 .. m - 1
        PROVE  Row(u, n - 1 + q) = Row(c, q)
    <2> DEFINE lo == c.indptr[q]
               hi == c.indptr[q + 1]
               r  == n - 1 + q
    <2>1. q \in 1 .. m /\ q + 1 \in 1 .. m /\ n - 1 + (q + 1) = r + 1
      BY <1>1
    <2>2. lo \in 0 .. b /\ hi \in 0 .. b
      BY <1>2, <2>1
    <2>3. u.indptr[r] = lo + a
      BY <1>3, <2>1
    <2>4. u.indptr[r + 1] = hi + a
      <3>1. u.indptr[n - 1 + (q + 1)] = c.indptr[q + 1] + a
        BY <1>3, <2>1
      <3> QED
        BY <2>1, <3>1
    <2>5. c.indptr[q] = lo /\ c.indptr[q + 1] = hi
      OBVIOUS
    <2> HIDE DEF lo, hi, r
    <2>6. lo \in Nat /\ hi \in Nat
      BY <1>1, <2>2
    <2>7. Shifted(u, c, a, lo, hi)
      <3>1. ASSUME NEW k \in lo + 1 .. hi
            PROVE  u.indices[a + k] = c.indices[k] /\ u.values[a + k] = c.values[k]
        <4>1. k \in 1 .. b
          BY <1>1, <2>2
        <4> QED
          BY <1>4, <4>1
      <3> QED
        BY <3>1 DEF Shifted
    <2>8. Row(u, r) = Row(c, q)
      BY <1>1, <2>3, <2>4, <2>5, <2>6, <2>7, RowShifted
    <2> QED
      BY <2>8 DEF r
  <1>7. Rows(p) \in Seq(S) /\ Len(Rows(p)) = n - 1 /\ \A r \in 1 .. n - 1 : Rows(p)[r] = Row(p, r)
    <2>1. Rows(p) = [r \in 1 .. n - 1 |-> Row(p, r)]
      BY DEF Rows, n
    <2>2. \A r \in 1 .. n - 1 : Row(p, r) \in S
      BY <1>1
    <2> HIDE DEF S
    <2> QED
      BY <1>1, <2>1, <2>2
  <1>8. Rows(c) \in Seq(S) /\ Len(Rows(c)) = m - 1 /\ \A r \in 1 .. m - 1 : Rows(c)[r] = Row(c, r)
    <2>1. Rows(c) = [r \in 1 .. m - 1 |-> Row(c, r)]
      BY DEF Rows, m
    <2>2. \A r \in 1 .. m - 1 : Row(c, r) \in S
      BY <1>1
    <2> HIDE DEF S
    <2> QED
      BY <1>1, <2>1, <2>2
  <1> DEFINE P == Rows(p)
             C == Rows(c)
             J == P \o C
             k == n - 1 + m - 1
  <1> HIDE DEF S, P, C
  <1>9. /\ J \in Seq(S) /\ Len(J) = Len(P) + Len(C)
        /\ \A i \in 1 .. Len(P) : J[i] = P[i]
        /\ \A i \in 1 .. Len(C) : J[Len(P) + i] = C[i]
    <2>1. P \in Seq(S) /\ C \in Seq(S)
      BY <1>7, <1>8 DEF P, C
    <2> QED
      BY <2>1, Joined
  <1> HIDE DEF J
  <1>10. Len(P) = n - 1 /\ Len(C) = m - 1 /\ k = (n - 1) + (m - 1) /\ k \in Nat
    <2>1. Len(P) = n - 1 /\ Len(C) = m - 1
      BY <1>7, <1>8 DEF P, C
    <2>2. k = (n - 1) + (m - 1) /\ k \in Nat
      BY <1>1
    <2> QED
      BY <2>1, <2>2
  <1>11. Rows(u) = [r \in 1 .. k |-> Row(u, r)]
    <2>1. Len(u.indptr) - 1 = k
      BY <1>1, <1>3
    <2> HIDE DEF k
    <2> QED
      BY <2>1 DEF Rows
  <1>12. J = [r \in 1 .. k |-> J[r]]
    BY <1>9, <1>10
  <1>13. ASSUME NEW r \in 1 .. k
         PROVE  J[r] = Row(u, r)
    <2>1. CASE r <= n - 1
      <3>1. r \in 1 .. n - 1
        BY <1>1, <2>1
      <3>2. J[r] = P[r]
        BY <1>9, <1>10, <3>1
      <3> QED
        BY <1>5, <1>7, <3>1, <3>2 DEF P
    <2>2. CASE ~(r <= n - 1)
      <3> DEFINE q == r - (n - 1)
      <3>1. q \in 1 .. m - 1 /\ n - 1 + q = r
        BY <1>1, <2>2
      <3> HIDE DEF q
      <3>2. J[n - 1 + q] = C[q]
        BY <1>9, <1>10, <3>1
      <3> QED
        BY <1>6, <1>8, <3>1, <3>2 DEF C
    <2> QED
      BY <2>1, <2>2
  <1> HIDE DEF k
  <1>14. Rows(u) = J
    BY <1>11, <1>12, <1>13
  <1> QED
    BY <1>14 DEF J, P, C

(* What the index holds, with the offset an empty one begins with. *)
Prefix ==
  [indptr |-> IF vectors_.indptr = <<>> THEN <<0>> ELSE vectors_.indptr,
   indices |-> vectors_.indices, values |-> vectors_.values]

LEMMA CopiedCorpus ==
  ASSUME NEW c \in Inputs, Copy(c)
  PROVE  Arrays(c)
  <1>1. Corpus(c)
    BY TakenIsACorpus DEF Copy
  <1>2. /\ c.rows \in Nat \ {0} /\ c.nnz \in Nat /\ c.cols \in Nat
        /\ c.indptr \in Seq(Int) /\ c.indices \in Seq(Int) /\ c.values \in Seq(Int)
        /\ Len(c.indptr) = c.rows + 1 /\ Len(c.indices) = c.nnz /\ Len(c.values) = c.nnz
    BY <1>1 DEF Corpus
  <1>3. c.indptr[1] = 0 /\ c.indptr[c.rows + 1] = c.nnz
    BY DEF Copy, IndptrConsistent
  <1>4. Len(c.indptr) \in Nat \ {0} /\ Last(c.indptr) = c.nnz
    BY <1>2, <1>3 DEF Last
  <1>5. ASSUME NEW i \in 1 .. Len(c.indices)
        PROVE  c.indices[i] \in 0 .. Dim - 1
    <2>1. i \in DOMAIN c.indices /\ c.indices[i] \in Int
      BY <1>2
    <2>2. TermFits(c, c.indices[i])
      BY <2>1 DEF Copy
    <2>3. c.cols <= Dim /\ Dim \in Nat
      BY SizesAssumption DEF Copy
    <2> DEFINE t == c.indices[i]
    <2> HIDE DEF t
    <2>4. 0 <= t /\ t < c.cols /\ t \in Int
      BY <2>1, <2>2 DEF TermFits, t
    <2>5. t \in 0 .. Dim - 1
      BY <1>2, <2>3, <2>4
    <2> QED
      BY <2>5 DEF t
  <1> QED
    BY <1>2, <1>3, <1>4, <1>5 DEF Arrays, Stored

LEMMA PrefixIsSound ==
  ASSUME VectorsInv, Growable
  PROVE  /\ Arrays(Prefix) /\ csr_mapping_ = NoFile
         /\ vectors_.held # "borrowed"
         /\ (\A i \in DOMAIN accepted : Monotonic(accepted[i].indptr)) =>
              Monotonic(Prefix.indptr) /\ Rows(Prefix) = Contents
  <1>1. CASE vectors_ = NoRows /\ csr_mapping_ = NoFile /\ accepted = <<>>
    <2>1. Prefix.indptr = <<0>> /\ Prefix.indices = <<>> /\ Prefix.values = <<>> /\ vectors_.held = "none"
      BY <1>1 DEF Prefix, NoRows
    <2>2. /\ Len(<<0>>) = 1 /\ <<0>>[1] = 0 /\ <<0>> \in Seq(Int)
          /\ Len(<<>>) = 0 /\ <<>> \in Seq(Int)
      OBVIOUS
    <2>3. Arrays(Prefix)
      BY <2>1, <2>2 DEF Arrays, Stored, Last
    <2>4. Monotonic(<<0>>)
      BY <2>2 DEF Monotonic
    <2>5. Rows(Prefix) = <<>>
      <3>1. Rows(Prefix) = [r \in 1 .. 0 |-> Row(Prefix, r)]
        BY <2>1, <2>2 DEF Rows
      <3> QED
        BY <3>1
    <2>6. Contents = <<>>
      <3>1. [i \in DOMAIN accepted |-> Rows(accepted[i])] = <<>>
        BY <1>1
      <3> QED
        BY <2>2, <3>1 DEF Contents, FlattenSeq
    <2> QED
      BY <1>1, <2>1, <2>3, <2>4, <2>5, <2>6
  <1>2. CASE OwnedInv
    <2>1. /\ vectors_.held = "owned" /\ csr_mapping_ = NoFile
          /\ Stored(vectors_) /\ vectors_.values \in Seq(Int)
          /\ Ordered => Monotonic(vectors_.indptr) /\ Rows(vectors_) = Contents
      BY <1>2 DEF OwnedInv
    <2>2. vectors_.indptr # <<>>
      <3>1. Len(vectors_.indptr) \in Nat \ {0} /\ vectors_.indptr \in Seq(Int)
        BY <2>1 DEF Stored
      <3> DEFINE s == vectors_.indptr
      <3> HIDE DEF s
      <3>2. Len(s) # 0 /\ s \in Seq(Int)
        BY <3>1 DEF s
      <3>3. s # <<>>
        BY <3>2
      <3> QED
        BY <3>3 DEF s
    <2>3. Prefix.indptr = vectors_.indptr /\ Prefix.indices = vectors_.indices /\ Prefix.values = vectors_.values
      BY <2>2 DEF Prefix
    <2>4. Arrays(Prefix)
      BY <2>1, <2>3 DEF Arrays, Stored
    <2>5. Rows(Prefix) = Rows(vectors_)
      BY <2>3 DEF Rows, Row
    <2> QED
      BY <2>1, <2>3, <2>4, <2>5 DEF Ordered
  <1>3. CASE BorrowedInv
    BY <1>3 DEF BorrowedInv, Growable
  <1> QED
    BY <1>1, <1>2, <1>3 DEF VectorsInv

(* The rows the files have. *)
InputRows == {Row(k, r) : k \in Inputs, r \in Nat}

LEMMA RowsOfInputs ==
  ASSUME NEW k \in Inputs
  PROVE  Rows(k) \in Seq(InputRows)
  <1>1. k.indptr \in Seq(Int)
    BY InputsAssumption
  <1> DEFINE m == Len(k.indptr)
  <1>2. m \in Nat
    BY <1>1
  <1>3. Rows(k) = [r \in 1 .. m - 1 |-> Row(k, r)]
    BY DEF Rows
  <1> HIDE DEF m
  <1>4. \A r \in 1 .. m - 1 : Row(k, r) \in InputRows
    BY <1>2 DEF InputRows
  <1>5. CASE m = 0
    <2>1. Rows(k) = [r \in 1 .. 0 |-> Row(k, r)]
      BY <1>2, <1>3, <1>5
    <2>2. Rows(k) = <<>>
      BY <2>1
    <2> QED
      BY <2>2
  <1>6. CASE m # 0
    <2>1. m - 1 \in Nat
      BY <1>2, <1>6
    <2> QED
      BY <1>3, <1>4, <2>1
  <1> QED
    BY <1>5, <1>6

(* A corpus that is copied joins what is there, row by row. *)
LEMMA CopyKeeps ==
  ASSUME NEW c \in Inputs, Copy(c), VectorsInv
  PROVE  VectorsInv'
  <1>1. /\ Arrays(Prefix) /\ csr_mapping_ = NoFile
        /\ (\A i \in DOMAIN accepted : Monotonic(accepted[i].indptr)) =>
             Monotonic(Prefix.indptr) /\ Rows(Prefix) = Contents
    BY PrefixIsSound DEF Copy
  <1>2. Arrays(c)
    BY CopiedCorpus
  <1> DEFINE u == Appended(c)
  <1>3. vectors_' = u /\ accepted' = Append(accepted, c) /\ csr_mapping_' = csr_mapping_ /\ width' = width
    BY DEF Copy
  <1>4. Follow(u, Prefix, c) /\ u.held = "owned"
    BY DEF Appended, Follow, Prefix
  <1> HIDE DEF u
  <1>5. Arrays(u)
    BY <1>1, <1>2, <1>4, JoinedArrays
  <1>6. accepted \in Seq(Inputs) /\ width \in Widths
    BY DEF VectorsInv
  <1> DEFINE n == Len(accepted)
             later == Append(accepted, c)
  <1>7. /\ n \in Nat /\ later \in Seq(Inputs) /\ Len(later) = n + 1 /\ later[n + 1] = c
        /\ \A i \in 1 .. n : later[i] = accepted[i]
        /\ DOMAIN accepted = 1 .. n /\ DOMAIN later = 1 .. n + 1
    BY <1>6
  <1> HIDE DEF n, later
  <1>8. ASSUME \A i \in DOMAIN later : Monotonic(later[i].indptr)
        PROVE  /\ Monotonic(u.indptr)
               /\ Rows(u) = FlattenSeq([i \in DOMAIN later |-> Rows(later[i])])
    <2>1. \A i \in DOMAIN accepted : Monotonic(accepted[i].indptr)
      <3>1. ASSUME NEW i \in 1 .. n
            PROVE  Monotonic(accepted[i].indptr)
        <4>1. i \in 1 .. n + 1
          BY <1>7
        <4> QED
          BY <1>7, <1>8, <4>1
      <3> QED
        BY <1>7, <3>1
    <2>2. Monotonic(c.indptr)
      <3>1. n + 1 \in 1 .. n + 1
        BY <1>7
      <3> QED
        BY <1>7, <1>8, <3>1
    <2>3. Monotonic(Prefix.indptr) /\ Rows(Prefix) = Contents
      BY <1>1, <2>1
    <2>4. Monotonic(u.indptr) /\ Rows(u) = Contents \o Rows(c)
      BY <1>1, <1>2, <1>4, <2>2, <2>3, JoinedMonotonic, JoinedRows
    <2> DEFINE S == InputRows
               s == [i \in DOMAIN accepted |-> Rows(accepted[i])]
               t == [i \in DOMAIN later |-> Rows(later[i])]
    <2>5. \A k \in Inputs : Rows(k) \in Seq(S)
      BY RowsOfInputs
    <2> HIDE DEF S
    <2>6. s \in Seq(Seq(S)) /\ Len(s) = n
      <3>1. \A i \in 1 .. n : Rows(accepted[i]) \in Seq(S)
        BY <1>6, <1>7, <2>5
      <3> QED
        BY <1>7, <3>1
    <2>7. t \in Seq(Seq(S)) /\ Len(t) = n + 1 /\ t[n + 1] = Rows(c) /\ \A i \in 1 .. n : s[i] = t[i]
      <3>1. \A i \in 1 .. n + 1 : Rows(later[i]) \in Seq(S)
        BY <1>7, <2>5
      <3>2. t \in Seq(Seq(S)) /\ Len(t) = n + 1
        BY <1>7, <3>1
      <3>3. t[n + 1] = Rows(c)
        BY <1>7
      <3>4. \A i \in 1 .. n : s[i] = t[i]
        BY <1>7
      <3> QED
        BY <3>2, <3>3, <3>4
    <2>8. Contents = FlattenSeq(s)
      BY DEF Contents
    <2> HIDE DEF s, t
    <2>9. FlattenSeq(t) = FlattenSeq(s) \o t[n + 1]
      BY <2>6, <2>7, FlattenAppend
    <2> QED
      BY <2>4, <2>7, <2>8, <2>9 DEF t
  <1>9. OwnedInv'
    <2>1. vectors_'.held = "owned" /\ csr_mapping_' = NoFile /\ Stored(vectors_') /\ vectors_'.values \in Seq(Int)
      BY <1>1, <1>3, <1>4, <1>5 DEF Arrays
    <2>2. Ordered' => \A i \in DOMAIN later : Monotonic(later[i].indptr)
      BY <1>3, <2>1 DEF Ordered, later
    <2>3. Ordered' => Monotonic(vectors_'.indptr) /\ Rows(vectors_') = Contents'
      BY <1>3, <1>8, <2>2 DEF Contents, later
    <2> QED
      BY <2>1, <2>3 DEF OwnedInv, Stored
  <1> QED
    BY <1>3, <1>6, <1>7, <1>9 DEF VectorsInv, later
-----------------------------------------------------------------------------
(* The theorems. *)

LEMMA InitIInv == Init => IInv
  <1> SUFFICES ASSUME Init PROVE IInv
    OBVIOUS
  <1>1. NativeInv
    BY DEF Init, NativeInv, ConvInv, Converting, NoFile
  <1>2. accepted \in Seq(Inputs)
    BY DEF Init
  <1>3. VectorsInv
    BY <1>2 DEF Init, VectorsInv
  <1> QED
    BY <1>1, <1>3 DEF IInv

(* The lists built from the rows own what they are made of. *)
LEMMA BuildInvertedKeeps == ASSUME VectorsInv, BuildInverted PROVE VectorsInv'
  <1>1. vectors_' = NoRows /\ csr_mapping_' = NoFile /\ accepted' = <<>> /\ width' = width
    BY DEF BuildInverted
  <1>2. accepted' \in Seq(Inputs) /\ width' \in Widths
    BY <1>1 DEF VectorsInv
  <1> QED
    BY <1>1, <1>2 DEF VectorsInv

LEMMA RestKeeps == ASSUME VectorsInv, UNCHANGED indexVars PROVE VectorsInv'
  <1>1. width' = width /\ csr_mapping_' = csr_mapping_ /\ vectors_' = vectors_ /\ accepted' = accepted
    BY DEF indexVars
  <1> QED
    BY <1>1 DEF VectorsInv, OwnedInv, BorrowedInv, Ordered, Contents, Whole

LEMMA VectorsStep == ASSUME NativeInv, VectorsInv, [Next]_vars PROVE VectorsInv'
  <1>1. ASSUME NEW c \in Inputs, Copy(c) PROVE VectorsInv'
    BY <1>1, CopyKeeps
  <1>2. CASE Map
    BY <1>2, MapKeeps
  <1>3. CASE BuildInverted
    BY <1>3, BuildInvertedKeeps
  <1>4. CASE UNCHANGED indexVars
    BY <1>4, RestKeeps
  <1>5. ASSUME NEW c \in Inputs, Open(c) PROVE UNCHANGED indexVars
    BY <1>5 DEF Open
  <1>6. ASSUME NEW c \in Inputs, NEW w \in Widths \ {FloatBytes}, WriteCodes(c, w)
        PROVE  UNCHANGED indexVars
    BY <1>6 DEF WriteCodes
  <1>6a. ASSUME NEW c \in Inputs, OfferInterchange(c)
         PROVE  UNCHANGED indexVars
    BY <1>6a DEF OfferInterchange
  <1>7. ASSUME WriteIndptr \/ WriteIndices \/ WritePadding \/ WriteValues \/ Finish \/ Drain \/ Abandon
        PROVE  UNCHANGED indexVars
    BY <1>7 DEF WriteIndptr, WriteIndices, WritePadding, WriteValues, Finish, Drain, Abandon
  <1>8. CASE UNCHANGED vars
    BY <1>4, <1>8 DEF vars, indexVars
  <1> QED
    BY <1>1, <1>2, <1>3, <1>4, <1>5, <1>6, <1>6a, <1>7, <1>8 DEF Next

LEMMA StepIInv == IInv /\ [Next]_vars => IInv'
  BY NativeStep, VectorsStep DEF IInv

(* The native file is always the beginning of what its input calls for, and *)
(* the rows those of the corpora accepted.                                  *)
THEOREM IInvHolds == Spec => []IInv
<1> QED
  BY InitIInv, StepIInv, PTL DEF Spec

(* Elements of q bytes that start p bytes apart, counted from m. *)
LEMMA Stride ==
  ASSUME NEW m \in Nat, NEW p \in {1, 2, 4}, NEW q \in {1, 2, 4}, q <= p,
         NEW i \in Nat, NEW j \in Nat, i < j
  PROVE  /\ m + (i - 1) * p \in Int /\ m + (j - 1) * p \in Int
         /\ m + (i - 1) * p + q <= m + (j - 1) * p
  <1>1. CASE p = 1
    BY <1>1
  <1>2. CASE p = 2
    BY <1>2
  <1>3. CASE p = 4
    BY <1>3
  <1> QED
    BY <1>1, <1>2, <1>3

(* No element of such an array lies before it or past its end. *)
LEMMA InArray ==
  ASSUME NEW m \in Nat, NEW p \in {1, 2, 4}, NEW q \in {1, 2, 4}, q <= p,
         NEW n \in Nat, NEW i \in 1 .. n
  PROVE  /\ m + (i - 1) * p \in Int /\ m <= m + (i - 1) * p
         /\ m + (i - 1) * p + q <= m + n * p /\ m + n * p \in Nat
  <1>1. CASE p = 1
    BY <1>1
  <1>2. CASE p = 2
    BY <1>2
  <1>3. CASE p = 4
    BY <1>3
  <1> QED
    BY <1>1, <1>2, <1>3

(* A cell is one of the kinds, and in the part of the file its kind has to  *)
(* itself.                                                                  *)
OffsetAt(c, x, i)      == x = OffsetCell(c, i) /\ x.at = 16 + i * 8 /\ End(x) = 24 + i * 8
TermAt(c, s, x, i)     == x = Cell(TermsAt(c) + (i - 1) * s, 2, c.indices[i])
ValueAt(c, v, w, x, i) == x = Cell(v + (i - 1) * w, w, c.values[i])

InPlace(c, s, v, w, x) ==
  /\ x.at \in Int /\ End(x) \in Int
  /\ \/ x = HeaderCell(c) /\ End(x) = 24
     \/ (\E i \in 1 .. c.rows + 1 : OffsetAt(c, x, i)) /\ 24 <= x.at /\ End(x) <= TermsAt(c)
     \/ (\E i \in 1 .. c.nnz : TermAt(c, s, x, i)) /\ TermsAt(c) <= x.at /\ End(x) <= v
     \/ (\E i \in 1 .. c.nnz : ValueAt(c, v, w, x, i)) /\ v <= x.at /\ End(x) <= v + c.nnz * w

LEMMA Regions ==
  ASSUME NEW c, Corpus(c), NEW s \in {2, 4}, NEW v \in Nat, NEW w \in {1, 2, 4},
         TermsAt(c) + c.nnz * s <= v, NEW x \in Spread(c, s, v, w)
  PROVE  /\ TermsAt(c) \in Nat /\ 24 <= TermsAt(c) /\ TermsAt(c) <= v
         /\ InPlace(c, s, v, w, x)
  <1>1. /\ c.rows \in Nat /\ c.nnz \in Nat /\ TermsAt(c) = 24 + (c.rows + 1) * 8 /\ TermsAt(c) \in Nat
    BY Geometry DEF Corpus
  <1>2. 24 <= TermsAt(c) /\ TermsAt(c) <= v
    <2>1. c.nnz * s \in Nat
      BY <1>1
    <2> QED
      BY <1>1, <2>1
  <1>3. CASE x = HeaderCell(c)
    <2>1. x.at = 0 /\ End(x) = 24
      BY <1>3 DEF HeaderCell, Cell, End, HeaderBytes
    <2> QED
      BY <1>1, <1>2, <1>3, <2>1 DEF InPlace
  <1>4. ASSUME NEW i \in 1 .. c.rows + 1, x = OffsetCell(c, i)
        PROVE  InPlace(c, s, v, w, x)
    <2>1. OffsetAt(c, x, i) /\ x.at = 16 + i * 8 /\ End(x) = 24 + i * 8
      BY <1>4, Ends DEF OffsetAt
    <2>2. x.at \in Int /\ End(x) \in Int /\ 24 <= x.at /\ End(x) <= TermsAt(c)
      BY <1>1, <2>1
    <2> QED
      BY <2>1, <2>2 DEF InPlace
  <1>5. ASSUME NEW i \in 1 .. c.nnz, x = Cell(TermsAt(c) + (i - 1) * s, 2, c.indices[i])
        PROVE  InPlace(c, s, v, w, x)
    <2> DEFINE a == TermsAt(c) + (i - 1) * s
               e == TermsAt(c) + c.nnz * s
    <2>1. a \in Int /\ TermsAt(c) <= a /\ a + 2 <= e /\ e \in Nat
      <3>1. s \in {1, 2, 4} /\ 2 \in {1, 2, 4} /\ 2 <= s
        OBVIOUS
      <3> QED
        BY <1>1, <3>1, InArray
    <2>2. x.at = a /\ End(x) = a + 2 /\ e <= v
      BY <1>5 DEF Cell, End
    <2>3. TermAt(c, s, x, i)
      BY <1>5 DEF TermAt
    <2> HIDE DEF a, e
    <2>4. TermsAt(c) <= x.at /\ End(x) <= v /\ x.at \in Int /\ End(x) \in Int
      BY <1>1, <2>1, <2>2
    <2> QED
      BY <2>3, <2>4 DEF InPlace
  <1>6. ASSUME NEW i \in 1 .. c.nnz, x = Cell(v + (i - 1) * w, w, c.values[i])
        PROVE  InPlace(c, s, v, w, x)
    <2> DEFINE a == v + (i - 1) * w
               e == v + c.nnz * w
    <2>1. a \in Int /\ v <= a /\ a + w <= e
      BY <1>1, InArray
    <2>2. x.at = a /\ End(x) = a + w /\ w \in Int
      BY <1>6 DEF Cell, End
    <2>3. ValueAt(c, v, w, x, i)
      BY <1>6 DEF ValueAt
    <2> HIDE DEF a
    <2>4. v <= x.at /\ End(x) <= e /\ x.at \in Int /\ End(x) \in Int
      BY <2>1, <2>2
    <2> QED
      BY <2>3, <2>4 DEF InPlace
  <1>7. InPlace(c, s, v, w, x)
    BY <1>3, <1>4, <1>5, <1>6 DEF Spread, TermBytes
  <1> QED
    BY <1>1, <1>2, <1>7

(* No two cells of either layout share a place. *)
LEMMA Separate ==
  ASSUME NEW c, Corpus(c), NEW s \in {2, 4}, NEW v \in Nat, NEW w \in {1, 2, 4},
         TermsAt(c) + c.nnz * s <= v,
         NEW x \in Spread(c, s, v, w), NEW y \in Spread(c, s, v, w), x # y
  PROVE  Apart(x, y)
  <1> DEFINE t == TermsAt(c)
  <1>1. c.rows \in Nat /\ c.nnz \in Nat /\ t \in Nat /\ 24 <= t /\ t <= v
    BY Regions DEF Corpus
  <1>2. InPlace(c, s, v, w, x) /\ InPlace(c, s, v, w, y)
    BY Regions
  <1>3. Apart(x, y) <=> End(x) <= y.at \/ End(y) <= x.at
    BY DEF Apart, End
  <1>4. ASSUME NEW i \in 1 .. c.rows + 1, NEW j \in 1 .. c.rows + 1, OffsetAt(c, x, i), OffsetAt(c, y, j)
        PROVE  Apart(x, y)
    <2>1. i \in Int /\ j \in Int /\ i # j
      BY <1>4 DEF OffsetAt
    <2> QED
      BY <1>3, <1>4, <2>1 DEF OffsetAt
  <1>5. ASSUME NEW i \in 1 .. c.nnz, NEW j \in 1 .. c.nnz, TermAt(c, s, x, i), TermAt(c, s, y, j)
        PROVE  Apart(x, y)
    <2>1. i \in Nat /\ j \in Nat /\ i # j
      BY <1>5 DEF TermAt
    <2>2. /\ x.at = t + (i - 1) * s /\ End(x) = t + (i - 1) * s + 2
          /\ y.at = t + (j - 1) * s /\ End(y) = t + (j - 1) * s + 2
      BY <1>5 DEF TermAt, Cell, End
    <2>3. s \in {1, 2, 4} /\ 2 \in {1, 2, 4} /\ 2 <= s
      OBVIOUS
    <2>4. CASE i < j
      <3>1. t + (i - 1) * s + 2 <= t + (j - 1) * s
        BY <1>1, <2>1, <2>3, <2>4, Stride
      <3> QED
        BY <1>3, <2>2, <3>1
    <2>5. CASE j < i
      <3>1. t + (j - 1) * s + 2 <= t + (i - 1) * s
        BY <1>1, <2>1, <2>3, <2>5, Stride
      <3> QED
        BY <1>3, <2>2, <3>1
    <2> QED
      BY <2>1, <2>4, <2>5
  <1>6. ASSUME NEW i \in 1 .. c.nnz, NEW j \in 1 .. c.nnz, ValueAt(c, v, w, x, i), ValueAt(c, v, w, y, j)
        PROVE  Apart(x, y)
    <2>1. i \in Nat /\ j \in Nat /\ i # j
      BY <1>6 DEF ValueAt
    <2>2. /\ x.at = v + (i - 1) * w /\ End(x) = v + (i - 1) * w + w
          /\ y.at = v + (j - 1) * w /\ End(y) = v + (j - 1) * w + w
      BY <1>6 DEF ValueAt, Cell, End
    <2>3. w <= w
      OBVIOUS
    <2>4. CASE i < j
      <3>1. v + (i - 1) * w + w <= v + (j - 1) * w
        BY <1>1, <2>1, <2>3, <2>4, Stride
      <3> QED
        BY <1>3, <2>2, <3>1
    <2>5. CASE j < i
      <3>1. v + (j - 1) * w + w <= v + (i - 1) * w
        BY <1>1, <2>1, <2>3, <2>5, Stride
      <3> QED
        BY <1>3, <2>2, <3>1
    <2> QED
      BY <2>1, <2>4, <2>5
  <1> HIDE DEF t
  <1> QED
    BY <1>1, <1>2, <1>3, <1>4, <1>5, <1>6 DEF InPlace, t

(* The cells of a native file, of either kind. *)
LEMMA CellsApart ==
  ASSUME NativeInv
  PROVE  \A x \in native.cells :
           /\ x.at + x.bytes <= native.written
           /\ \A y \in native.cells : x # y => Apart(x, y)
  <1> DEFINE c == native.source
  <1>1. CASE native = NoFile
    BY <1>1 DEF NoFile
  <1>2. CASE FileInv(native)
    <2>1. /\ native = File(c, native.width, native.written, native.bytes) /\ Corpus(c)
          /\ native.width \in {1, 2, 4}
      BY <1>2 DEF FileInv
    <2> DEFINE w == native.width
               n == native.written
    <2>2. native.cells = Below(Layout(c, w), n)
      BY <2>1 DEF File
    <2>3. Layout(c, w) = Spread(c, 2, ValuesAt(c), w)
      BY DEF Layout, Spread, TermCell, ValueCell, TermBytes
    <2>4. ValuesAt(c) \in Nat /\ TermsAt(c) + c.nnz * 2 <= ValuesAt(c)
      BY <2>1, Geometry
    <2> HIDE DEF c, w, n
    <2>5. \A x, y \in Spread(c, 2, ValuesAt(c), w) : x # y => Apart(x, y)
      <3>1. w \in {1, 2, 4} /\ 2 \in {2, 4} /\ Corpus(c)
        BY <2>1 DEF w
      <3> QED
        BY <2>4, <3>1, Separate
    <2>6. \A x \in native.cells : x \in Spread(c, 2, ValuesAt(c), w) /\ x.at + x.bytes <= n
      BY <2>2, <2>3 DEF Below, End
    <2> QED
      BY <2>5, <2>6 DEF n
  <1>3. CASE InterchangeInv(native)
    <2> DEFINE v == FloatsAt(c)
    <2>1. /\ Corpus(c) /\ native.written = v + c.nnz * 4 /\ native.cells \subseteq Spread(c, 4, v, 4)
      BY <1>3 DEF InterchangeInv
    <2>2. c.nnz \in Nat /\ TermsAt(c) \in Nat
      BY <2>1, Geometry DEF Corpus
    <2>3. v \in Nat /\ TermsAt(c) + c.nnz * 4 <= v
      BY <2>2 DEF FloatsAt
    <2> HIDE DEF c, v
    <2>4. \A x, y \in Spread(c, 4, v, 4) : x # y => Apart(x, y)
      <3>1. 4 \in {1, 2, 4} /\ 4 \in {2, 4}
        OBVIOUS
      <3> QED
        BY <2>1, <2>3, <3>1, Separate
    <2>5. ASSUME NEW x \in Spread(c, 4, v, 4)
          PROVE  End(x) <= v + c.nnz * 4
      <3>1. 4 \in {1, 2, 4} /\ 4 \in {2, 4}
        OBVIOUS
      <3>2. /\ End(x) \in Int /\ 24 <= v
            /\ End(x) = 24 \/ End(x) <= v \/ End(x) <= v + c.nnz * 4
        <4>1. /\ End(x) \in Int /\ TermsAt(c) \in Nat /\ 24 <= TermsAt(c) /\ TermsAt(c) <= v
              /\ \/ End(x) = 24 \/ End(x) <= TermsAt(c) \/ End(x) <= v \/ End(x) <= v + c.nnz * 4
          BY <2>1, <2>3, <3>1, Regions DEF InPlace
        <4> QED
          BY <2>3, <4>1
      <3> QED
        BY <2>2, <2>3, <3>2
    <2> QED
      BY <2>1, <2>4, <2>5 DEF End
  <1> QED
    BY <1>1, <1>2, <1>3 DEF NativeInv

(* Throughout a conversion the stream stays within the layout's size; no    *)
(* two elements of a native or an interchange file share a place or lie     *)
(* past its end; and each term held has its value                           *)
(* (csr_layout.cpp:96-165, mmap_index.h:124-158).                           *)
THEOREM TypesHold == Spec => []TypeOK
<1>1. IInv => TypeOK
  <2> SUFFICES ASSUME IInv PROVE TypeOK
    OBVIOUS
  <2>1. NativeInv /\ VectorsInv
    BY DEF IInv
  <2>2. width \in Widths /\ accepted \in Seq(Inputs)
    BY <2>1 DEF VectorsInv
  <2>3. conv.at \in {"idle", "indptr", "indices", "values"}
    BY <2>1 DEF NativeInv, ConvInv, Converting
  <2>4. ASSUME ~Converting("idle")
        PROVE  /\ Source \in Inputs /\ conv.done <= Source.nnz
               /\ native.bytes <= native.written
               /\ native.written <= native_file_size(Source.rows, Source.nnz, FloatBytes)
    <3>1. FileInv(native) /\ native.source = Source /\ native.width = 4 /\ conv.done \in 0 .. Source.nnz
      BY <2>1, <2>4 DEF NativeInv, ConvInv
    <3>2. /\ Source \in Inputs /\ Corpus(Source) /\ native.bytes <= native.written
          /\ native.written <= ValuesAt(Source) + Source.nnz * 4
      BY <3>1 DEF FileInv
    <3>3. Source.nnz \in Nat
      BY <3>2 DEF Corpus
    <3>4. native_file_size(Source.rows, Source.nnz, 4) = ValuesAt(Source) + Source.nnz * 4
      BY <3>2, Geometry
    <3> QED
      BY <3>1, <3>2, <3>3, <3>4 DEF FloatBytes
  <2>5. Converting("idle") => native.written = native.bytes
    BY <2>1 DEF NativeInv, ConvInv
  <2>6. vectors_.held \in {"none", "owned", "borrowed"} /\ Len(vectors_.indices) = Len(vectors_.values)
    <3>1. CASE vectors_ = NoRows
      BY <3>1 DEF NoRows
    <3>2. CASE OwnedInv
      BY <3>2 DEF OwnedInv, Stored
    <3>3. CASE BorrowedInv
      BY <3>3 DEF BorrowedInv, Stored
    <3> QED
      BY <2>1, <3>1, <3>2, <3>3 DEF VectorsInv
  <2>7. \A x \in native.cells :
          /\ x.at + x.bytes <= native.written
          /\ \A y \in native.cells : x # y => Apart(x, y)
    BY <2>1, CellsApart
  <2> QED
    BY <2>2, <2>3, <2>4, <2>5, <2>6, <2>7 DEF TypeOK
<1> QED
  BY <1>1, IInvHolds, PTL

LEMMA HeldByIInv == ASSUME VectorsInv PROVE MappingIsHeld
  <1>1. CASE vectors_ = NoRows /\ csr_mapping_ = NoFile
    BY <1>1 DEF NoRows, MappingIsHeld
  <1>2. CASE OwnedInv
    BY <1>2 DEF OwnedInv, MappingIsHeld
  <1>3. CASE BorrowedInv
    <2>1. vectors_.held = "borrowed" /\ csr_mapping_.bytes >= 24
      BY <1>3 DEF BorrowedInv
    <2>2. ~(NoFile.bytes >= 24)
      BY DEF NoFile
    <2>3. csr_mapping_ # NoFile
      BY <2>1, <2>2
    <2> QED
      BY <2>1, <2>3 DEF MappingIsHeld
  <1> QED
    BY <1>1, <1>2, <1>3 DEF VectorsInv

(* No step of a conversion, no copy and no map leaves borrowed rows without *)
(* a mapping or a mapping without borrowed rows (mmap_index.h:156-158,      *)
(* buf.h:148-158, inverted_index.cpp:267-270).                              *)
THEOREM MappingStaysHeld == Spec => []MappingIsHeld
<1>1. IInv => MappingIsHeld
  BY HeldByIInv DEF IInv
<1> QED
  BY <1>1, IInvHolds, PTL

(* However a corpus came, copied or mapped, from a file that was finished   *)
(* or one that was cut, searching what the index holds stays within its     *)
(* arrays and its dimension (mmap_index.h:89-91, csr_layout.cpp:60-94).     *)
THEOREM SearchStaysSafe == Spec => []SafeToSearch
<1>1. IInv => SafeToSearch
  <2> SUFFICES ASSUME VectorsInv, Ordered PROVE
         /\ Monotonic(vectors_.indptr)
         /\ vectors_ # NoRows => Last(vectors_.indptr) = Len(vectors_.indices)
         /\ \A i \in DOMAIN vectors_.indices : vectors_.indices[i] \in 0 .. Dim - 1
         /\ MappingIsHeld
    BY DEF IInv, SafeToSearch
  <2>1. MappingIsHeld
    BY HeldByIInv
  <2>2. ASSUME Stored(vectors_)
        PROVE  /\ Last(vectors_.indptr) = Len(vectors_.indices)
               /\ \A i \in DOMAIN vectors_.indices : vectors_.indices[i] \in 0 .. Dim - 1
    <3>1. vectors_.indices \in Seq(Int)
      BY <2>2 DEF Stored
    <3>2. DOMAIN vectors_.indices = 1 .. Len(vectors_.indices)
      BY <3>1
    <3> QED
      BY <2>2, <3>2 DEF Stored
  <2>3. CASE vectors_ = NoRows
    <3>1. vectors_.indptr = <<>> /\ vectors_.indices = <<>>
      BY <2>3 DEF NoRows
    <3>2. Monotonic(<<>>)
      BY DEF Monotonic
    <3>3. DOMAIN vectors_.indices = {}
      BY <3>1
    <3> QED
      BY <2>1, <2>3, <3>1, <3>2, <3>3
  <2>4. CASE OwnedInv
    BY <2>1, <2>2, <2>4 DEF OwnedInv
  <2>5. CASE BorrowedInv
    BY <2>1, <2>2, <2>5 DEF BorrowedInv
  <2> QED
    BY <2>3, <2>4, <2>5 DEF VectorsInv
<1> QED
  BY <1>1, IInvHolds, PTL

LEMMA FlattenOne ==
  ASSUME NEW S, NEW t \in Seq(Seq(S)), Len(t) = 1
  PROVE  FlattenSeq(t) = t[1]
  <1>1. Len(t) # 0
    OBVIOUS
  <1>2. FlattenSeq(t) = Flat(t)[1]
    BY <1>1, FlattenIsFlat
  <1>3. Flat(t)[1] = t[1]
    BY <1>1, FlatEquation
  <1> QED
    BY <1>2, <1>3

(* The rows are those of the files the index took, in their order, however  *)
(* the conversions, copies, maps and builds interleave                      *)
(* (mmap_index.h:124-140, csr_layout.cpp:96-165).                           *)
THEOREM RowsStayTheCallers == Spec => []RowsAreTheCallers
<1>1. IInv => RowsAreTheCallers
  <2> SUFFICES ASSUME VectorsInv PROVE
         /\ vectors_.held = "borrowed" /\ width = FloatBytes => Whole
         /\ Ordered /\ (vectors_.held = "borrowed" => Whole) => Rows(vectors_) = Contents
    BY DEF IInv, RowsAreTheCallers, Contents
  <2>1. CASE vectors_ = NoRows /\ accepted = <<>>
    <3>1. vectors_.held = "none" /\ vectors_.indptr = <<>>
      BY <2>1 DEF NoRows
    <3>2. Len(<<>>) = 0
      OBVIOUS
    <3>3. Rows(vectors_) = <<>>
      <4>1. Rows(vectors_) = [r \in 1 .. 0 - 1 |-> Row(vectors_, r)]
        BY <3>1, <3>2 DEF Rows
      <4>2. 1 .. 0 - 1 = {}
        OBVIOUS
      <4> QED
        BY <4>1, <4>2
    <3>4. Contents = <<>>
      <4>1. [i \in DOMAIN accepted |-> Rows(accepted[i])] = <<>>
        BY <2>1
      <4> QED
        BY <3>2, <4>1 DEF Contents, FlattenSeq
    <3> QED
      BY <3>1, <3>3, <3>4
  <2>2. CASE OwnedInv
    BY <2>2 DEF OwnedInv
  <2>3. CASE BorrowedInv
    <3> DEFINE c == csr_mapping_.source
               t == [i \in DOMAIN accepted |-> Rows(accepted[i])]
    <3>1. /\ vectors_.held = "borrowed" /\ accepted = <<c>> /\ FileInv(csr_mapping_)
          /\ vectors_.indptr = c.indptr /\ vectors_.indices = c.indices
          /\ width = 4 => Whole
          /\ Whole => vectors_.values = c.values
      BY <2>3 DEF BorrowedInv
    <3>2. c \in Inputs
      BY <3>1 DEF FileInv
    <3> HIDE DEF c
    <3>3. Rows(c) \in Seq(InputRows)
      BY <3>2, RowsOfInputs
    <3>4. DOMAIN accepted = 1 .. 1 /\ accepted[1] = c
      BY <3>1
    <3>5. t = [i \in 1 .. 1 |-> Rows(c)]
      BY <3>4
    <3> HIDE DEF t
    <3>6. t \in Seq(Seq(InputRows)) /\ Len(t) = 1 /\ t[1] = Rows(c)
      BY <3>3, <3>5
    <3>7. FlattenSeq(t) = Rows(c)
      BY <3>6, FlattenOne
    <3>8. Contents = Rows(c)
      BY <3>7 DEF Contents, t
    <3>9. Whole => Rows(vectors_) = Rows(c)
      BY <3>1 DEF Rows, Row
    <3> QED
      BY <3>1, <3>8, <3>9 DEF FloatBytes
  <2> QED
    BY <2>1, <2>2, <2>3 DEF VectorsInv
<1> QED
  BY <1>1, IInvHolds, PTL
=============================================================================
