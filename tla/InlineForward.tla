--------------------------- MODULE InlineForward ---------------------------
(***************************************************************************)
(* The inline forward index on disk: how InlineForwardIndex::serialize     *)
(* lays out a section of blocks and their directory in a stream, and how   *)
(* mmap_deserialize and block() find their way in it again                 *)
(* (nsparse/io/inline_forward_index_io.cpp, nsparse/inline_forward_index.h)*)
(*                                                                         *)
(* A document is its id and its number of terms; the section is its        *)
(* numbers -- lengths, offsets and directory entries -- and not its terms  *)
(* and values.  Between the two the file may be cut short or have one      *)
(* number changed.                                                         *)
(***************************************************************************)
EXTENDS Numbers, Sequences, SequencesExt

CONSTANTS
  Nnz,      \* the corpus: the number of terms of document 0, 1, ...
  Inputs,   \* the lists: for each posting list its blocks, sequences of ids
  Widths,   \* element sizes
  Pages,    \* page_size arguments; Packed for the packed layout
  Packed,
  Starts,   \* where in the stream the section may start
  MaxNnz    \* INT32_MAX: the terms a block may have

ASSUME NnzAssumption    == Nnz \in Seq(Nat) /\ MaxNnz \in Nat
ASSUME InputsAssumption == Inputs \subseteq Seq(Seq(Seq(0 .. Len(Nnz) - 1)))
ASSUME WidthAssumption  == Widths \subseteq {1, 2, 4}
ASSUME PagesAssumption  == Pages \subseteq (Nat \ {0}) \union {Packed} /\ Packed \notin Nat
ASSUME StartsAssumption == Starts \subseteq Nat

VARIABLES
  lists_,   \* of each list its blocks, of each block its documents
  width,    \* the corpus's element size
  align,    \* write_alignment()
  pc,       \* "sizing" | "body" | "written" | "threw"; "mapping" | "entries"
            \* | "loaded" | "rejected"
  pos,      \* position in the stream
  base,     \* where the body starts
  length,   \* the length prefix
  todo,     \* blocks still to write: <<list, block>>
  cur,      \* write_body's cur_off
  blocks,   \* what is written: the block that starts at an offset
  dir,      \* entries
  section,  \* its numbers in the file, and how many bytes of it there are
  at,       \* load_directory: the entry to look at next
  counts    \* blocks found of each list; list_offset_ before its prefix sum

writeVars == <<lists_, width, align, pos, base, length, todo, cur, blocks, dir>>
sectionVars == <<writeVars, pc, section, at, counts>>

MinBlockAlign == 8
HeaderSize    == 24
EntrySize     == 32
TrailerSize   == 24
PrefixSize    == 4   \* [u32 n_docs]

NoFile == [present |-> 0]
-----------------------------------------------------------------------------
(* The layout both sides share.                                             *)

AlignUp(o, a) == ((o + a - 1) \div a) * a

(* Mutated: the values follow the terms at once. *)
LayoutUnpadded(n, nnz, w) ==
  LET off   == PrefixSize + 4 * n
      comps == off + 4 * (n + 1)
      vals  == comps + 2 * nnz
  IN  [docIds |-> PrefixSize, off |-> off, comps |-> comps, vals |-> vals, end |-> vals + nnz * w]

(* inline_block_offsets *)
Layout(n, nnz, w) ==
  LET off   == PrefixSize + 4 * n
      comps == off + 4 * (n + 1)
      vals  == AlignUp(comps + 2 * nnz, w)
  IN  [docIds |-> PrefixSize, off |-> off, comps |-> comps, vals |-> vals, end |-> vals + nnz * w]

(* The CSR offsets of a block's documents. *)
OffsetsOf(docs) ==
  [i \in 1 .. Len(docs) + 1 |-> SumOf([j \in 1 .. i - 1 |-> Nnz[docs[j] + 1]])]

EndOf(docs, w) == Layout(Len(docs), Last(OffsetsOf(docs)), w).end

BlockDocs(p) == lists_[p[1]][p[2]]

(* Blocks in the order of the loops over lists and their blocks. *)
InOrder(ls) ==
  LET upTo[l \in 0 .. Len(ls)] ==
        IF l = 0 THEN <<>> ELSE upTo[l - 1] \o [b \in 1 .. Len(ls[l]) |-> <<l, b>>]
  IN  upTo[Len(ls)]

(* count_block refuses a block with too many terms. *)
Countable(docs) == Last(OffsetsOf(docs)) <= MaxNnz

(* Where the block after the first k is to start. *)
Sized(ls, w, a) ==
  LET start[k \in 0 .. Len(InOrder(ls))] ==
        IF k = 0 THEN AlignUp(HeaderSize, a)
        ELSE LET p == InOrder(ls)[k] IN AlignUp(start[k - 1] + EndOf(ls[p[1]][p[2]], w), a)
  IN  start

(* How long the directory and the trailer are. *)
EndSize == Len(InOrder(lists_)) * EntrySize + TrailerSize

(* Mutated: the last block is not padded. *)
SectionLengthUnpadded ==
  LET n == Len(InOrder(lists_))
  IN  EndSize + IF n = 0 THEN AlignUp(HeaderSize, align)
                ELSE Sized(lists_, width, align)[n - 1] + EndOf(BlockDocs(InOrder(lists_)[n]), width)

(* section_length: the pass that sizes the body without writing it. *)
SectionLength == Sized(lists_, width, align)[Len(InOrder(lists_))] + EndSize
-----------------------------------------------------------------------------
(* The constructor's check of page_size: only even numbers and 1 divide a   *)
(* power of two.                                                            *)
IsPowerOfTwo(n) == n # 0 /\ \A d \in 2 .. n : n % d = 0 => d % 2 = 0
ValidPage(p)    == IsPowerOfTwo(p) /\ p >= HeaderSize

(* write_alignment() *)
Alignments == {IF p = Packed THEN MinBlockAlign ELSE p :
                 p \in {q \in Pages : q = Packed \/ ValidPage(q)}}

SectionInit ==
  /\ lists_ \in Inputs /\ width \in Widths
  /\ align \in Alignments
  /\ pc = "sizing"
  /\ pos \in Starts
  /\ base = 0 /\ length = 0 /\ todo = <<>> /\ cur = 0 /\ blocks = <<>> /\ dir = <<>>
  /\ section = NoFile /\ at = 1 /\ counts = <<>>

(* serialize up to write_body's loop: pad, size, write the length, then the *)
(* header.  A block that cannot be counted throws here.                     *)
Serialize ==
  /\ pc = "sizing"
  /\ IF \A p \in Range(InOrder(lists_)) : Countable(BlockDocs(p))
       THEN /\ length' = SectionLength
            /\ base' = AlignUp(pos, MinBlockAlign) + 8
            /\ cur' = AlignUp(HeaderSize, align)
            /\ pos' = base' + cur'
            /\ todo' = InOrder(lists_)
            /\ pc' = "body"
       ELSE pc' = "threw" /\ UNCHANGED <<length, base, cur, pos, todo>>
  /\ UNCHANGED <<lists_, width, align, blocks, dir, section, at, counts>>

(* Mutated: a block's length in the directory includes its padding. *)
WriteBlockPaddedLen ==
  /\ pc = "body"
  /\ todo # <<>>
  /\ LET docs == BlockDocs(Head(todo))
     IN  /\ cur' = AlignUp(cur + EndOf(docs, width), align)
         /\ pos' = pos + (cur' - cur)
         /\ blocks' = [o \in DOMAIN blocks \union {cur} |->
                       IF o = cur THEN [ids |-> docs, offsets |-> OffsetsOf(docs)] ELSE blocks[o]]
         /\ dir' = Append(dir, [pl |-> Head(todo)[1] - 1, block |-> Head(todo)[2] - 1,
                                off |-> cur, len |-> cur' - cur, n |-> Len(docs)])
  /\ todo' = Tail(todo)
  /\ UNCHANGED <<lists_, width, align, pc, base, length, section, at, counts>>

(* One block, its padding, its directory entry. *)
WriteBlock ==
  /\ pc = "body"
  /\ todo # <<>>
  /\ LET docs == BlockDocs(Head(todo))
     IN  /\ cur' = AlignUp(cur + EndOf(docs, width), align)
         /\ pos' = pos + (cur' - cur)
         /\ blocks' = [o \in DOMAIN blocks \union {cur} |->
                       IF o = cur THEN [ids |-> docs, offsets |-> OffsetsOf(docs)] ELSE blocks[o]]
         /\ dir' = Append(dir, [pl |-> Head(todo)[1] - 1, block |-> Head(todo)[2] - 1,
                                off |-> cur, len |-> EndOf(docs, width), n |-> Len(docs)])
  /\ todo' = Tail(todo)
  /\ UNCHANGED <<lists_, width, align, pc, base, length, section, at, counts>>

(* The directory and the trailer; then serialize's check of the length.     *)
WriteDirectory ==
  /\ pc = "body"
  /\ todo = <<>>
  /\ pos' = pos + Len(dir) * EntrySize + TrailerSize
  /\ section' = [length |-> length, width |-> width, page |-> align, nBlocks |-> Len(InOrder(lists_)),
              dir |-> dir, dirOffset |-> cur, nEntries |-> Len(dir), nLists |-> Len(lists_),
              present |-> pos' - base, intact |-> TRUE]
  /\ pc' = IF pos' - base = length THEN "written" ELSE "threw"
  /\ UNCHANGED <<lists_, width, align, base, length, todo, cur, blocks, dir, at, counts>>

(* The file between writing and loading (external): it is whole, cut short, *)
(* or one of its numbers is another.  Bound: numbers off by little.         *)
Near(n, ds) == {n + d : d \in ds} \intersect Nat

DamagedEntry(g, i) ==
  {[g EXCEPT !.dir[i].pl = n] : n \in Near(g.dir[i].pl, {-1, 1})}
    \union {[g EXCEPT !.dir[i].block = n] : n \in Near(g.dir[i].block, {-1, 1})}
    \union {[g EXCEPT !.dir[i].off = n] : n \in Near(g.dir[i].off, {-HeaderSize, -8, -4, 4, 8})}
    \union {[g EXCEPT !.dir[i].len = n] : n \in Near(g.dir[i].len, {-4, 4, 8, -g.dir[i].len})}
    \union {[g EXCEPT !.dir[i].n = n] : n \in Near(g.dir[i].n, {-1, 1})}

Damaged(f) ==
  LET g == [f EXCEPT !.intact = FALSE]
  IN  {[g EXCEPT !.present = p] : p \in Near(f.present, {-1, -TrailerSize, -f.present})}
        \union {[g EXCEPT !.width = w] : w \in {0, 1, 2, 4} \ {f.width}}
        \union {[g EXCEPT !.page = p] : p \in {0, 4, 12, 16}}
        \union {[g EXCEPT !.nBlocks = n] : n \in Near(f.nBlocks, {-1, 1})}
        \union {[g EXCEPT !.dirOffset = n] :
                  n \in Near(f.dirOffset, {-EntrySize, -8, 8, EntrySize, -f.dirOffset})}
        \union {[g EXCEPT !.nEntries = n] : n \in Near(f.nEntries, {-1, 1})}
        \union {[g EXCEPT !.nLists = n] : n \in Near(f.nLists, {-1, 1})}
        \union UNION {DamagedEntry(g, i) : i \in DOMAIN f.dir}

Settle ==
  /\ pc = "written"
  /\ section' \in {section} \union Damaged(section)
  /\ pc' = "mapping"
  /\ UNCHANGED <<writeVars, at, counts>>
-----------------------------------------------------------------------------
(* mmap_deserialize: the body is no longer than what is mapped. *)
WithinMapping(f) == f.length <= f.present

(* load_directory's checks of the header and the trailer: a directory of    *)
(* as many entries as there are blocks fits before the trailer exactly.     *)
HeaderAccepted(f) ==
  LET dirEnd == f.length - TrailerSize
  IN  /\ f.length >= HeaderSize + TrailerSize
      /\ base % MinBlockAlign = 0
      /\ f.width \in {1, 2, 4}
      /\ f.page >= MinBlockAlign /\ IsPowerOfTwo(f.page)
      /\ f.nEntries = f.nBlocks
      /\ HeaderSize <= f.dirOffset /\ f.dirOffset <= dirEnd
      /\ (dirEnd - f.dirOffset) % EntrySize = 0
      /\ (dirEnd - f.dirOffset) \div EntrySize = f.nEntries

(* Mutated: the walk starts before the first entry. *)
MapFromZero ==
  /\ pc = "mapping"
  /\ IF WithinMapping(section) /\ HeaderAccepted(section)
       THEN pc' = "entries" /\ counts' = [l \in 0 .. section.nLists - 1 |-> 0]
       ELSE pc' = "rejected" /\ UNCHANGED counts
  /\ at' = 0
  /\ UNCHANGED <<writeVars, section>>

(* mmap_deserialize and load_directory up to its loop over the entries.     *)
Map ==
  /\ pc = "mapping"
  /\ IF WithinMapping(section) /\ HeaderAccepted(section)
       THEN pc' = "entries" /\ counts' = [l \in 0 .. section.nLists - 1 |-> 0]
       ELSE pc' = "rejected" /\ UNCHANGED counts
  /\ at' = 1
  /\ UNCHANGED <<writeVars, section>>

(* Mutated: the length of a block is not looked at. *)
EntryFitsUnchecked(e) ==
  /\ e.pl < section.nLists
  /\ e.len >= PrefixSize
  /\ e.off % MinBlockAlign = 0
  /\ HeaderSize <= e.off /\ e.off <= section.dirOffset

EntryFits(e) ==
  /\ e.pl < section.nLists
  /\ e.len >= PrefixSize
  /\ e.off % MinBlockAlign = 0
  /\ HeaderSize <= e.off /\ e.off <= section.dirOffset
  /\ section.dirOffset - e.off >= e.len

(* Grouped by list, the blocks of each from 0 without a gap. *)
EntryFollows(e) ==
  LET before == section.dir[at - 1]
  IN  IF at = 1 \/ e.pl # before.pl
        THEN e.block = 0 /\ (at = 1 \/ e.pl > before.pl)
        ELSE e.block = before.block + 1

CheckEntry ==
  /\ pc = "entries"
  /\ at <= Len(section.dir)
  /\ LET e == section.dir[at]
     IN  IF EntryFits(e) /\ EntryFollows(e)
           THEN counts' = [counts EXCEPT ![e.pl] = @ + 1] /\ UNCHANGED pc
           ELSE pc' = "rejected" /\ UNCHANGED counts
  /\ at' = at + 1
  /\ UNCHANGED <<writeVars, section>>

LoadDone ==
  /\ pc = "entries"
  /\ at > Len(section.dir)
  /\ pc' = "loaded"
  /\ UNCHANGED <<writeVars, section, at, counts>>

SectionNext ==
  \/ Serialize \/ WriteBlock \/ WriteDirectory
  \/ Settle
  \/ Map \/ CheckEntry \/ LoadDone

SectionSpec == SectionInit /\ [][SectionNext]_sectionVars
-----------------------------------------------------------------------------
(* What search reads.                                                       *)

(* list_offset_: how many entries come before those of list l. *)
ListOffset(l) == SumOf([i \in 0 .. l - 1 |-> counts[i]])

(* The entry of a block; none if it is absent. *)
EntriesOf(l, b) ==
  IF l \in DOMAIN counts /\ b < counts[l]
    THEN LET e == section.dir[ListOffset(l) + b + 1]
         IN  IF e.pl = l /\ e.block = b THEN {e} ELSE {}
    ELSE {}

(* What may stand where no block starts. *)
Anything == {[ids |-> ids, offsets |-> offsets] :
               ids \in {<<>>, <<0>>, <<1, 0>>}, offsets \in {<<0>>, <<0, 2>>, <<0, 3, 1>>, <<1, 1, 2>>}}

ContentAt(o) == IF o \in DOMAIN blocks THEN {blocks[o]} ELSE Anything

(* view_block accepts the content c found at entry e. *)
ViewAccepted(e, c) ==
  LET n   == Len(c.ids)
  IN  /\ n = e.n
      /\ Layout(n, 0, section.width).comps <= e.len
      /\ Len(c.offsets) > n
      /\ c.offsets[1] = 0
      /\ \A i \in 1 .. n : c.offsets[i] <= c.offsets[i + 1]
      /\ Layout(n, c.offsets[n + 1], section.width).end = e.len

(* The views block(l, b) may return, with where each array is. *)
Views(l, b) ==
  UNION {{[ids |-> c.ids, offsets |-> SubSeq(c.offsets, 1, Len(c.ids) + 1), off |-> e.off,
           layout |-> Layout(Len(c.ids), c.offsets[Len(c.ids) + 1], section.width)] :
            c \in {x \in ContentAt(e.off) : ViewAccepted(e, x)}} : e \in EntriesOf(l, b)}
-----------------------------------------------------------------------------
Pcs == {"sizing", "body", "written", "threw", "mapping", "entries", "loaded", "rejected"}

SectionTypeOK ==
  /\ pc \in Pcs
  /\ pos \in Nat /\ base \in Nat /\ length \in Nat /\ cur \in Nat
  /\ Range(todo) \subseteq Range(InOrder(lists_))
  /\ DOMAIN blocks \subseteq Nat
  /\ \A i \in DOMAIN dir : dir[i] \in [pl : Nat, block : Nat, off : Nat, len : Nat, n : Nat]
  /\ at \in 1 .. Len(dir) + 1
  /\ \A l \in DOMAIN counts : counts[l] \in 0 .. Len(dir)

(* Where the arrays of a block with this layout at an offset may start. *)
Aligned(off, layout, w) ==
  /\ (base + off + layout.docIds) % 4 = 0
  /\ (base + off + layout.comps) % 2 = 0
  /\ (base + off + layout.vals) % w = 0

(* "it can be read in place as a typed array" (inline_forward_index.h:20-22)*)
(* whatever came before the section: blocks start on the alignment, follow  *)
(* each other without overlap between the header and the directory, and     *)
(* each of their arrays is aligned for its element.                         *)
BlocksInPlace ==
  \A i \in DOMAIN dir :
    LET e == dir[i]
    IN  /\ e.off % align = 0
        /\ e.off >= HeaderSize
        /\ e.off + e.len <= IF i < Len(dir) THEN dir[i + 1].off ELSE cur
        /\ Aligned(e.off, Layout(e.n, Last(blocks[e.off].offsets), width), width)

(* "The prefix must equal what the body actually wrote"                     *)
(* (inline_forward_index_io.cpp:182-188): the pass that sizes and the one   *)
(* that writes agree, and a block that is refused is refused before         *)
(* anything of the section is written.  A section that was not damaged      *)
(* loads, and block() finds the documents of each block of each list, and   *)
(* no block where there is none: after lists without blocks, in the last    *)
(* list, behind the last block.                                             *)
RoundTrip ==
  /\ base # 0 => pc # "threw"
  /\ section # NoFile /\ section.intact =>
       /\ pc # "rejected"
       /\ pc = "loaded" =>
            \A l \in 0 .. Len(lists_) : \A b \in 0 .. Len(InOrder(lists_)) :
              LET there == l < Len(lists_) /\ b < Len(lists_[l + 1])
              IN  IF there
                    THEN \E v \in Views(l, b) :
                           /\ Views(l, b) = {v}
                           /\ v.ids = lists_[l + 1][b + 1]
                           /\ v.offsets = OffsetsOf(v.ids)
                    ELSE Views(l, b) = {}

(* "fail-closed: block() never returns an out-of-bounds view"               *)
(* (inline_forward_index_io.h:67-69): of a section cut short, or with a     *)
(* number that is wrong, whatever is not rejected is read within the mapped *)
(* bytes before the directory, at addresses its elements can be loaded from.*)
FailClosed ==
  pc = "loaded" =>
    /\ section.length <= section.present
    /\ \A l \in DOMAIN counts : \A b \in 0 .. counts[l] : \A v \in Views(l, b) :
         /\ HeaderSize <= v.off
         /\ v.off + v.layout.end <= section.dirOffset
         /\ \A i \in DOMAIN v.offsets : v.offsets[i] <= Last(v.offsets)
         /\ Aligned(v.off, v.layout, section.width)
=============================================================================
