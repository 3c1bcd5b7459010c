-------------------------- MODULE QuantizedSearch --------------------------
(***************************************************************************)
(* SeismicScalarQuantizedIndex (nsparse/seismic_scalar_quantized_index.cpp *)
(* and utils/scalar_quantizer.h): the caller's weights are stored as codes,*)
(* his queries are encoded over the same range or one of their own, the    *)
(* search runs on codes, and the scores it finds are decoded.  The code    *)
(* repeats SeismicIndex's search line for line over codes, and so the      *)
(* steps here are SeismicSearch's.  With the kind "float" the module is    *)
(* SeismicIndex itself, which stores weights as they are.  What the disk-  *)
(* resident indexes quantize they quantize alike (DiskSeismicSearch).      *)
(***************************************************************************)
EXTENDS SeismicSearch

CONSTANTS
  Quantizers,  \* the quantizers of an index: [type, vmin, vmax]
  Given,       \* the corpora as callers give them
  Questions    \* the searches as callers ask them: as Calls, and
               \* override: do they bring a range vmin .. vmax of their own?
               \* budget: the blocks a disk-resident index may score

Types == {"float", "8bit", "16bit"}

VARIABLES
  weights,  \* the corpus as it was given to add()
  sq,       \* sq_
  asked     \* the search as it was asked

callerVars    == <<weights, sq, asked>>
quantizedVars == <<vars, callerVars>>

(* The constructor's check; a float index has no quantizer. *)
IsQuantizer(s) == s.type = "float" \/ s.vmax > s.vmin

Extent(s) == s.vmax - s.vmin

(* Mutated: truncates, as a cast does. *)
EncodeTruncated(s, val) ==
  IF s.type = "float"
    THEN val
    ELSE Max({0, Min({MaxCode[s.type], ((val - s.vmin) * MaxCode[s.type]) \div Extent(s)})})

(* Mutated: a weight beyond the range wraps around. *)
EncodeUnclamped(s, val) ==
  IF s.type = "float"
    THEN val
    ELSE LET max    == MaxCode[s.type]
             scaled == (2 * (val - s.vmin) * max + Extent(s)) \div (2 * Extent(s))
         IN  scaled % (max + 1)

(* encode_8bit, encode_16bit: scaled to the codes, clamped to them, then    *)
(* rounded (halves up).                                                     *)
Encode(s, val) ==
  IF s.type = "float"
    THEN val
    ELSE LET max    == MaxCode[s.type]
             scaled == (2 * (val - s.vmin) * max + Extent(s)) \div (2 * Extent(s))
         IN  Max({0, Min({max, scaled})})

(* add() *)
EncodedCorpus(s, c) == [i \in DOMAIN c |-> [t \in DOMAIN c[i] |-> Encode(s, c[i][t])]]

(* query_quantizer: the index's type, over the call's range if it has one.  *)
QueryQuantizer(s, q) ==
  IF q.override /\ s.type # "float"
    THEN [type |-> s.type, vmin |-> q.vmin, vmax |-> q.vmax]
    ELSE s

(* The search that runs: the question, with its query encoded. *)
CallOf(s, q) ==
  [query  |-> [i \in DOMAIN q.query |->
                 [term   |-> q.query[i].term,
                  weight |-> Encode(QueryQuantizer(s, q), q.query[i].weight)]],
   k |-> q.k, cut |-> q.cut, factor |-> q.factor, ids |-> q.ids, listed |-> q.listed]

ASSUME QuantizersAssumption ==
  \A s \in Quantizers : s.type \in Types /\ s.vmin \in Nat /\ s.vmax \in Nat /\ IsQuantizer(s)
ASSUME CorporaAssumption    ==
  \A s \in Quantizers : \A c \in Given : EncodedCorpus(s, c) \in Corpora
ASSUME GivenAssumption      ==
  \A c \in Given : \A i \in DOMAIN c : c[i] \in [DOMAIN c[i] -> Nat]
ASSUME QuestionsAssumption  ==
  \A q \in Questions :
    /\ q.vmin \in Nat /\ q.vmax \in Nat
    /\ \A i \in DOMAIN q.query : q.query[i].weight \in Nat
    /\ \A s \in Quantizers : IsQuantizer(QueryQuantizer(s, q)) => CallOf(s, q) \in Calls

NoQuestion == [query |-> <<>>, k |-> 1, cut |-> 1, factor |-> [num |-> 1, den |-> 1],
               ids |-> {}, listed |-> FALSE, override |-> FALSE, vmin |-> 0, vmax |-> 0,
               budget |-> 1]
-----------------------------------------------------------------------------
QuantizedInit ==
  /\ Init
  /\ weights \in Given /\ sq \in Quantizers
  /\ param.type = sq.type
  /\ rows = EncodedCorpus(sq, weights)
  /\ asked = NoQuestion

(* build() has only codes to see. *)
BuildOverCodes == (Build \/ BuildList) /\ asked' = NoQuestion /\ UNCHANGED <<weights, sq>>

(* search(): a range that is empty throws before anything is done. *)
Ask(q) ==
  /\ IsQuantizer(QueryQuantizer(sq, q))
  /\ \E c \in {CallOf(sq, q)} : ExactMatch(c) \/ StartQuery(c)
  /\ asked' = q
  /\ UNCHANGED <<weights, sq>>

QueryList == (OpenList \/ NextCluster \/ ScanDoc) /\ UNCHANGED callerVars

SingleQuery == (ListDone \/ Finish) /\ UNCHANGED callerVars

QuantizedNext ==
  \/ BuildOverCodes
  \/ \E q \in Questions : Ask(q)
  \/ QueryList \/ SingleQuery

QuantizedSpec == QuantizedInit /\ [][QuantizedNext]_quantizedVars
-----------------------------------------------------------------------------
(* Decoded scores are compared times Unit, to stay with integers. *)
Unit == IF sq.type = "float" THEN 1 ELSE 4 * MaxCode[sq.type] * MaxCode[sq.type]

(* Mutated: takes the query to be encoded over the index's range. *)
decode_own_range(score) ==
  IF sq.type = "float" THEN score ELSE 4 * score * Extent(sq) * Extent(sq)

(* decode_dot_product: what a score of codes stands for. *)
decode_dot_product(score) ==
  IF sq.type = "float"
    THEN score
    ELSE 4 * score * Extent(sq) * Extent(QueryQuantizer(sq, asked))

(* The score of the weights the caller gave and asked with. *)
TrueScore(d) == Inner(Row(weights, d), QueryRow(asked))

(* How far, times Unit, rounding both weights of each term the two share    *)
(* can move a score: by w * half a step of q, q * half a step of w, and the *)
(* product of both halves.                                                  *)
RoundingError(d) ==
  IF sq.type = "float"
    THEN 0
    ELSE LET w   == Row(weights, d)
             q   == QueryRow(asked)
             max == MaxCode[sq.type]
             r   == Extent(sq)
             s   == Extent(QueryQuantizer(sq, asked))
         IN  SumOf([t \in DOMAIN w \intersect DOMAIN q |->
                      2 * max * w[t] * s + 2 * max * q[t] * r + r * s])

FromZero == sq.vmin = 0 /\ QueryQuantizer(sq, asked).vmin = 0

(* The weights of a row as far as a range reaches. *)
Clamped(s, r) ==
  [t \in DOMAIN r |-> IF s.type = "float" THEN r[t] ELSE Min({r[t], s.vmax})]

ClampedScore(d) ==
  Inner(Clamped(sq, Row(weights, d)), Clamped(QueryQuantizer(sq, asked), QueryRow(asked)))

InRange == \A d \in Docs : ClampedScore(d) = TrueScore(d)

(* What a search of codes returns is right as SeismicSearch's is, and once  *)
(* decoded, with ranges that start at 0, is the score of the caller's own   *)
(* weights give or take their rounding, though the query may be encoded     *)
(* over another range than the corpus; a weight beyond its range counts for *)
(* the range's end ("approximate original scale", scalar_quantizer.h:83-93).*)
SoundAnswer ==
  /\ SoundResult
  /\ pc = "idle" /\ call # NoCall /\ FromZero =>
       \A x \in BagToSet(result) :
         LET decoded == decode_dot_product(x.score)
             exact   == ClampedScore(x.doc) * Unit
         IN  /\ decoded <= exact + RoundingError(x.doc)
             /\ decoded >= exact - RoundingError(x.doc)

(* With nothing pruned anywhere, the search of codes is exact by codes, and *)
(* by the caller's weights as far as rounding lets it: a document is not    *)
(* left out for one that is worse by more than both were rounded            *)
(* (seismic_scalar_quantized_index.cpp:67-135, :296-347).                   *)
LosslessIsNearlyExact ==
  /\ LosslessIsExact
  /\ Searched /\ Exhaustive /\ FromZero /\ InRange =>
       \A d \in (Docs \intersect call.ids) \ Returned : \A x \in BagToSet(result) :
         TrueScore(d) * Unit <=
           TrueScore(x.doc) * Unit + RoundingError(d) + RoundingError(x.doc)
=============================================================================
