----------------------------- MODULE TermWindows -----------------------------
(***************************************************************************)
(* make_windows (nsparse/seismic_common.cpp): how a batched seismic build  *)
(* cuts the term space 0 .. dim-1 into contiguous windows of comparable    *)
(* load.  The function is one thread's pair of nested loops; each loop     *)
(* iteration is a step here, so that the loop invariants are invariants of *)
(* the specification.                                                      *)
(*                                                                         *)
(* The inputs (the postings of each term, lambda, the batch count) are     *)
(* variables that PlanInit chooses and no step changes, so that one run    *)
(* checks every input of the bounded sets the configuration names.         *)
(***************************************************************************)
EXTENDS Integers, Sequences

CONSTANTS
  Dims,       \* the dimensions considered
  Counts,     \* how many postings a term may have
  Lambdas,    \* the resolved pruning lengths considered
  AskedSizes, \* batch_clustering.batch_size as the caller set it
  CostRatio   \* kClusterCostRatio

ASSUME DimsAssumption      == Dims \subseteq Nat
ASSUME CountsAssumption    == Counts \subseteq Nat
ASSUME LambdasAssumption   == Lambdas \subseteq Nat
ASSUME BatchesAssumption   == AskedSizes \subseteq Nat
ASSUME CostRatioAssumption == CostRatio \in Nat

VARIABLES
  dim,         \* term_counts.size()
  term_counts, \* the postings of each term
  lambda,
  batches,
  stage,       \* "tally" | "open" | "fill" | "done"
  prefix,      \* prefix[t]: remaining_load after the tally's first t terms
  remaining,   \* remaining_load
  windows,     \* the windows pushed so far
  from,        \* begin: first term of the window being cut
  end,         \* one past the last term taken into it
  load,        \* load of from .. end-1
  target       \* the load this window aims for

inputs == <<dim, term_counts, lambda, batches>>
planVars == <<dim, term_counts, lambda, batches, stage, prefix, remaining,
          windows, from, end, load, target>>

Least(a, b) == IF a < b THEN a ELSE b
Greatest(a, b) == IF a < b THEN b ELSE a

(* Mutated: the clamp to the dimension is missing. *)
EffectiveBatchesUnclamped(batchSize, d) == Greatest(1, batchSize)

(* Windows to run for a batch size: at least one, at most one per term.     *)
(* PlanInit only considers calls that spill, so that the batch size counts. *)
EffectiveBatches(batchSize, d) == Least(Greatest(1, batchSize), d)

(* What a term costs while its window is held. *)
LoadOf(t) == term_counts[t] + CostRatio * Least(term_counts[t], lambda)

WindowsLeft == batches - Len(windows)

(* Mutated: no term is reserved for the windows still to come. *)
MaxEndUnreserved == dim

MaxEnd == dim - (WindowsLeft - 1)

(* Mutated: the target rounds down, and the last window pays for it. *)
FloorDiv(a, b) == a \div b

CeilDiv(a, b) == (a + b - 1) \div b

Tallied == Len(prefix) - 1
-----------------------------------------------------------------------------
PlanInit ==
  /\ dim \in Dims
  /\ term_counts \in [0 .. dim - 1 -> Counts]
  /\ lambda \in Lambdas
  /\ \E b \in AskedSizes : batches = EffectiveBatches(b, dim)
  /\ stage = "tally"
  /\ prefix = <<0>>
  /\ remaining = 0
  /\ windows = <<>>
  /\ from = 0
  /\ end = 0
  /\ load = 0
  /\ target = 0

(* for (size_t count : term_counts) remaining_load += load_of(count) *)
Tally ==
  /\ stage = "tally"
  /\ Tallied < dim
  /\ remaining' = remaining + LoadOf(Tallied)
  /\ prefix' = Append(prefix, remaining')
  /\ UNCHANGED <<inputs, stage, windows, from, end, load, target>>

TallyDone ==
  /\ stage = "tally"
  /\ Tallied = dim
  /\ stage' = "open"
  /\ UNCHANGED <<inputs, prefix, remaining, windows, from, end, load, target>>

(* Mutated: the last window is cut as the others are. *)
TakeRestShort ==
  /\ stage = "open"
  /\ from < dim
  /\ WindowsLeft <= 1
  /\ windows' = Append(windows, [begin |-> from, end |-> from + 1])
  /\ stage' = "done"
  /\ UNCHANGED <<inputs, prefix, remaining, from, end, load, target>>

(* The head of the outer loop, when this is the last window: take the rest. *)
TakeRest ==
  /\ stage = "open"
  /\ from < dim
  /\ WindowsLeft <= 1
  /\ windows' = Append(windows, [begin |-> from, end |-> dim])
  /\ stage' = "done"
  /\ UNCHANGED <<inputs, prefix, remaining, from, end, load, target>>

(* Mutated: the load of the window before is not reset. *)
AimWindowKeepsLoad ==
  /\ stage = "open"
  /\ from < dim
  /\ WindowsLeft > 1
  /\ target' = CeilDiv(remaining, WindowsLeft)
  /\ end' = from
  /\ stage' = "fill"
  /\ UNCHANGED <<inputs, prefix, remaining, windows, from, load>>

(* The head of the outer loop, with more windows to come: the target is     *)
(* recomputed from what is left.                                            *)
AimWindow ==
  /\ stage = "open"
  /\ from < dim
  /\ WindowsLeft > 1
  /\ target' = CeilDiv(remaining, WindowsLeft)
  /\ end' = from
  /\ load' = 0
  /\ stage' = "fill"
  /\ UNCHANGED <<inputs, prefix, remaining, windows, from>>

WantsMore == end < MaxEnd /\ (end = from \/ load < target)

(* The inner loop: take one more term into the window. *)
TakeTerm ==
  /\ stage = "fill"
  /\ WantsMore
  /\ load' = load + LoadOf(end)
  /\ end' = end + 1
  /\ UNCHANGED <<inputs, stage, prefix, remaining, windows, from, target>>

CloseWindow ==
  /\ stage = "fill"
  /\ ~WantsMore
  /\ windows' = Append(windows, [begin |-> from, end |-> end])
  /\ remaining' = remaining - load
  /\ from' = end
  /\ stage' = "open"
  /\ UNCHANGED <<inputs, prefix, end, load, target>>

(* from = dim: the outer loop's own exit, which only dim = 0 takes. *)
LoopExit ==
  /\ stage = "open"
  /\ from >= dim
  /\ stage' = "done"
  /\ UNCHANGED <<inputs, prefix, remaining, windows, from, end, load, target>>

Terminated == stage = "done" /\ UNCHANGED planVars

PlanNext ==
  \/ Tally
  \/ TallyDone
  \/ TakeRest
  \/ AimWindow
  \/ TakeTerm
  \/ CloseWindow
  \/ LoopExit
  \/ Terminated

PlanSpec == PlanInit /\ [][PlanNext]_planVars
-----------------------------------------------------------------------------
Span == [begin : Nat, end : Nat]

PlanTypeOK ==
  /\ dim \in Nat
  /\ term_counts \in [0 .. dim - 1 -> Nat]
  /\ lambda \in Nat
  /\ batches \in Nat
  /\ stage \in {"tally", "open", "fill", "done"}
  /\ prefix \in Seq(Nat)
  /\ remaining \in Nat
  /\ windows \in Seq(Span)
  /\ from \in Nat
  /\ end \in Nat
  /\ load \in Nat
  /\ target \in Nat

(* Windows ws follow each other from term 0, and none is empty. *)
Run(ws) ==
  /\ \A w \in 1 .. Len(ws) : ws[w].begin < ws[w].end
  /\ \A w \in 1 .. Len(ws) - 1 : ws[w].end = ws[w + 1].begin
  /\ ws # <<>> => ws[1].begin = 0

Contiguous == Run(windows)

(* What the spill relies on (a list's position in the file is its term):    *)
(* when make_windows returns, its windows are a partition of 0 .. dim-1     *)
(* into exactly `batches` non-empty contiguous runs, in ascending order.    *)
(* seismic_common.cpp:56-60 and :90-92.                                     *)
Partition ==
  stage = "done" =>
    /\ Contiguous
    /\ Len(windows) = batches
    /\ windows # <<>> => windows[Len(windows)].end = dim
    /\ windows = <<>> => dim = 0

(* The size_t arithmetic never wraps: `batches - windows.size()` and        *)
(* `windows_left - 1` at the loop head, `dim - (windows_left - 1)` leaving  *)
(* at least one term to take, and `remaining_load -= load`                  *)
(* (seismic_common.cpp:81, :92, :104).                                      *)
NoUnderflow ==
  /\ stage \in {"open", "fill"} /\ from < dim => WindowsLeft >= 1
  /\ stage = "fill" => WindowsLeft > 1 /\ from < MaxEnd /\ end <= MaxEnd
  /\ stage = "fill" => load <= remaining

(* "overshooting one window tightens the next instead of accumulating"      *)
(* (seismic_common.cpp:86-87): a finished window of two or more terms was   *)
(* still below the share of an even split of the WHOLE load before its last *)
(* term was taken -- for every window, not only the first, so no later one  *)
(* pays for an earlier one; the last window, which takes whatever is left,  *)
(* is within the even share if it holds more than one term.                 *)
EvenShare == CeilDiv(prefix[dim + 1], batches)
LoadOfTerms(b, e) == prefix[e + 1] - prefix[b + 1]
Balanced ==
  stage = "done" =>
    \A w \in 1 .. Len(windows) :
      LET b == windows[w].begin
          e == windows[w].end
      IN  e - b > 1 =>
            IF w = Len(windows) THEN LoadOfTerms(b, e) <= EvenShare
                                ELSE LoadOfTerms(b, e - 1) < EvenShare
=============================================================================
